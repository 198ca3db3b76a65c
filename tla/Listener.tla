-------------------------------- MODULE Listener --------------------------------
(***************************************************************************)
(* ListenFile of fs/listener.go: every Open of the file makes a            *)
(* connection, which goes through the channel incoming to the program that *)
(* calls Accept; the program may close the listener.  A fid is opened      *)
(* once, its connection has the name of the fid.                           *)
(***************************************************************************)
EXTENDS Integers, Sequences, SequencesExt

CONSTANTS
  Fids,       \* the fids that open the file
  Acceptors,  \* the goroutines that call Accept
  Cap         \* capacity of incoming (10)

VARIABLES
  closed,    \* ListenFile.closed
  conns,     \* ListenFile.conns
  incoming,  \* the connections in the channel
  locked,    \* is the lock m held by the Close of the listener?
  fpc,       \* what each fid is doing: unopened, in Open, open, closed or refused
  apc,       \* is each Accept waiting?
  accepted,  \* the connections Accept has returned
  shut       \* the connections that are closed

vars == <<closed, conns, incoming, locked, fpc, apc, accepted, shut>>

Init ==
  /\ closed = FALSE /\ conns = {} /\ incoming = <<>> /\ locked = FALSE
  /\ fpc = [f \in Fids |-> "new"]
  /\ apc = [a \in Acceptors |-> "idle"]
  /\ accepted = <<>> /\ shut = {}

-------------------------------------------------------------------------------
(* The file.                                                                *)

\* The connection is registered under the lock and queued after its release.
Open(f) ==
  /\ fpc[f] = "new" /\ ~locked
  /\ IF closed
     THEN fpc' = [fpc EXCEPT ![f] = "refused"] /\ UNCHANGED conns
     ELSE fpc' = [fpc EXCEPT ![f] = "queue"] /\ conns' = conns \cup {f}
  /\ UNCHANGED <<closed, incoming, locked, apc, accepted, shut>>

Queue(f) ==
  /\ fpc[f] = "queue" /\ Len(incoming) < Cap
  /\ incoming' = Append(incoming, f)
  /\ fpc' = [fpc EXCEPT ![f] = "open"]
  /\ UNCHANGED <<closed, conns, locked, apc, accepted, shut>>

\* Close of the file, for one fid.
CloseFid(f) ==
  /\ fpc[f] = "open" /\ ~locked
  /\ conns' = conns \ {f}
  /\ shut' = shut \cup {f}
  /\ fpc' = [fpc EXCEPT ![f] = "closed"]
  /\ UNCHANGED <<closed, incoming, locked, apc, accepted>>

-------------------------------------------------------------------------------
(* The listener.                                                            *)

BeginAccept(a) ==
  /\ apc[a] = "idle"
  /\ apc' = [apc EXCEPT ![a] = "wait"]
  /\ UNCHANGED <<closed, conns, incoming, locked, fpc, accepted, shut>>

Accept(a) ==
  /\ apc[a] = "wait" /\ incoming # <<>>
  /\ accepted' = Append(accepted, Head(incoming))
  /\ incoming' = Tail(incoming)
  /\ apc' = [apc EXCEPT ![a] = "idle"]
  /\ UNCHANGED <<closed, conns, locked, fpc, shut>>

CloseListener ==
  /\ ~closed /\ ~locked
  /\ closed' = TRUE /\ locked' = TRUE
  /\ UNCHANGED <<conns, incoming, fpc, apc, accepted, shut>>

\* The loop of Close closes the connections nobody has accepted.  When there is
\* none, its break leaves the select and not the loop, which goes round again, with
\* the lock held: a step that changes nothing.  What follows the loop in the code,
\* closing the channel and the other connections, is not reached.
Drain ==
  /\ locked /\ incoming # <<>>
  /\ shut' = shut \cup {Head(incoming)}
  /\ incoming' = Tail(incoming)
  /\ UNCHANGED <<closed, conns, locked, fpc, apc, accepted>>

-------------------------------------------------------------------------------
Next ==
  \/ \E f \in Fids : Open(f) \/ Queue(f) \/ CloseFid(f)
  \/ \E a \in Acceptors : BeginAccept(a) \/ Accept(a)
  \/ CloseListener \/ Drain

Spec == Init /\ [][Next]_vars

\* What has been called goes on.
Fairness ==
  /\ \A f \in Fids : WF_vars(Queue(f))
  /\ \A a \in Acceptors : WF_vars(Accept(a))
  /\ WF_vars(Drain)
FairSpec == Spec /\ Fairness

-------------------------------------------------------------------------------
(* Properties                                                               *)

\* The types of the listener's fields and of the processes' variables.
TypeOK ==
  /\ conns \subseteq Fids /\ shut \subseteq Fids
  /\ Len(incoming) <= Cap
  /\ {closed, locked} \subseteq BOOLEAN
  /\ fpc \in [Fids -> {"new", "queue", "open", "closed", "refused"}]
  /\ apc \in [Acceptors -> {"idle", "wait"}]
  /\ \A f \in Fids : f \in conns <=> fpc[f] \in {"queue", "open"}

\* A client whose Open has succeeded is served: its connection is on its way to
\* Accept, has been accepted, once, or was closed.
ConnsServed ==
  /\ IsInjective(accepted \o incoming)
  /\ \A f \in Fids : fpc[f] = "open" =>
       f \in ToSet(accepted) \cup ToSet(incoming) \cup shut

\* An Open that waits for room in the channel when the listener is closed does not
\* wait for ever: the loop of Close makes room, though nobody accepts any more.
OpenReturns == \A f \in Fids : fpc[f] = "queue" /\ closed ~> fpc[f] # "queue"

\* "Any blocked Accept operations will be unblocked and return errors" (comment on
\* the Close of the listener).
CloseUnblocksAccept == \A a \in Acceptors : closed /\ apc[a] = "wait" ~> apc[a] = "idle"
===============================================================================
