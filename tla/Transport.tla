------------------------------- MODULE Transport -------------------------------
(***************************************************************************)
(* One connection of the 9P server: handleIOAsync and handleCall of        *)
(* server.go with the tag contexts of fs/server.go (conn.tags).            *)
(*                                                                         *)
(* A reader puts requests in the buffered channel incoming, a pool of      *)
(* workers handles them and puts the replies in outgoing, a writer writes  *)
(* those to the connection.  Where a call is in this pipeline is at[c].    *)
(* The two channels are modelled by the calls they hold and their          *)
(* capacity; their order is left out, since the workers finish in any      *)
(* order anyway.                                                           *)
(***************************************************************************)
EXTENDS Integers, FiniteSets

CONSTANTS
  Calls,          \* the requests a client may send, numbered in their order
  Tags,           \* the tags it uses
  Workers,        \* the worker goroutines (100 in the code)
  InCap, OutCap,  \* capacity of incoming and of outgoing (100)
  Window,         \* how many unanswered requests the client allows itself
  Kinds,          \* the kinds of requests it sends, of the four below
  DistinctTags,   \* does it give unanswered requests distinct tags?
  ServerErrors,   \* may a method of Srv return a Go error?
  None            \* "no call", "no context"

AllKinds == {"request",   \* handled by a method of Srv
             "flush",     \* Tflush
             "invalid",   \* a message that is not a request
             "badAttach"} \* Tattach whose user is not the certificate's

ASSUME TransportAssumption ==
  /\ IsFiniteSet(Calls) /\ None \notin Calls /\ Workers # {}
  /\ InCap \in Nat /\ OutCap \in Nat /\ Window \in Nat
  /\ Kinds \subseteq AllKinds
  /\ {DistinctTags, ServerErrors} \subseteq BOOLEAN

ASSUME ClientAssumption == Calls \subseteq Nat /\ Tags # {} /\ Kinds # {}

VARIABLES
  at,         \* where each call is
  tag, kind,  \* its tag and its kind
  ctx,        \* the context TagContext returned for it
  seen,       \* the context DropContext loaded for it
  failed,     \* did its method return a Go error?
  tags,       \* conn.tags: the current context of each tag; a context is
              \* named after the call that created it
  cancelled,  \* the cancelled contexts
  job,        \* the call each worker handles
  up,         \* the workers that have not exited
  reader,     \* where handleIOAsync itself is
  hungup,     \* has the client closed its end?
  panic

callVars == <<tag, kind, ctx, seen, failed>>
vars == <<at, callVars, tags, cancelled, job, up, reader, hungup, panic>>

\* The stages of a call inside a worker, in the order of handleCall.
Stages == {"tagLoad", "tagStore", "handle", "check", "dropLoad", "dropDelete",
           "dropCancel", "return", "send"}
Places == {"unsent", "net", "incoming", "outgoing", "answered",
           "swallowed", \* handleCall returned neither a reply nor an error
           "error",     \* handleCall returned an error: no reply
           "refused",   \* the reader wants to answer it with Rerror itself
           "lost"}      \* its reply was written after the connection was closed

In(place) == {c \in Calls : at[c] = place}

\* What the client has sent and got no reply to.
Unanswered == {c \in Calls : at[c] \notin {"unsent", "answered"}}

Init ==
  /\ at = [c \in Calls |-> "unsent"]
  /\ tag = [c \in Calls |-> CHOOSE t \in Tags : TRUE]    \* of no meaning before
  /\ kind = [c \in Calls |-> CHOOSE k \in Kinds : TRUE]  \* a call is sent
  /\ ctx = [c \in Calls |-> None]
  /\ seen = [c \in Calls |-> None]
  /\ failed = [c \in Calls |-> FALSE]
  /\ tags = [t \in Tags |-> None]
  /\ cancelled = {}
  /\ job = [w \in Workers |-> None]
  /\ up = Workers
  /\ reader = "run"
  /\ hungup = FALSE
  /\ panic = FALSE

Running == panic = FALSE /\ UNCHANGED panic
Move(c, place) == at' = [at EXCEPT ![c] = place]

-------------------------------------------------------------------------------
(* The client.                                                              *)

Send(c, t, k) ==
  /\ at[c] = "unsent" /\ ~hungup
  /\ \A d \in Calls : d < c => at[d] # "unsent"
  /\ Cardinality(Unanswered) < Window
  /\ DistinctTags => \A d \in Unanswered : tag[d] # t
  /\ tag' = [tag EXCEPT ![c] = t]
  /\ kind' = [kind EXCEPT ![c] = k]
  /\ Move(c, "net")
  /\ Running
  /\ UNCHANGED <<ctx, seen, failed, tags, cancelled, job, up, reader, hungup>>

HangUp ==
  /\ ~hungup
  /\ hungup' = TRUE
  /\ Running
  /\ UNCHANGED <<at, callVars, tags, cancelled, job, up, reader>>

-------------------------------------------------------------------------------
(* The reader: the body of handleIOAsync, then its deferred calls.          *)

\* A request is queued without waiting; a full channel is a panic.
ReadCall(c) ==
  /\ reader = "run" /\ at[c] = "net" /\ kind[c] # "badAttach"
  /\ IF Cardinality(In("incoming")) < InCap
     THEN Move(c, "incoming") /\ UNCHANGED panic
     ELSE panic' = TRUE /\ UNCHANGED at
  /\ ~panic
  /\ UNCHANGED <<callVars, tags, cancelled, job, up, reader, hungup>>

\* An attach with the wrong user name ends the connection, after an Rerror.
ReadBadAttach(c) ==
  /\ reader = "run" /\ at[c] = "net" /\ kind[c] = "badAttach"
  /\ Move(c, "refused")
  /\ reader' = "refuse"
  /\ Running
  /\ UNCHANGED <<callVars, tags, cancelled, job, up, hungup>>

RefuseAttach(c) ==
  /\ reader = "refuse" /\ at[c] = "refused"
  /\ Cardinality(In("outgoing")) < OutCap
  /\ Move(c, "outgoing")
  /\ reader' = "closeIncoming"
  /\ Running
  /\ UNCHANGED <<callVars, tags, cancelled, job, up, hungup>>

\* Mutant: an error of ParseCall is logged and the loop goes on.
ReadErrorIgnored == reader = "run" /\ hungup /\ UNCHANGED vars

\* ParseCall fails: end of file, or a message that cannot be parsed.
ReadError ==
  /\ reader = "run" /\ hungup
  /\ reader' = "closeIncoming"
  /\ Running
  /\ UNCHANGED <<at, callVars, tags, cancelled, job, up, hungup>>

CloseIncoming ==
  /\ reader = "closeIncoming"
  /\ reader' = "waitWorkers"
  /\ Running
  /\ UNCHANGED <<at, callVars, tags, cancelled, job, up, hungup>>

\* Mutant: outgoing is closed without waiting for the workers.
CloseOutgoingEarly ==
  /\ reader = "waitWorkers"
  /\ reader' = "returned"
  /\ Running
  /\ UNCHANGED <<at, callVars, tags, cancelled, job, up, hungup>>

\* workerWG.Wait, close(outgoing), outgoingWG.Wait: the writer has called Done
\* when it started, so that the last one does not wait.  The caller then closes
\* the connection.
CloseOutgoing ==
  /\ reader = "waitWorkers" /\ up = {}
  /\ reader' = "returned"
  /\ Running
  /\ UNCHANGED <<at, callVars, tags, cancelled, job, up, hungup>>

-------------------------------------------------------------------------------
(* A worker w: take a call, handleCall, send the reply.                     *)

TakeCall(w, c) ==
  /\ w \in up /\ job[w] = None /\ at[c] = "incoming"
  /\ job' = [job EXCEPT ![w] = c]
  /\ Move(c, "tagLoad")
  /\ Running
  /\ UNCHANGED <<callVars, tags, cancelled, up, reader, hungup>>

\* TagContext looks the tag up and enters a new context when there is none: two
\* operations on the sync.Map.  A message that is no request fails right after.
Dispatch(c) ==
  IF kind[c] = "invalid"
  THEN Move(c, "return") /\ failed' = [failed EXCEPT ![c] = TRUE]
  ELSE Move(c, "handle") /\ UNCHANGED failed

TagLoad(w) ==
  LET c == job[w] IN
  /\ c # None /\ at[c] = "tagLoad"
  /\ IF tags[tag[c]] = None
     THEN Move(c, "tagStore") /\ UNCHANGED <<ctx, failed>>
     ELSE Dispatch(c) /\ ctx' = [ctx EXCEPT ![c] = tags[tag[c]]]
  /\ Running
  /\ UNCHANGED <<tag, kind, seen, tags, cancelled, job, up, reader, hungup>>

TagStore(w) ==
  LET c == job[w] IN
  /\ c # None /\ at[c] = "tagStore"
  /\ tags' = [tags EXCEPT ![tag[c]] = c]
  /\ ctx' = [ctx EXCEPT ![c] = c]
  /\ Dispatch(c)
  /\ Running
  /\ UNCHANGED <<tag, kind, seen, cancelled, job, up, reader, hungup>>

\* The method of Srv returns, after any time it likes.  Tflush has no method: it
\* is answered at once and leaves the context of its oldtag alone.
Handle(w) ==
  LET c == job[w] IN
  /\ c # None /\ at[c] = "handle"
  /\ Move(c, "check")
  /\ \E e \in BOOLEAN : /\ e => ServerErrors /\ kind[c] # "flush"
                        /\ failed' = [failed EXCEPT ![c] = e]
  /\ Running
  /\ UNCHANGED <<tag, kind, ctx, seen, tags, cancelled, job, up, reader, hungup>>

\* Mutant: a failed call returns before DropContext.
CheckContextEarlyReturn(w) ==
  LET c == job[w] IN
  /\ c # None /\ at[c] = "check"
  /\ Move(c, IF failed[c] THEN "return" ELSE "dropLoad")
  /\ Running
  /\ UNCHANGED <<callVars, tags, cancelled, job, up, reader, hungup>>

\* A call whose context was cancelled is dropped without a reply.
CheckContext(w) ==
  LET c == job[w] IN
  /\ c # None /\ at[c] = "check"
  /\ IF ctx[c] \in cancelled
     THEN Move(c, "swallowed") /\ job' = [job EXCEPT ![w] = None]
     ELSE Move(c, "dropLoad") /\ UNCHANGED job
  /\ Running
  /\ UNCHANGED <<callVars, tags, cancelled, up, reader, hungup>>

\* DropContext: Load, Delete, cancel.
DropLoad(w) ==
  LET c == job[w] IN
  /\ c # None /\ at[c] = "dropLoad"
  /\ seen' = [seen EXCEPT ![c] = tags[tag[c]]]
  /\ Move(c, IF tags[tag[c]] = None THEN "return" ELSE "dropDelete")
  /\ Running
  /\ UNCHANGED <<tag, kind, ctx, failed, tags, cancelled, job, up, reader, hungup>>

\* Mutant: the context is cancelled and stays in the map.
DropDeleteMissing(w) ==
  LET c == job[w] IN
  /\ c # None /\ at[c] = "dropDelete"
  /\ Move(c, "dropCancel")
  /\ Running
  /\ UNCHANGED <<callVars, tags, cancelled, job, up, reader, hungup>>

DropDelete(w) ==
  LET c == job[w] IN
  /\ c # None /\ at[c] = "dropDelete"
  /\ tags' = [tags EXCEPT ![tag[c]] = None]
  /\ Move(c, "dropCancel")
  /\ Running
  /\ UNCHANGED <<callVars, cancelled, job, up, reader, hungup>>

DropCancel(w) ==
  LET c == job[w] IN
  /\ c # None /\ at[c] = "dropCancel"
  /\ cancelled' = cancelled \cup {seen[c]}
  /\ Move(c, "return")
  /\ Running
  /\ UNCHANGED <<callVars, tags, job, up, reader, hungup>>

\* A Go error ends the worker, and only the worker.
Return(w) ==
  LET c == job[w] IN
  /\ c # None /\ at[c] = "return"
  /\ IF failed[c]
     THEN Move(c, "error") /\ job' = [job EXCEPT ![w] = None] /\ up' = up \ {w}
     ELSE Move(c, "send") /\ UNCHANGED <<job, up>>
  /\ Running
  /\ UNCHANGED <<callVars, tags, cancelled, reader, hungup>>

\* Mutant: a reply that finds outgoing full is dropped.
SendReplyDropping(w) ==
  LET c == job[w] IN
  /\ c # None /\ at[c] = "send"
  /\ Move(c, IF Cardinality(In("outgoing")) < OutCap THEN "outgoing" ELSE "lost")
  /\ job' = [job EXCEPT ![w] = None]
  /\ Running
  /\ UNCHANGED <<callVars, tags, cancelled, up, reader, hungup>>

\* Sending on the closed channel would panic.
SendReply(w) ==
  LET c == job[w] IN
  /\ c # None /\ at[c] = "send"
  /\ IF reader = "returned"
     THEN panic' = TRUE /\ UNCHANGED <<at, job>>
     ELSE /\ Cardinality(In("outgoing")) < OutCap
          /\ Move(c, "outgoing")
          /\ job' = [job EXCEPT ![w] = None]
          /\ UNCHANGED panic
  /\ ~panic
  /\ UNCHANGED <<callVars, tags, cancelled, up, reader, hungup>>

\* Mutant: a worker ends when incoming is closed, with calls left in it.
WorkerExitEarly(w) ==
  /\ w \in up /\ job[w] = None
  /\ reader \in {"waitWorkers", "returned"}
  /\ up' = up \ {w}
  /\ Running
  /\ UNCHANGED <<at, callVars, tags, cancelled, job, reader, hungup>>

\* The range over incoming ends once it is closed and empty.
WorkerExit(w) ==
  /\ w \in up /\ job[w] = None
  /\ reader \in {"waitWorkers", "returned"} /\ In("incoming") = {}
  /\ up' = up \ {w}
  /\ Running
  /\ UNCHANGED <<at, callVars, tags, cancelled, job, reader, hungup>>

-------------------------------------------------------------------------------
(* The writer: an error of Write is logged and the reply forgotten.         *)

WriteReply(c) ==
  /\ at[c] = "outgoing"
  /\ Move(c, IF reader = "returned" THEN "lost" ELSE "answered")
  /\ Running
  /\ UNCHANGED <<callVars, tags, cancelled, job, up, reader, hungup>>

-------------------------------------------------------------------------------
Reader ==
  \/ \E c \in Calls : ReadCall(c) \/ ReadBadAttach(c) \/ RefuseAttach(c)
  \/ ReadError \/ CloseIncoming \/ CloseOutgoing

Worker(w) ==
  \/ \E c \in Calls : TakeCall(w, c)
  \/ TagLoad(w) \/ TagStore(w) \/ Handle(w) \/ CheckContext(w)
  \/ DropLoad(w) \/ DropDelete(w) \/ DropCancel(w)
  \/ Return(w) \/ SendReply(w) \/ WorkerExit(w)

Writer == \E c \in Calls : WriteReply(c)

Next ==
  \/ \E c \in Calls, t \in Tags, k \in Kinds : Send(c, t, k)
  \/ HangUp
  \/ Reader
  \/ \E w \in Workers : Worker(w)
  \/ Writer

Spec == Init /\ [][Next]_vars

\* Every goroutine that can run does, and every method of Srv returns.  The
\* client need not send anything or hang up.
Fairness ==
  /\ WF_vars(Reader)
  /\ \A w \in Workers : WF_vars(Worker(w))
  /\ WF_vars(Writer)

FairSpec == Spec /\ Fairness

-------------------------------------------------------------------------------
(* Properties                                                               *)

Readers == {"run", "refuse", "closeIncoming", "waitWorkers", "returned"}

\* The types of the variables; DropContext only cancels a context it has found.
TypeOK ==
  /\ at \in [Calls -> Places \cup Stages]
  /\ tag \in [Calls -> Tags]
  /\ kind \in [Calls -> Kinds]
  /\ ctx \in [Calls -> Calls \cup {None}]
  /\ seen \in [Calls -> Calls \cup {None}]
  /\ failed \in [Calls -> BOOLEAN]
  /\ tags \in [Tags -> Calls \cup {None}]
  /\ cancelled \subseteq Calls
  /\ job \in [Workers -> Calls \cup {None}]
  /\ up \subseteq Workers
  /\ reader \in Readers
  /\ {hungup, panic} \subseteq BOOLEAN
  /\ \A c \in Calls : at[c] \in {"dropDelete", "dropCancel"} => seen[c] # None

\* handleCall answers every request, or fails, as long as the client does not
\* reuse the tag of an unanswered request: although TagContext and DropContext
\* are several steps, no call ever finds its own context cancelled by another.
NoReplySwallowed == In("swallowed") = {}

\* conn.tags holds the context of a call only while that call is handled, so it
\* does not grow: only a message that is no request leaves its context behind.
ContextsDropped ==
  \A t \in Tags : tags[t] # None =>
    LET c == tags[t] IN \/ at[c] \in Stages \ {"tagLoad", "tagStore", "send"}
                        \/ kind[c] = "invalid"

\* The deferred calls of handleIOAsync end the goroutines in the right order:
\* when it returns no worker handles a call, and every request that was accepted
\* has been handled, unless Go errors have ended workers before.
ShutdownOrder ==
  reader = "returned" =>
    /\ \A c \in Calls : at[c] \notin Stages \cup {"refused"}
    /\ In("incoming") # {} => In("error") # {}

\* "FAILED TO QUEUE INCOMING!" does not happen, nor a send on the closed channel
\* outgoing.
NoPanic == ~panic

\* Every request of a client that stays connected is answered, unless a worker has
\* ended with an error.
RequestsAnswered ==
  \A c \in Calls :
    at[c] = "net" ~> at[c] = "answered" \/ reader # "run" \/ In("error") # {}

\* When the client hangs up handleIOAsync returns, so that its caller closes the
\* connection.
ShutdownCompletes == hungup ~> reader = "returned"

\* The comment in the worker: a call without a reply "happens when an active tag
\* is flushed".
SwallowedWereFlushed ==
  In("swallowed") # {} => \E d \in Calls : kind[d] = "flush" /\ at[d] # "unsent"

\* The comment on Srv: returning a Go error "will cause the connection to be
\* terminated".
ErrorEndsConnection == \A c \in Calls : at[c] = "error" ~> reader # "run"
===============================================================================
