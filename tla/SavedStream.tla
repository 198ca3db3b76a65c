------------------------------ MODULE SavedStream ------------------------------
(***************************************************************************)
(* SavedStream of fs/streams.go: Write appends to a file, every reader     *)
(* reads the file from its beginning and, at its end, waits for a signal   *)
(* of Write or of Close or for a timeout of 500ms.                         *)
(***************************************************************************)
EXTENDS Integers, FiniteSets

CONSTANTS
  Readers,  \* the fileReaders that may be made
  MaxLen    \* bound on the length of the file

ASSUME SavedStreamAssumption == MaxLen \in Nat

VARIABLES
  length,   \* the length of the file
  closed,   \* SavedStream.closed
  readers,  \* SavedStream.readers
  made,     \* the readers made so far
  file,     \* the readers whose r.f is open
  live,     \* the readers whose r.live is set
  pos,      \* the position of each reader in the file
  signal,   \* what is in each reader's channel, which holds one
  shut,     \* the readers whose channel is closed
  pc,       \* where the Read of each reader is
  answer,   \* what StreamFile.Read made of its last result
  panic

vars == <<length, closed, readers, made, file, live, pos, signal, shut, pc, answer, panic>>

Init ==
  /\ length = 0 /\ closed = FALSE
  /\ readers = {} /\ made = {} /\ file = {} /\ live = {} /\ shut = {}
  /\ pos = [r \in Readers |-> 0]
  /\ signal = [r \in Readers |-> 0]
  /\ pc = [r \in Readers |-> "idle"]
  /\ answer = [r \in Readers |-> "none"]
  /\ panic = FALSE

-------------------------------------------------------------------------------
(* SavedStream: its methods hold its lock.                                  *)

\* With a file that cannot be opened the reader is dead from the beginning.
AddReader(r) ==
  /\ ~panic /\ r \notin made
  /\ made' = made \cup {r}
  /\ \/ /\ file' = file \cup {r} /\ live' = live \cup {r}
        /\ readers' = IF closed THEN readers ELSE readers \cup {r}
        /\ shut' = IF closed THEN shut \cup {r} ELSE shut
     \/ UNCHANGED <<file, live, readers, shut>>
  /\ UNCHANGED <<length, closed, pos, signal, pc, answer, panic>>

\* RemoveReader also closes the reader, whatever its Read is doing.
RemoveReader(r) ==
  /\ ~panic /\ r \in made
  /\ readers' = readers \ {r}
  /\ file' = file \ {r} /\ live' = live \ {r}
  /\ UNCHANGED <<length, closed, made, pos, signal, shut, pc, answer, panic>>

\* Write makes the file longer, then signals the readers that are live without
\* waiting for them; the others leave.  A send on a closed channel is a panic.
Write(n) ==
  /\ ~panic /\ ~closed /\ n > length
  /\ length' = n
  /\ signal' = [r \in Readers |-> IF r \in readers \cap live THEN 1 ELSE signal[r]]
  /\ panic' = (readers \cap live \cap shut # {})
  /\ readers' = readers \cap live
  /\ UNCHANGED <<closed, made, file, live, pos, shut, pc, answer>>

\* Close may be called again; it closes no channel twice.
Close ==
  /\ ~panic
  /\ closed' = TRUE
  /\ panic' = (readers \cap shut # {})
  /\ shut' = shut \cup readers
  /\ readers' = {}
  /\ UNCHANGED <<length, made, file, live, pos, signal, pc, answer>>

-------------------------------------------------------------------------------
(* fileReader.Read, without a lock.                                         *)

Return(r, a) == pc' = [pc EXCEPT ![r] = "idle"] /\ answer' = [answer EXCEPT ![r] = a]

BeginRead(r) ==
  /\ ~panic /\ r \in made /\ pc[r] = "idle"
  /\ IF r \in live THEN pc' = [pc EXCEPT ![r] = "read"] /\ UNCHANGED answer
                   ELSE Return(r, "error")
  /\ UNCHANGED <<length, closed, readers, made, file, live, pos, signal, shut, panic>>

\* Read the file: up to any position there is, or nothing at its end.  A file that
\* was closed is an error.
ReadFile(r, n) ==
  /\ ~panic /\ pc[r] = "read"
  /\ \/ /\ r \notin file /\ n = pos[r] /\ Return(r, "error")
     \/ /\ r \in file /\ pos[r] < n /\ n <= length /\ Return(r, "data")
     \/ /\ r \in file /\ n = pos[r] /\ n = length
        /\ pc' = [pc EXCEPT ![r] = "wait"] /\ UNCHANGED answer
  /\ pos' = [pos EXCEPT ![r] = n]
  /\ UNCHANGED <<length, closed, readers, made, file, live, signal, shut, panic>>

Wake(r) ==
  /\ ~panic /\ pc[r] = "wait"
  /\ signal[r] = 1 /\ signal' = [signal EXCEPT ![r] = 0]
  /\ pc' = [pc EXCEPT ![r] = "read"]
  /\ UNCHANGED <<length, closed, readers, made, file, live, pos, shut, answer, panic>>

\* Mutant of TimeOut: there is no timer.
TimeOutNever(r) == pc[r] = "wait" /\ FALSE /\ UNCHANGED vars

TimeOut(r) ==
  /\ ~panic /\ pc[r] = "wait"
  /\ pc' = [pc EXCEPT ![r] = "read"]
  /\ UNCHANGED <<length, closed, readers, made, file, live, pos, signal, shut, answer, panic>>

\* Mutant of ReadEOF: that the channel is closed counts for more than the signal
\* that is still in it.
ReadEOFEarly(r) ==
  /\ ~panic /\ pc[r] = "wait" /\ r \in shut
  /\ file' = file \ {r} /\ live' = live \ {r}
  /\ Return(r, "error")
  /\ UNCHANGED <<length, closed, readers, made, pos, signal, shut, panic>>

\* A closed channel gives up its last signal first; then Read closes the reader
\* and returns io.EOF, of which StreamFile.Read makes an Rerror.
ReadEOF(r) ==
  /\ ~panic /\ pc[r] = "wait" /\ signal[r] = 0 /\ r \in shut
  /\ file' = file \ {r} /\ live' = live \ {r}
  /\ Return(r, "error")
  /\ UNCHANGED <<length, closed, readers, made, pos, signal, shut, panic>>

-------------------------------------------------------------------------------
Reader(r) == (\E n \in 0..MaxLen : ReadFile(r, n)) \/ Wake(r) \/ TimeOut(r) \/ ReadEOF(r)
Next ==
  \/ \E r \in Readers : AddReader(r) \/ RemoveReader(r) \/ BeginRead(r) \/ Reader(r)
  \/ \E n \in 1..MaxLen : Write(n)
  \/ Close

Spec == Init /\ [][Next]_vars

\* A Read in progress goes on; the timer of 500ms is part of it.  A channel that is
\* ready again and again is chosen at some time, the timer does not always win.
Fairness ==
  \A r \in Readers : WF_vars(Reader(r)) /\ SF_vars(Wake(r)) /\ SF_vars(ReadEOF(r))
FairSpec == Spec /\ Fairness

-------------------------------------------------------------------------------
(* Properties                                                               *)

\* The types of the stream and of its readers.
TypeOK ==
  /\ length \in 0..MaxLen
  /\ readers \subseteq made /\ made \subseteq Readers
  /\ file \subseteq made /\ live \subseteq made /\ shut \subseteq made
  /\ pos \in [Readers -> 0..MaxLen] /\ \A r \in Readers : pos[r] <= length
  /\ signal \in [Readers -> {0, 1}]
  /\ pc \in [Readers -> {"idle", "read", "wait"}]
  /\ answer \in [Readers -> {"none", "data", "error"}]
  /\ {closed, panic} \subseteq BOOLEAN

\* "Readers receive the full contents of the stream starting at the beginning and
\* receive any new Writes" (comment on SavedStream): a reader that is told the end
\* of the stream has read all of it, a Write that came in between included.
FullContents ==
  [][\A r \in Readers : pc[r] = "wait" /\ pc'[r] = "idle" => pos[r] = length]_vars

\* No send on a closed channel and no channel closed twice.
NoPanic == ~panic

\* No Read waits for ever on a reader that was removed or a stream that was closed:
\* the signal or the timer wakes it.
ReadReleased ==
  \A r \in Readers : pc[r] # "idle" /\ (r \notin file \/ r \in shut) ~> pc[r] = "idle"

-------------------------------------------------------------------------------
(* Statements of comments that the code does not keep.                      *)

\* "Return 0, nil on EOF. Returning io.EOF will cause RError response, which is
\* incorrect. 9p EOF is be 0-length RRead." (comment in chanReader.Read): the end of
\* the stream is no error.
EOFIsNoError ==
  [][\A r \in Readers : pc[r] = "wait" /\ pc'[r] = "idle" => answer'[r] # "error"]_vars
===============================================================================
