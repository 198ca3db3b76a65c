------------------------------ MODULE SingleStream ------------------------------
(***************************************************************************)
(* SingleStream of fs/streams.go: one buffer, handed from the writer to    *)
(* the reader and back with two semaphores, which are channels of          *)
(* capacity 1.  A reader is the fid of a client that has opened the file.  *)
(***************************************************************************)
EXTENDS Integers, Sequences, FiniteSets

CONSTANTS
  Writers,    \* the goroutines that call Write
  Readers,    \* the fids on the stream file
  MaxWrites,  \* bound on the number of Writes
  ChunkLen,   \* the length of the data of each Write
  ReadLen,    \* the length of the buffer of each Read
  None

ASSUME SingleStreamAssumption ==
  /\ IsFiniteSet(Writers) /\ IsFiniteSet(Readers) /\ None \notin Readers
  /\ {ChunkLen, ReadLen} \subseteq Nat \ {0} /\ MaxWrites \in Nat

VARIABLES
  writesem, readsem,  \* how much is in each channel
  closed,             \* are s.closed and s.readsem closed?
  buffer,             \* s.buffer
  reader,             \* s.reader
  open,               \* the readers in the fidReader map of the stream file
  wpc, rpc,           \* where each Write and each Read is
  count,              \* how many Writes have put their data into the buffer
  log,                \* all that Reads have returned
  panic

vars == <<writesem, readsem, closed, buffer, reader, open, wpc, rpc, count, log, panic>>

Init ==
  /\ writesem = 1 /\ readsem = 0 /\ closed = FALSE
  /\ buffer = <<>> /\ reader = None /\ open = {}
  /\ wpc = [w \in Writers |-> "idle"]
  /\ rpc = [r \in Readers |-> "idle"]
  /\ count = 0 /\ log = <<>> /\ panic = FALSE

Bytes(n) == [k \in 1..ChunkLen |-> <<n, k>>]

-------------------------------------------------------------------------------
(* Write.                                                                   *)

BeginWrite(w) ==
  /\ ~panic /\ wpc[w] = "idle" /\ count < MaxWrites
  /\ wpc' = [wpc EXCEPT ![w] = "wait"]
  /\ UNCHANGED <<writesem, readsem, closed, buffer, reader, open, rpc, count, log, panic>>

TakeWritesem(w) ==
  /\ ~panic /\ wpc[w] = "wait" /\ writesem = 1
  /\ writesem' = 0
  /\ wpc' = [wpc EXCEPT ![w] = "put"]
  /\ UNCHANGED <<readsem, closed, buffer, reader, open, rpc, count, log, panic>>

\* The buffer is the caller's data; the signal to the reader ends Write, or the
\* program when the channel is closed.
PutBuffer(w) ==
  /\ ~panic /\ wpc[w] = "put" /\ (readsem = 0 \/ closed)
  /\ count' = count + 1
  /\ buffer' = Bytes(count + 1)
  /\ readsem' = 1
  /\ panic' = closed
  /\ wpc' = [wpc EXCEPT ![w] = "idle"]
  /\ UNCHANGED <<writesem, closed, reader, open, rpc, log>>

-------------------------------------------------------------------------------
(* Readers.                                                                 *)

\* Open of the stream file fails while there is a reader.
AddReader(r) ==
  /\ ~panic /\ reader = None /\ r \notin open
  /\ reader' = r /\ open' = open \cup {r}
  /\ UNCHANGED <<writesem, readsem, closed, buffer, wpc, rpc, count, log, panic>>

\* Close of the stream file, whatever the Read of its reader is doing.
RemoveReader(r) ==
  /\ ~panic /\ r \in open
  /\ reader' = (IF reader = r THEN None ELSE reader)
  /\ open' = open \ {r}
  /\ UNCHANGED <<writesem, readsem, closed, buffer, wpc, rpc, count, log, panic>>

BeginRead(r) ==
  /\ ~panic /\ r \in open /\ rpc[r] = "idle"
  /\ rpc' = [rpc EXCEPT ![r] = "wait"]
  /\ UNCHANGED <<writesem, readsem, closed, buffer, reader, open, wpc, count, log, panic>>

\* Mutant of TakeReadsem: that the stream is closed is not noticed.
TakeReadsemOnly(r) ==
  /\ ~panic /\ rpc[r] = "wait" /\ readsem = 1
  /\ readsem' = 0
  /\ rpc' = [rpc EXCEPT ![r] = "copy"]
  /\ UNCHANGED <<writesem, closed, buffer, reader, open, wpc, count, log, panic>>

\* A closed readsem is never waited for; on a closed stream Read returns nothing.
TakeReadsem(r) ==
  /\ ~panic /\ rpc[r] = "wait" /\ (readsem = 1 \/ closed)
  /\ readsem' = 0
  /\ rpc' = [rpc EXCEPT ![r] = IF closed THEN "idle" ELSE "copy"]
  /\ UNCHANGED <<writesem, closed, buffer, reader, open, wpc, count, log, panic>>

\* Mutant of CopyBuffer: the next Write may go on before the buffer is empty.
CopyBufferEager(r) ==
  LET n == IF Len(buffer) < ReadLen THEN Len(buffer) ELSE ReadLen IN
  /\ ~panic /\ rpc[r] = "copy"
  /\ log' = log \o SubSeq(buffer, 1, n)
  /\ buffer' = SubSeq(buffer, n + 1, Len(buffer))
  /\ writesem' = 1
  /\ rpc' = [rpc EXCEPT ![r] = "idle"]
  /\ UNCHANGED <<readsem, closed, reader, open, wpc, count, panic>>

\* Mutant of CopyBuffer: after the last bytes both sides are told to go on.
CopyBufferBoth(r) ==
  LET n == IF Len(buffer) < ReadLen THEN Len(buffer) ELSE ReadLen IN
  /\ ~panic /\ rpc[r] = "copy"
  /\ log' = log \o SubSeq(buffer, 1, n)
  /\ buffer' = SubSeq(buffer, n + 1, Len(buffer))
  /\ writesem' = IF buffer' = <<>> THEN 1 ELSE writesem
  /\ readsem' = 1
  /\ rpc' = [rpc EXCEPT ![r] = "idle"]
  /\ UNCHANGED <<closed, reader, open, wpc, count, panic>>

\* Copy what fits; the last bytes let the next Write go on, else it is for the
\* next Read, unless the stream is closed by now: a panic.
CopyBuffer(r) ==
  LET n == IF Len(buffer) < ReadLen THEN Len(buffer) ELSE ReadLen IN
  /\ ~panic /\ rpc[r] = "copy"
  /\ log' = log \o SubSeq(buffer, 1, n)
  /\ buffer' = SubSeq(buffer, n + 1, Len(buffer))
  /\ IF buffer' = <<>>
     THEN writesem = 0 /\ writesem' = 1 /\ UNCHANGED <<readsem, panic>>
     ELSE readsem = 0 /\ readsem' = 1 /\ panic' = closed /\ UNCHANGED writesem
  /\ rpc' = [rpc EXCEPT ![r] = "idle"]
  /\ UNCHANGED <<closed, reader, open, wpc, count>>

Close ==
  /\ ~panic /\ ~closed
  /\ closed' = TRUE
  /\ UNCHANGED <<writesem, readsem, buffer, reader, open, wpc, rpc, count, log, panic>>

-------------------------------------------------------------------------------
Writer(w) == TakeWritesem(w) \/ PutBuffer(w)
Reader(r) == TakeReadsem(r) \/ CopyBuffer(r)
Next ==
  \/ \E w \in Writers : BeginWrite(w) \/ Writer(w)
  \/ \E r \in Readers : AddReader(r) \/ RemoveReader(r) \/ BeginRead(r) \/ Reader(r)
  \/ Close

Spec == Init /\ [][Next]_vars

\* A Read in progress goes on as soon as it can.
Fairness == \A r \in Readers : WF_vars(Reader(r))
FairSpec == Spec /\ Fairness

-------------------------------------------------------------------------------
(* Properties                                                               *)

\* The types of the stream and of the processes' variables.
TypeOK ==
  /\ writesem \in 0..1 /\ readsem \in 0..1
  /\ {closed, panic} \subseteq BOOLEAN
  /\ Len(buffer) <= ChunkLen
  /\ reader \in Readers \cup {None} /\ open \subseteq Readers
  /\ wpc \in [Writers -> {"idle", "wait", "put"}]
  /\ rpc \in [Readers -> {"idle", "wait", "copy"}]
  /\ count \in 0..(MaxWrites + Cardinality(Writers))

\* The two semaphores make the buffer the property of one process: until the
\* stream is closed there is one token, in a channel or with the Write or Read that
\* uses the buffer, and it is on the readers' side when there is something to read.
OneToken ==
  ~closed =>
    /\ writesem + readsem + Cardinality({w \in Writers : wpc[w] = "put"})
         + Cardinality({r \in Readers : rpc[r] = "copy"}) = 1
    /\ buffer # <<>> <=> (readsem = 1 \/ \E r \in Readers : rpc[r] = "copy")

\* Whoever reads, what was written comes out once, complete and in order: "One write
\* at a time, until it is entirely consumed" (comment in Write).
DataInOrder ==
  LET all == log \o buffer IN ~panic =>
  /\ Len(all) = count * ChunkLen
  /\ \A n \in 1..count, k \in 1..ChunkLen : all[(n - 1) * ChunkLen + k] = <<n, k>>

\* Close lets a waiting Read return.
CloseReleasesReads ==
  \A r \in Readers : closed /\ rpc[r] = "wait" ~> rpc[r] = "idle" \/ panic

\* SingleStream implements a pipe.  All that was put in is what Reads have returned
\* and what is left in the buffer.
P == INSTANCE Pipe WITH sent <- log \o buffer, recv <- log, failed <- panic
IsPipe == P!Spec

-------------------------------------------------------------------------------
(* Statements of comments that the code does not keep.                      *)

\* "A SingleStream allows a single reader" (comment on SingleStream): one Read at a
\* time.  One that waits when its file is closed goes on waiting, and takes the data
\* from the next reader.
ReadsAlone == Cardinality({r \in Readers : rpc[r] # "idle"}) <= 1

\* "all writes will block until the reader consumes the writes" (comment on
\* SingleStream): when Write returns its data have been read.
WritesConsumed ==
  [][\A w \in Writers : wpc[w] # "idle" /\ wpc'[w] = "idle" => buffer' = <<>>]_vars
===============================================================================
