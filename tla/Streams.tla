-------------------------------- MODULE Streams --------------------------------
(***************************************************************************)
(* The fan-out streams of fs/streams.go: a writer, readers that come and   *)
(* go, and the three ways in which Write treats a reader whose buffer is   *)
(* full.  A reader is one chanReader, made by the Open of a stream file    *)
(* and removed by its Close (fs/stream_file.go).                           *)
(*                                                                         *)
(* The slice s.readers is modelled with the array behind it, since         *)
(* RemoveReader compacts that array in place and BlockingStream.Write      *)
(* reads the slice without holding the lock.                               *)
(***************************************************************************)
EXTENDS Integers, Sequences, Functions

CONSTANTS
  Readers,    \* the chanReaders that may be made
  Kinds,      \* the kinds of streams
  BufLen,     \* capacity of a reader's channel
  MaxWrites,  \* bound on the number of calls of Write
  ChunkLen,   \* the length of the data of each Write
  ReadLen,    \* the length of the buffer of each Read
  None

ASSUME StreamsAssumption ==
  /\ Kinds \subseteq {"dropping", "blocking", "skipping"}
  /\ {BufLen, ChunkLen, ReadLen} \subseteq Nat \ {0} /\ MaxWrites \in Nat
  /\ None \notin Readers \cup Nat

VARIABLES
  kind,     \* which stream it is
  arrays,   \* the arrays allocated for s.readers
  slice,    \* s.readers: which array, and the length
  closed,   \* is the channel s.close closed?
  state,    \* of each reader: not made yet, live, or dead (its channel closed)
  open,     \* the readers in the fidReader map of the stream file
  chan,     \* the chunks in each reader's channel
  unread,   \* what Read has received and not copied yet
  room,     \* what is left of the buffer of a Read, 0 when there is no Read
  got,      \* all that was copied to the client
  write,    \* where Write is
  locked,   \* does Write hold the lock of baseStream?
  written,  \* how many Writes have begun
  since,    \* the value of written when a reader was made
  raced,    \* history: has the slice been changed while Write was loading it?
  panic

readVars == <<unread, room, got>>
vars == <<kind, arrays, slice, closed, state, open, chan, readVars, write, locked, written,
          since, raced, panic>>

Nil == [a |-> 0, n |-> 0]
NoWrite == [pc |-> "idle", a |-> None, n |-> None, todo |-> <<>>, left |-> <<>>]

Init ==
  /\ kind \in Kinds
  /\ arrays = <<>> /\ slice = Nil
  /\ closed = FALSE
  /\ state = [r \in Readers |-> "new"]
  /\ open = {}
  /\ chan = [r \in Readers |-> <<>>]
  /\ unread = [r \in Readers |-> <<>>]
  /\ room = [r \in Readers |-> 0]
  /\ got = [r \in Readers |-> <<>>]
  /\ write = NoWrite /\ locked = FALSE /\ written = 0
  /\ since = [r \in Readers |-> 0]
  /\ raced = FALSE /\ panic = FALSE

\* Chunk i, as bytes that tell where they come from.
Bytes(i) == [k \in 1..ChunkLen |-> <<i, k>>]

Array(a) == IF a = 0 THEN <<>> ELSE arrays[a]
Slice(s) == SubSeq(Array(s.a), 1, s.n)

\* The lock of baseStream is free; and what is done to the slice under it.
Lock == ~panic /\ ~locked
ChangeSlice == Lock /\ raced' = (raced \/ write.pc = "load")

-------------------------------------------------------------------------------
(* Readers come and go.                                                     *)

\* append: in place when there is room, else in an array twice as long.
Appended(s, r) ==
  LET old == Array(s.a)
      new == [i \in 1..(IF old = <<>> THEN 1 ELSE 2 * Len(old)) |->
                IF i <= Len(old) THEN old[i] ELSE IF i = s.n + 1 THEN r ELSE None]
  IN IF s.n < Len(old)
     THEN /\ arrays' = [arrays EXCEPT ![s.a][s.n + 1] = r]
          /\ slice' = [s EXCEPT !.n = @ + 1]
     ELSE /\ arrays' = Append(arrays, new)
          /\ slice' = [a |-> Len(arrays) + 1, n |-> s.n + 1]

\* Open of a stream file.
AddReadWriter(r) ==
  /\ ChangeSlice /\ state[r] = "new"
  /\ open' = open \cup {r}
  /\ since' = [since EXCEPT ![r] = written]
  /\ IF closed
     THEN state' = [state EXCEPT ![r] = "dead"] /\ UNCHANGED <<arrays, slice>>
     ELSE state' = [state EXCEPT ![r] = "live"] /\ Appended(slice, r)
  /\ UNCHANGED <<kind, closed, chan, readVars, write, locked, written, panic>>

\* What the loop of RemoveReader keeps of the slice s.
Kept(s, r) ==
  LET kept[i \in 0..Len(s)] == IF i = 0 THEN <<>>
                               ELSE IF s[i] # r THEN Append(kept[i - 1], s[i]) ELSE kept[i - 1]
  IN kept[Len(s)]

\* Close of a stream file: the array is compacted in place, what was behind the
\* new end of the slice stays.
RemoveReader(r) ==
  LET kept == Kept(Slice(slice), r) IN
  /\ ChangeSlice /\ r \in open
  /\ open' = open \ {r}
  /\ slice' = [slice EXCEPT !.n = Len(kept)]
  /\ arrays' = IF slice.a = 0 THEN arrays
               ELSE [arrays EXCEPT ![slice.a] = [i \in DOMAIN @ |->
                       IF i <= Len(kept) THEN kept[i] ELSE @[i]]]
  /\ state' = [state EXCEPT ![r] = "dead"]
  /\ UNCHANGED <<kind, closed, chan, readVars, write, locked, written, since, panic>>

\* Close of the stream.
Close ==
  /\ ChangeSlice /\ ~closed
  /\ closed' = TRUE
  /\ state' = [r \in Readers |-> IF r \in Range(Slice(slice)) THEN "dead" ELSE state[r]]
  /\ slice' = Nil
  /\ UNCHANGED <<kind, arrays, open, chan, readVars, write, locked, written, since, panic>>

-------------------------------------------------------------------------------
(* chanReader.Read, called for a Tread of the stream file.                  *)

Read(r) ==
  /\ ~panic /\ r \in open /\ room[r] = 0
  /\ room' = [room EXCEPT ![r] = ReadLen]
  /\ UNCHANGED <<kind, raced, arrays, slice, closed, state, open, chan, unread, got, write, locked,
                 written, since, panic>>

\* Mutant of ReadCopy: what does not fit into the buffer is forgotten.
ReadCopyForgets(r) ==
  LET bs == Bytes(Head(chan[r]))
      n  == IF Len(bs) < room[r] THEN Len(bs) ELSE room[r]
  IN /\ ~panic /\ room[r] > 0 /\ chan[r] # <<>>
     /\ chan' = [chan EXCEPT ![r] = Tail(@)]
     /\ got' = [got EXCEPT ![r] = @ \o SubSeq(bs, 1, n)]
     /\ room' = [room EXCEPT ![r] = @ - n]
     /\ UNCHANGED <<kind, raced, arrays, slice, closed, state, open, unread, write, locked, written, since,
                    panic>>

\* Receive a chunk when there is nothing left of the last one, and copy from it.
ReadCopy(r) ==
  LET bs == IF unread[r] = <<>> THEN Bytes(Head(chan[r])) ELSE unread[r]
      n  == IF Len(bs) < room[r] THEN Len(bs) ELSE room[r]
  IN /\ ~panic /\ room[r] > 0
     /\ unread[r] # <<>> \/ chan[r] # <<>>
     /\ chan' = [chan EXCEPT ![r] = IF unread[r] = <<>> THEN Tail(@) ELSE @]
     /\ unread' = [unread EXCEPT ![r] = SubSeq(bs, n + 1, Len(bs))]
     /\ got' = [got EXCEPT ![r] = @ \o SubSeq(bs, 1, n)]
     /\ room' = [room EXCEPT ![r] = @ - n]
     /\ UNCHANGED <<kind, raced, arrays, slice, closed, state, open, write, locked, written, since,
                    panic>>

\* Return for want of data, if there has been some or there will be none.
ReadReturn(r) ==
  /\ ~panic /\ room[r] > 0 /\ unread[r] = <<>> /\ chan[r] = <<>>
  /\ room[r] < ReadLen \/ state[r] = "dead"
  /\ room' = [room EXCEPT ![r] = 0]
  /\ UNCHANGED <<kind, raced, arrays, slice, closed, state, open, chan, unread, got, write, locked,
                 written, since, panic>>

-------------------------------------------------------------------------------
(* Write.                                                                   *)

BeginWrite ==
  /\ ~panic /\ write.pc = "idle" /\ written < MaxWrites
  /\ written' = written + 1
  /\ IF kind = "blocking"
     THEN write' = [NoWrite EXCEPT !.pc = "load"] /\ UNCHANGED locked
     ELSE /\ Lock
          /\ locked' = TRUE
          /\ write' = [NoWrite EXCEPT !.pc = "send", !.todo = Slice(slice)]
  /\ UNCHANGED <<kind, raced, arrays, slice, closed, state, open, chan, readVars, since, panic>>

\* BlockingStream loads s.readers without the lock: the words of the slice are
\* loaded one at a time.
LoadReaders ==
  /\ ~panic /\ write.pc = "load"
  /\ \/ write.a = None /\ write' = [write EXCEPT !.a = slice.a]
     \/ write.n = None /\ write' = [write EXCEPT !.n = slice.n]
  /\ UNCHANGED <<kind, raced, arrays, slice, closed, state, open, chan, readVars, locked, written,
                 since, panic>>

\* tryWrite takes the lock, for the loaded slice or for the laggers of the last
\* time.  A slice whose words do not fit together leads out of its array.
TryWrite ==
  /\ ~panic /\ ~locked
  /\ \/ /\ write.pc = "load" /\ None \notin {write.a, write.n}
        /\ panic' = (write.n > Len(Array(write.a)))
        /\ write' = [write EXCEPT !.pc = "send", !.todo = IF panic' THEN <<>> ELSE Slice(write)]
     \/ /\ write.pc = "sleep"
        /\ write' = [write EXCEPT !.pc = "send", !.todo = write.left, !.left = <<>>]
        /\ UNCHANGED panic
  /\ locked' = TRUE
  /\ UNCHANGED <<kind, raced, arrays, slice, closed, state, open, chan, readVars, written, since>>

\* Mutant of SendChunk: whether the reader is live is not asked.
SendChunkToAny ==
  LET r == Head(write.todo) IN
  /\ ~panic /\ write.pc = "send" /\ write.todo # <<>>
  /\ Len(chan[r]) < BufLen \/ state[r] = "dead"
  /\ panic' = (state[r] = "dead")
  /\ chan' = [chan EXCEPT ![r] = Append(@, written)]
  /\ write' = [write EXCEPT !.todo = Tail(@)]
  /\ UNCHANGED <<kind, raced, arrays, slice, closed, state, open, readVars, locked, written, since>>

\* Send to the next reader, which stays in the slice.
SendChunk ==
  LET r == Head(write.todo) IN
  /\ ~panic /\ write.pc = "send" /\ write.todo # <<>>
  /\ kind = "blocking" => state[r] = "live"
  /\ Len(chan[r]) < BufLen \/ state[r] = "dead"
  /\ panic' = (state[r] = "dead")
  /\ chan' = [chan EXCEPT ![r] = Append(@, written)]
  /\ write' = [write EXCEPT !.todo = Tail(@),
                            !.left = IF kind = "blocking" THEN @ ELSE Append(@, r)]
  /\ UNCHANGED <<kind, raced, arrays, slice, closed, state, open, readVars, locked, written, since>>

\* Mutant of PassOver: a reader that is full is not tried again.
PassOverOnce ==
  LET r == Head(write.todo) IN
  /\ ~panic /\ write.pc = "send" /\ write.todo # <<>>
  /\ state[r] = "dead" \/ Len(chan[r]) = BufLen
  /\ write' = [write EXCEPT !.todo = Tail(@)]
  /\ UNCHANGED <<kind, raced, arrays, slice, closed, state, open, chan, readVars, locked, written, since,
                 panic>>

\* Mutant of PassOver: a reader that was closed is tried again.
PassOverDead ==
  LET r == Head(write.todo) IN
  /\ ~panic /\ write.pc = "send" /\ write.todo # <<>>
  /\ state[r] = "dead" \/ Len(chan[r]) = BufLen
  /\ write' = [write EXCEPT !.todo = Tail(@), !.left = Append(@, r)]
  /\ UNCHANGED <<kind, raced, arrays, slice, closed, state, open, chan, readVars, locked, written, since,
                 panic>>

\* No send to the next reader.  BlockingStream forgets a dead reader and keeps a
\* full one for later.  The other two wait for 50ms, after which the timer may win
\* even if there is room by now: DroppingStream closes the reader.
PassOver ==
  LET r == Head(write.todo) IN
  /\ ~panic /\ write.pc = "send" /\ write.todo # <<>>
  /\ kind = "blocking" => state[r] = "dead" \/ Len(chan[r]) = BufLen
  /\ state' = IF kind = "dropping" THEN [state EXCEPT ![r] = "dead"] ELSE state
  /\ write' = [write EXCEPT !.todo = Tail(@),
                            !.left = IF state'[r] = "dead" THEN @ ELSE Append(@, r)]
  /\ UNCHANGED <<kind, raced, arrays, slice, closed, open, chan, readVars, locked, written, since, panic>>

\* The lock is released; DroppingStream has compacted the slice, BlockingStream
\* sleeps if there are laggers.
EndWrite ==
  /\ ~panic /\ write.pc = "send" /\ write.todo = <<>>
  /\ locked' = FALSE
  /\ write' = IF kind = "blocking" /\ write.left # <<>>
              THEN [write EXCEPT !.pc = "sleep"] ELSE NoWrite
  /\ IF kind = "dropping" /\ slice.a # 0
     THEN /\ slice' = [slice EXCEPT !.n = Len(write.left)]
          /\ arrays' = [arrays EXCEPT ![slice.a] = [i \in DOMAIN @ |->
                          IF i <= Len(write.left) THEN write.left[i] ELSE @[i]]]
     ELSE UNCHANGED <<arrays, slice>>
  /\ UNCHANGED <<kind, raced, closed, state, open, chan, readVars, written, since, panic>>

-------------------------------------------------------------------------------
Writer == LoadReaders \/ TryWrite \/ SendChunk \/ PassOver \/ EndWrite
Reader(r) == ReadCopy(r) \/ ReadReturn(r)
Client(r) == AddReadWriter(r) \/ Read(r) \/ RemoveReader(r)
Next == BeginWrite \/ Writer \/ Close \/ \E r \in Readers : Reader(r) \/ Client(r)

Spec == Init /\ [][Next]_vars

\* The goroutines run, and a client whose Read has returned reads again or closes
\* its file: none stays open and unresponsive for ever.
Fairness ==
  /\ WF_vars(Writer)
  /\ \A r \in Readers : WF_vars(Reader(r)) /\ WF_vars(Read(r) \/ RemoveReader(r))
FairSpec == Spec /\ Fairness

-------------------------------------------------------------------------------
(* Properties                                                               *)

\* The types of the stream, of its readers and of Write's variables.
TypeOK ==
  /\ \A i \in DOMAIN arrays : \A j \in DOMAIN arrays[i] : arrays[i][j] \in Readers \cup {None}
  /\ slice.a \in 0..Len(arrays) /\ slice.n \in 0..Len(Array(slice.a))
  /\ state \in [Readers -> {"new", "live", "dead"}]
  /\ open \subseteq Readers
  /\ \A r \in Readers : Len(chan[r]) <= BufLen /\ Range(chan[r]) \subseteq 1..written
  /\ room \in [Readers -> 0..ReadLen]
  /\ write.pc \in {"idle", "load", "send", "sleep"}
  /\ Range(write.todo) \cup Range(write.left) \subseteq Readers
  /\ {closed, locked, raced, panic} \subseteq BOOLEAN /\ kind \in Kinds
  /\ written \in 0..MaxWrites /\ since \in [Readers -> 0..MaxWrites]

\* The bytes of a sequence of chunks.
Flat(s) ==
  LET flat[i \in 0..Len(s)] == IF i = 0 THEN <<>> ELSE flat[i - 1] \o Bytes(s[i])
  IN flat[Len(s)]

\* All that a reader was sent, what it has not read yet included.
Stream(r) == got[r] \o unread[r] \o Flat(chan[r])

\* What a client reads is what was written, chunk by chunk: no byte twice, none
\* missing from a chunk, chunks in the order of the Writes.  Only a SkippingStream
\* leaves chunks out; a DroppingStream closes the readers "that cannot keep up",
\* a BlockingStream waits for them.  When readers come or go while Write loads the
\* list without the lock, a chunk can be missing or be there twice, no more.
ChunksInOrder ==
  \A r \in Readers : \A i \in 1..(Len(Stream(r)) - 1) :
    LET x == Stream(r)[i]
        y == Stream(r)[i + 1]
    IN IF x[2] < ChunkLen THEN y = <<x[1], x[2] + 1>>
       ELSE /\ y[2] = 1
            /\ CASE raced                       -> y[1] >= x[1]
                 [] ~raced /\ kind = "skipping" -> y[1] > x[1]
                 [] OTHER                       -> y[1] = x[1] + 1

\* "A BlockingStream will ensure all data is written to active StreamReaders":
\* when Write returns, every reader that is still live has been sent the chunk, and
\* a reader gets everything that is written from the moment it is added.  The same
\* holds for the readers a DroppingStream has not closed.
AllDelivered ==
  kind # "skipping" /\ ~raced /\ write.pc = "idle" => \A r \in Readers :
    state[r] = "live" /\ since[r] < written =>
      /\ Stream(r) # <<>>
      /\ Stream(r)[1] = <<since[r] + 1, 1>>
      /\ Stream(r)[Len(Stream(r))] = <<written, ChunkLen>>

\* No send on a closed channel, and no index beyond an array.
NoPanic == ~raced => ~panic

\* "If an unresponsive reader is removed, Write will be able to continue" (comment
\* on BlockingStream): Write returns when every reader reads or is removed.
WriteReturns == write.pc # "idle" ~> write.pc = "idle" \/ panic
===============================================================================
