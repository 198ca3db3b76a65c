---------------------------------- MODULE BiDi ----------------------------------
(***************************************************************************)
(* The other direction of a bidirectional stream (fs/streams.go): clients  *)
(* write chunks with chanReader.Write into the channel s.incoming, the     *)
(* program behind the stream takes them out with baseStream.Read, and      *)
(* either side closes the stream.  With a PipeFile (fs/stream_file.go) the *)
(* program is the handler: the stream is closed when it returns, or when   *)
(* the client closes the file.                                             *)
(***************************************************************************)
EXTENDS Integers, Sequences, SequencesExt

CONSTANTS
  Clients,    \* the clients that write, one Write at a time each
  MaxWrites,  \* bound on the Writes of a client
  MaxLen,     \* bound on the length of a chunk
  Cap,        \* capacity of s.incoming (10)
  ReadLen     \* the length of the buffer of Read

ASSUME BiDiAssumption ==
  MaxWrites \in Nat /\ MaxLen \in Nat /\ {Cap, ReadLen} \subseteq Nat \ {0}

\* The n-th chunk of client c.
Chunks == [c : Clients, n : 1..MaxWrites, len : 0..MaxLen]

VARIABLES
  incoming,  \* the chunks in the channel
  closed,    \* is s.close closed?
  write,     \* the chunk each client is writing, in a sequence
  count,     \* how many Writes each client has begun
  reading,   \* where Read is
  read,      \* s.read: what is left of the current chunk, as bytes
  log,       \* all that Read has returned
  eof        \* has Read returned io.EOF?

vars == <<incoming, closed, write, count, reading, read, log, eof>>

Init ==
  /\ incoming = <<>> /\ closed = FALSE
  /\ write = [c \in Clients |-> <<>>]
  /\ count = [c \in Clients |-> 0]
  /\ reading = "idle" /\ read = <<>> /\ log = <<>> /\ eof = FALSE

Bytes(x) == [k \in 1..x.len |-> <<x.c, x.n, k, x.len>>]

-------------------------------------------------------------------------------
(* chanReader.Write                                                         *)

\* The first select: on a closed stream Write returns io.EOF.
BeginWrite(c, len) ==
  /\ write[c] = <<>> /\ count[c] < MaxWrites
  /\ count' = [count EXCEPT ![c] = @ + 1]
  /\ write' = IF closed THEN write
              ELSE [write EXCEPT ![c] = <<[c |-> c, n |-> count[c] + 1, len |-> len]>>]
  /\ UNCHANGED <<incoming, closed, reading, read, log, eof>>

\* The second one: whatever is possible.
SendChunk(c) ==
  /\ write[c] # <<>> /\ Len(incoming) < Cap
  /\ incoming' = incoming \o write[c]
  /\ write' = [write EXCEPT ![c] = <<>>]
  /\ UNCHANGED <<closed, count, reading, read, log, eof>>

\* Mutant of WriteFails: only the channel is waited for.
WriteFailsNever(c) == write[c] # <<>> /\ FALSE /\ UNCHANGED vars

WriteFails(c) ==
  /\ write[c] # <<>> /\ closed
  /\ write' = [write EXCEPT ![c] = <<>>]
  /\ UNCHANGED <<incoming, closed, count, reading, read, log, eof>>

-------------------------------------------------------------------------------
(* baseStream.Read                                                          *)

BeginRead ==
  /\ reading = "idle" /\ ~eof
  /\ reading' = IF read = <<>> THEN "first" ELSE "copy"
  /\ UNCHANGED <<incoming, closed, write, count, read, log, eof>>

\* Receive a chunk in either select; an empty one is passed over.
Receive ==
  /\ reading \in {"first", "second"} /\ incoming # <<>>
  /\ incoming' = Tail(incoming)
  /\ read' = Bytes(Head(incoming))
  /\ reading' = IF read' = <<>> THEN "first" ELSE "copy"
  /\ UNCHANGED <<closed, write, count, log, eof>>

\* The default of the first select.
NothingYet ==
  /\ reading = "first" /\ incoming = <<>>
  /\ reading' = "second"
  /\ UNCHANGED <<incoming, closed, write, count, read, log, eof>>

\* The second select, on a closed stream: io.EOF.
ReadEOF ==
  /\ reading = "second" /\ closed
  /\ reading' = "idle" /\ eof' = TRUE
  /\ UNCHANGED <<incoming, closed, write, count, read, log>>

\* Mutant of Copy: the rest of the chunk is forgotten.
CopyForgets ==
  LET n == IF Len(read) < ReadLen THEN Len(read) ELSE ReadLen IN
  /\ reading = "copy"
  /\ log' = log \o SubSeq(read, 1, n)
  /\ read' = <<>>
  /\ reading' = "idle"
  /\ UNCHANGED <<incoming, closed, write, count, eof>>

Copy ==
  LET n == IF Len(read) < ReadLen THEN Len(read) ELSE ReadLen IN
  /\ reading = "copy"
  /\ log' = log \o SubSeq(read, 1, n)
  /\ read' = SubSeq(read, n + 1, Len(read))
  /\ reading' = "idle"
  /\ UNCHANGED <<incoming, closed, write, count, eof>>

Close ==
  /\ ~closed /\ closed' = TRUE
  /\ UNCHANGED <<incoming, write, count, reading, read, log, eof>>

-------------------------------------------------------------------------------
Writer(c) == SendChunk(c) \/ WriteFails(c)
Reader == Receive \/ NothingYet \/ ReadEOF \/ Copy
Next ==
  \/ \E c \in Clients : (\E n \in 0..MaxLen : BeginWrite(c, n)) \/ Writer(c)
  \/ BeginRead \/ Reader \/ Close

Spec == Init /\ [][Next]_vars

\* A Read or a Write in progress goes on; nobody has to call them again.
Fairness == WF_vars(Reader) /\ \A c \in Clients : WF_vars(Writer(c))
FairSpec == Spec /\ Fairness

-------------------------------------------------------------------------------
(* Properties                                                               *)

\* The types of the channel and of the processes' variables.
TypeOK ==
  /\ incoming \in Seq(Chunks) /\ Len(incoming) <= Cap
  /\ \A c \in Clients : write[c] \in Seq(Chunks) /\ Len(write[c]) <= 1
  /\ count \in [Clients -> 0..MaxWrites]
  /\ reading \in {"idle", "first", "second", "copy"}
  /\ reading = "copy" => read # <<>>
  /\ {closed, eof} \subseteq BOOLEAN

\* Byte x of the log and what comes after it.
Follows(x, y) ==
  IF x[3] < x[4] THEN y = [x EXCEPT ![3] = @ + 1] ELSE y[3] = 1 /\ (y[1] = x[1] => y[2] > x[2])

\* "Writes done by StreamReadWriters are delivered as complete chunks" (comment on
\* BiDiStream): Read returns whole chunks, never two of them mixed, and those of a
\* client in the order of its Writes.
CompleteChunks ==
  LET all == log \o read \o FlattenSeq([i \in DOMAIN incoming |-> Bytes(incoming[i])])
  IN \A i \in 1..(Len(all) - 1) : Follows(all[i], all[i + 1])

\* A client is not kept waiting by a stream that was closed.
CloseReleasesWriters == \A c \in Clients : closed /\ write[c] # <<>> ~> write[c] = <<>>

-------------------------------------------------------------------------------
(* Statements of comments that the code does not keep.                      *)

\* "Hacky way to ensure s.incoming gets preferentially selected" (comment in Read):
\* io.EOF is returned only when there is nothing to read.
DrainedAtEOF == [][eof' # eof => incoming = <<>>]_vars
===============================================================================
