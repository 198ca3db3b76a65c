-------------------------- MODULE SingleStreamProofs --------------------------
(***************************************************************************)
(* What SingleStream guarantees for any number of writers and readers and  *)
(* any lengths of the chunks and of the readers' buffers.                  *)
(***************************************************************************)
EXTENDS SingleStream, SequenceTheorems, FiniteSetTheorems, TLAPS

Byte == Nat \X Nat

StreamType ==
  /\ writesem \in 0..1 /\ readsem \in 0..1 /\ closed \in BOOLEAN /\ panic \in BOOLEAN
  /\ buffer \in Seq(Byte) /\ log \in Seq(Byte) /\ count \in Nat
  /\ wpc \in [Writers -> {"idle", "wait", "put"}]
  /\ rpc \in [Readers -> {"idle", "wait", "copy"}]

Putting(w) == wpc[w] = "put"
Copying(r) == rpc[r] = "copy"

\* OneToken without counting: whoever has the token is alone, and somebody has it.
TokenInv ==
  ~closed =>
    /\ writesem = 0 \/ readsem = 0
    /\ \A w \in Writers : Putting(w) =>
         writesem = 0 /\ readsem = 0 /\ \A v \in Writers : Putting(v) => v = w
    /\ \A r \in Readers : Copying(r) =>
         writesem = 0 /\ readsem = 0 /\ \A q \in Readers : Copying(q) => q = r
    /\ \A w \in Writers, r \in Readers : ~(Putting(w) /\ Copying(r))
    /\ writesem = 1 \/ readsem = 1 \/ (\E w \in Writers : Putting(w)) \/ \E r \in Readers : Copying(r)
    /\ buffer # <<>> <=> (readsem = 1 \/ \E r \in Readers : Copying(r))

StreamInv == StreamType /\ TokenInv /\ DataInOrder

-------------------------------------------------------------------------------
(* The buffer.                                                              *)

\* The data of a Write.
LEMMA BytesOf ==
  ASSUME NEW n \in Nat
  PROVE  /\ Bytes(n) \in Seq(Byte) /\ Len(Bytes(n)) = ChunkLen /\ Bytes(n) # <<>>
         /\ \A k \in 1..ChunkLen : Bytes(n)[k] = <<n, k>>
<1>1. ChunkLen \in Nat /\ ChunkLen > 0
  BY SingleStreamAssumption
<1>2. Bytes(n) \in [1..ChunkLen -> Byte]
  BY <1>1 DEF Bytes, Byte
<1>3. Bytes(n) \in Seq(Byte) /\ Len(Bytes(n)) = ChunkLen
  BY <1>1, <1>2
<1> QED
  BY <1>1, <1>3, EmptySeq DEF Bytes

\* What a Read copies and what it leaves are the buffer.
LEMMA Copied ==
  ASSUME NEW s \in Seq(Byte), NEW b \in Seq(Byte), NEW n \in 0..Len(b)
  PROVE  /\ s \o SubSeq(b, 1, n) \in Seq(Byte) /\ SubSeq(b, n + 1, Len(b)) \in Seq(Byte)
         /\ (s \o SubSeq(b, 1, n)) \o SubSeq(b, n + 1, Len(b)) = s \o b
<1>0. Len(b) \in Nat /\ n \in Nat /\ n <= Len(b) /\ \A i \in 1..Len(b) : b[i] \in Byte
  BY LenProperties
<1>1. SubSeq(b, 1, n) \in Seq(Byte)
  <2>1. \A i \in 1..n : b[i] \in Byte
    BY <1>0
  <2> QED
    BY <1>0, <2>1, SubSeqProperties
<1>2. SubSeq(b, n + 1, Len(b)) \in Seq(Byte)
  <2>1. \A i \in (n + 1)..Len(b) : b[i] \in Byte
    BY <1>0
  <2>2. n + 1 \in Int /\ Len(b) \in Int
    BY <1>0
  <2> QED
    BY <2>1, <2>2, SubSeqProperties, Zenon
<1>3. SubSeq(b, 1, n) \o SubSeq(b, n + 1, Len(b)) = b
  <2>1. 1 \in 1..(Len(b) + 1) /\ n \in (1 - 1)..Len(b) /\ Len(b) \in n..Len(b)
    BY <1>0
  <2>2. SubSeq(b, 1, n) \o SubSeq(b, n + 1, Len(b)) = SubSeq(b, 1, Len(b))
    BY <2>1, ConcatAdjacentSubSeq, Zenon
  <2> QED
    BY <2>2, SubSeqFull, Zenon
<1> DEFINE t == SubSeq(b, 1, n)
           u == SubSeq(b, n + 1, Len(b))
<1> HIDE DEF t, u
<1>4. (s \o t) \o u = s \o (t \o u)
  <2>1. t \in Seq(Byte) /\ u \in Seq(Byte)
    BY <1>1, <1>2, Zenon DEF t, u
  <2> QED
    BY <2>1, ConcatAssociative, SMTT(30)
<1>5. s \o SubSeq(b, 1, n) \in Seq(Byte)
  BY <1>1, ConcatProperties, Zenon
<1>6. t \o u = b
  BY <1>3, Zenon DEF t, u
<1>7. (s \o t) \o u = s \o b
  BY <1>4, <1>6, Zenon
<1> QED
  BY <1>2, <1>5, <1>7, Zenon DEF t, u

LEMMA InitInv == Init => StreamInv
<1> SUFFICES ASSUME Init PROVE StreamInv
  BY Zenon
<1>1. StreamType
  <2>1. <<>> \in Seq(Byte)
    BY EmptySeq, Zenon
  <2>2. closed \in BOOLEAN /\ panic \in BOOLEAN
    BY Zenon DEF Init
  <2> QED
    BY <2>1, <2>2 DEF Init, StreamType
<1>2. TokenInv
  BY DEF Init, TokenInv, Putting, Copying
<1>3. DataInOrder
  <2>1. log \o buffer = <<>> /\ Len(log \o buffer) = 0 /\ count = 0
    BY EmptySeq, ConcatEmptySeq, Zenon DEF Init
  <2> QED
    BY <2>1, SingleStreamAssumption DEF DataInOrder
<1> QED
  BY <1>1, <1>2, <1>3, Zenon DEF StreamInv

\* CopyBuffer passes bytes from the buffer to the log.
LEMMA CopyStep ==
  ASSUME StreamType, NEW r \in Readers, CopyBuffer(r)
  PROVE  /\ log' \in Seq(Byte) /\ buffer' \in Seq(Byte)
         /\ log' \o buffer' = log \o buffer
<1> DEFINE n == IF Len(buffer) < ReadLen THEN Len(buffer) ELSE ReadLen
<1>1. n \in 0..Len(buffer)
  BY SingleStreamAssumption, LenProperties DEF StreamType
<1>2. log' = log \o SubSeq(buffer, 1, n) /\ buffer' = SubSeq(buffer, n + 1, Len(buffer))
  BY Zenon DEF CopyBuffer
<1> HIDE DEF n
<1> QED
  BY <1>1, <1>2, Copied, Zenon DEF StreamType

LEMMA TypeInductive == StreamType /\ [Next]_vars => StreamType'
<1> SUFFICES ASSUME StreamType, [Next]_vars PROVE StreamType'
  BY Zenon
<1>1. CASE UNCHANGED vars
  BY <1>1, Zenon DEF StreamType, vars
<1>2. ASSUME NEW w \in Writers, BeginWrite(w) \/ TakeWritesem(w) PROVE StreamType'
  BY <1>2 DEF StreamType, BeginWrite, TakeWritesem
<1>3. ASSUME NEW w \in Writers, PutBuffer(w) PROVE StreamType'
  <2>1. buffer' \in Seq(Byte) /\ count' \in Nat
    BY <1>3, BytesOf DEF PutBuffer, StreamType
  <2> QED
    BY <1>3, <2>1 DEF StreamType, PutBuffer
<1>4. ASSUME NEW r \in Readers, AddReader(r) \/ RemoveReader(r) \/ BeginRead(r) \/ TakeReadsem(r)
      PROVE  StreamType'
  BY <1>4 DEF StreamType, AddReader, RemoveReader, BeginRead, TakeReadsem
<1>5. ASSUME NEW r \in Readers, CopyBuffer(r) PROVE StreamType'
  <2>1. log' \in Seq(Byte) /\ buffer' \in Seq(Byte)
    BY <1>5, CopyStep, Zenon
  <2>2. /\ writesem' \in 0..1 /\ readsem' \in 0..1 /\ closed' = closed /\ count' = count
        /\ panic' \in BOOLEAN
        /\ wpc' = wpc /\ rpc' = [rpc EXCEPT ![r] = "idle"]
    BY <1>5, SMTT(30) DEF StreamType, CopyBuffer
  <2> QED
    BY <2>1, <2>2, Zenon DEF StreamType
<1>6. CASE Close
  BY <1>6, Zenon DEF StreamType, Close
<1> QED
  BY <1>1, <1>2, <1>3, <1>4, <1>5, <1>6, Zenon DEF Next, Writer, Reader

-------------------------------------------------------------------------------
(* The token.                                                               *)

LEMMA TokenInductive == StreamType /\ TokenInv /\ [Next]_vars => TokenInv'
<1> SUFFICES ASSUME StreamType, TokenInv, [Next]_vars, ~closed' PROVE TokenInv'
  BY Zenon DEF TokenInv
<1> USE DEF StreamType, TokenInv, Putting, Copying
<1>1. CASE UNCHANGED vars
  BY <1>1, Zenon DEF vars
<1>2. ASSUME NEW w \in Writers, BeginWrite(w) PROVE TokenInv'
  BY <1>2 DEF BeginWrite
<1>3. ASSUME NEW w \in Writers, TakeWritesem(w) PROVE TokenInv'
  BY <1>3 DEF TakeWritesem
<1>4. ASSUME NEW w \in Writers, PutBuffer(w) PROVE TokenInv'
  <2>1. buffer' # <<>>
    BY <1>4, BytesOf DEF PutBuffer
  <2>2. /\ wpc[w] = "put" /\ wpc' = [wpc EXCEPT ![w] = "idle"]
        /\ readsem' = 1 /\ UNCHANGED <<writesem, closed, rpc>>
    BY <1>4, Zenon DEF PutBuffer
  <2> QED
    BY <2>1, <2>2, SMTT(30)
<1>5. ASSUME NEW r \in Readers, AddReader(r) \/ RemoveReader(r) PROVE TokenInv'
  BY <1>5, Zenon DEF AddReader, RemoveReader
<1>6. ASSUME NEW r \in Readers, BeginRead(r) PROVE TokenInv'
  BY <1>6, SMTT(30) DEF BeginRead
<1>7. ASSUME NEW r \in Readers, TakeReadsem(r) PROVE TokenInv'
  BY <1>7 DEF TakeReadsem
<1>8. ASSUME NEW r \in Readers, CopyBuffer(r) PROVE TokenInv'
  <2>1. /\ rpc[r] = "copy" /\ rpc' = [rpc EXCEPT ![r] = "idle"]
        /\ UNCHANGED <<closed, wpc>>
        /\ \/ buffer' = <<>> /\ writesem' = 1 /\ readsem' = readsem
           \/ buffer' # <<>> /\ readsem' = 1 /\ writesem' = writesem
    BY <1>8, Zenon DEF CopyBuffer
  <2> QED
    BY <2>1
<1>9. CASE Close
  BY <1>9, Zenon DEF Close
<1> QED
  BY <1>1, <1>2, <1>3, <1>4, <1>5, <1>6, <1>7, <1>8, <1>9, Zenon DEF Next, Writer, Reader

-------------------------------------------------------------------------------
(* The data.                                                                *)

\* Positions in the stream: the last byte of a chunk is before the next chunk.
LEMMA ChunkBefore ==
  ASSUME NEW c \in Nat, NEW n \in 1..c, NEW k \in 1..ChunkLen
  PROVE  /\ (n - 1) * ChunkLen + k \in 1..(c * ChunkLen)
         /\ (c + 1) * ChunkLen = c * ChunkLen + ChunkLen
<1>1. ChunkLen \in Nat
  BY SingleStreamAssumption, Zenon
<1>2. (n - 1) * ChunkLen \in Nat /\ c * ChunkLen \in Nat
  BY <1>1
<1>3. n * ChunkLen = (n - 1) * ChunkLen + ChunkLen
  BY <1>1
<1>4. PICK d \in Nat : c = n + d
  <2>1. c - n \in Nat /\ c = n + (c - n)
    OBVIOUS
  <2> QED
    BY <2>1, Zenon
<1>5. c * ChunkLen = n * ChunkLen + d * ChunkLen /\ d * ChunkLen \in Nat
  BY <1>1, <1>4
<1>6. (c + 1) * ChunkLen = c * ChunkLen + ChunkLen
  BY <1>1
<1> QED
  BY <1>1, <1>2, <1>3, <1>5, <1>6, SMTT(30)

\* A Write that has the token finds the buffer empty, and appends a chunk.
LEMMA DataInductive == StreamInv /\ [Next]_vars => DataInOrder'
<1> SUFFICES ASSUME StreamInv, [Next]_vars, ~panic' PROVE DataInOrder'
  BY Zenon DEF DataInOrder
<1>0. ~panic \/ UNCHANGED vars
  BY Zenon DEF Next, vars, Writer, Reader, BeginWrite, TakeWritesem, PutBuffer, AddReader,
         RemoveReader, BeginRead, TakeReadsem, CopyBuffer, Close
<1>1. CASE log' \o buffer' = log \o buffer /\ count' = count
  BY <1>0, <1>1, Zenon DEF StreamInv, DataInOrder, vars
<1>2. ASSUME NEW w \in Writers, PutBuffer(w) PROVE DataInOrder'
  <2> DEFINE all == log \o buffer
             put == Bytes(count + 1)
  <2>1. ~panic /\ ~closed /\ buffer = <<>>
    BY <1>2 DEF PutBuffer, StreamInv, TokenInv, StreamType, Putting, Copying
  <2>2. all = log /\ log \in Seq(Byte) /\ count \in Nat
    BY <2>1, ConcatEmptySeq, Zenon DEF StreamInv, StreamType
  <2>3. /\ put \in Seq(Byte) /\ Len(put) = ChunkLen
        /\ \A k \in 1..ChunkLen : put[k] = <<count + 1, k>>
    BY <2>2, BytesOf
  <2>4. log' = log /\ buffer' = put /\ count' = count + 1
    BY <1>2, Zenon DEF PutBuffer
  <2>5. /\ Len(log) = count * ChunkLen
        /\ \A n \in 1..count, k \in 1..ChunkLen : log[(n - 1) * ChunkLen + k] = <<n, k>>
    BY <2>1, <2>2, Zenon DEF StreamInv, DataInOrder
  <2> HIDE DEF put, all
  <2>6. /\ Len(log \o put) = Len(log) + Len(put)
        /\ \A i \in 1..(Len(log) + Len(put)) :
             (log \o put)[i] = IF i <= Len(log) THEN log[i] ELSE put[i - Len(log)]
    BY <2>2, <2>3, ConcatProperties, ZenonT(30)
  <2>7. ChunkLen \in Nat /\ count * ChunkLen \in Nat /\ (count + 1) * ChunkLen = count * ChunkLen + ChunkLen
    BY <2>2, SingleStreamAssumption, SMTT(30)
  <2>8. Len(log \o put) = (count + 1) * ChunkLen
    BY <2>3, <2>5, <2>6, <2>7, Zenon
  <2>9. ASSUME NEW n \in 1..(count + 1), NEW k \in 1..ChunkLen
        PROVE  (log \o put)[(n - 1) * ChunkLen + k] = <<n, k>>
    <3>1. CASE n = count + 1
      <4>1. (n - 1) * ChunkLen + k = Len(log) + k
        BY <2>2, <2>5, <3>1
      <4>2. Len(log) + k \in 1..(Len(log) + Len(put)) /\ ~(Len(log) + k <= Len(log))
            /\ (Len(log) + k) - Len(log) = k
        BY <2>3, <2>5, <2>7
      <4>3. (log \o put)[Len(log) + k] = put[k]
        BY <2>6, <4>2, Zenon
      <4> QED
        BY <2>3, <3>1, <4>1, <4>3, ZenonT(30)
    <3>2. CASE n \in 1..count
      <4> DEFINE i == (n - 1) * ChunkLen + k
      <4>1. i \in 1..(count * ChunkLen)
        BY <2>2, <3>2, ChunkBefore, Zenon
      <4>2. log[i] = <<n, k>>
        BY <2>5, <3>2, Zenon
      <4> HIDE DEF i
      <4>3. i <= Len(log) /\ i \in 1..(Len(log) + Len(put))
        BY <2>3, <2>5, <2>7, <4>1, SMTT(30)
      <4>4. (log \o put)[i] = log[i]
        BY <2>6, <4>3, Zenon
      <4> QED
        BY <4>2, <4>4, Zenon DEF i
    <3>3. n = count + 1 \/ n \in 1..count
      BY <2>2, SMTT(30)
    <3> QED
      BY <3>1, <3>2, <3>3, ZenonT(30)
  <2> QED
    BY <2>4, <2>8, <2>9, ZenonT(30) DEF DataInOrder
<1>3. ASSUME NEW r \in Readers, CopyBuffer(r) PROVE log' \o buffer' = log \o buffer /\ count' = count
  BY <1>3, CopyStep, ZenonT(30) DEF StreamInv, CopyBuffer
<1>4. \/ UNCHANGED <<log, buffer, count>>
      \/ \E w \in Writers : PutBuffer(w)
      \/ \E r \in Readers : CopyBuffer(r)
  BY Zenon DEF Next, vars, Writer, Reader, BeginWrite, TakeWritesem, AddReader, RemoveReader,
         BeginRead, TakeReadsem, Close
<1> QED
  BY <1>1, <1>2, <1>3, <1>4, Zenon

-------------------------------------------------------------------------------
(* The theorems.                                                            *)

LEMMA StreamInvariant == Spec => []StreamInv
<1>1. Init => StreamInv
  BY InitInv, Zenon
<1>2. StreamInv /\ [Next]_vars => StreamInv'
  BY TypeInductive, TokenInductive, DataInductive, Zenon DEF StreamInv
<1> QED
  BY <1>1, <1>2, PTL DEF Spec

\* The two channels of capacity one hand the buffer around: until Close exactly one
\* process or channel has it, for any number of Writes and Reads.
THEOREM BufferOwned == Spec => []OneToken
<1>1. ASSUME StreamInv, ~closed
      PROVE  /\ writesem + readsem + Cardinality({w \in Writers : wpc[w] = "put"})
                  + Cardinality({r \in Readers : rpc[r] = "copy"}) = 1
             /\ buffer # <<>> <=> (readsem = 1 \/ \E r \in Readers : rpc[r] = "copy")
  <2> DEFINE W == {w \in Writers : wpc[w] = "put"}
             R == {r \in Readers : rpc[r] = "copy"}
  <2>1. \/ W = {} /\ R = {} /\ writesem + readsem = 1
        \/ (\E w : W = {w}) /\ R = {} /\ writesem + readsem = 0
        \/ W = {} /\ (\E r : R = {r}) /\ writesem + readsem = 0
    <3> USE <1>1 DEF StreamInv, StreamType, TokenInv, Putting, Copying
    <3>1. CASE \E w \in Writers : Putting(w)
      <4>1. PICK w \in Writers : Putting(w)
        BY <3>1, Zenon
      <4>2. W = {w} /\ R = {} /\ writesem = 0 /\ readsem = 0
        BY <4>1
      <4>3. writesem + readsem = 0
        BY <4>2
      <4> HIDE DEF W, R
      <4> QED
        BY <4>2, <4>3, Zenon
    <3>2. CASE \E r \in Readers : Copying(r)
      <4>1. PICK r \in Readers : Copying(r)
        BY <3>2, Zenon
      <4>2. W = {} /\ R = {r} /\ writesem = 0 /\ readsem = 0
        BY <4>1
      <4>3. writesem + readsem = 0
        BY <4>2
      <4> HIDE DEF W, R
      <4> QED
        BY <4>2, <4>3, ZenonT(30)
    <3>3. CASE ~(\E w \in Writers : Putting(w)) /\ ~(\E r \in Readers : Copying(r))
      <4>1. W = {} /\ R = {}
        BY <3>3, Zenon
      <4>2. writesem + readsem = 1
        BY <3>3
      <4> QED
        BY <4>1, <4>2, Zenon
    <3> QED
      BY <3>1, <3>2, <3>3, Zenon
  <2>2. \/ Cardinality(W) = 0 /\ Cardinality(R) = 0 /\ writesem + readsem = 1
        \/ Cardinality(W) = 1 /\ Cardinality(R) = 0 /\ writesem + readsem = 0
        \/ Cardinality(W) = 0 /\ Cardinality(R) = 1 /\ writesem + readsem = 0
    <3> HIDE DEF W, R
    <3> QED
      BY <2>1, FS_EmptySet, FS_Singleton, Zenon
  <2>3. writesem + readsem + Cardinality(W) + Cardinality(R) = 1
    <3> HIDE DEF W, R
    <3>1. writesem \in 0..1 /\ readsem \in 0..1
      BY <1>1, Zenon DEF StreamInv, StreamType
    <3> QED
      BY <2>2, <3>1
  <2> QED
    BY <1>1, <2>3, Zenon DEF StreamInv, TokenInv, Copying
<1>2. StreamInv => OneToken
  BY <1>1, Zenon DEF OneToken
<1> QED
  BY <1>2, StreamInvariant, PTL

\* The bytes that Reads have returned and the rest in the buffer are what was
\* written, in order and without a gap, whatever the lengths of data and buffers.
THEOREM StreamInOrder == Spec => []DataInOrder
<1>1. StreamInv => DataInOrder
  BY Zenon DEF StreamInv
<1> QED
  BY <1>1, StreamInvariant, PTL

-------------------------------------------------------------------------------
(* The refinement.                                                          *)

\* The beginning of a sequence that was put together.
LEMMA Beginning ==
  ASSUME NEW s \in Seq(Byte), NEW b \in Seq(Byte), NEW n \in 0..Len(b)
  PROVE  SubSeq(s \o b, 1, Len(s) + n) = s \o SubSeq(b, 1, n)
<1> DEFINE all == s \o b
           l   == SubSeq(all, 1, Len(s) + n)
           t   == SubSeq(b, 1, n)
<1>0. Len(s) \in Nat /\ Len(b) \in Nat /\ n \in Nat /\ n <= Len(b)
  BY LenProperties
<1>1. /\ Len(all) = Len(s) + Len(b) /\ all \in Seq(Byte)
      /\ \A i \in 1..(Len(s) + Len(b)) : all[i] = IF i <= Len(s) THEN s[i] ELSE b[i - Len(s)]
  BY ConcatProperties, Zenon
<1>2. t \in Seq(Byte) /\ Len(t) = n /\ \A i \in 1..n : t[i] = b[i]
  <2>1. \A i \in 1..n : b[i] \in Byte
    BY <1>0, LenProperties
  <2>2. /\ t \in Seq(Byte) /\ Len(t) = IF 1 <= n THEN n - 1 + 1 ELSE 0
        /\ \A i \in 1..(n - 1 + 1) : t[i] = b[1 + i - 1]
    BY <1>0, <2>1, SubSeqProperties
  <2> QED
    BY <1>0, <2>2
<1>3. /\ s \o t \in Seq(Byte) /\ Len(s \o t) = Len(s) + n
      /\ \A i \in 1..(Len(s) + n) : (s \o t)[i] = IF i <= Len(s) THEN s[i] ELSE t[i - Len(s)]
  <2> HIDE DEF t
  <2> QED
    BY <1>2, ConcatProperties, Zenon
<1>4. l \in Seq(Byte) /\ Len(l) = Len(s) + n /\ \A i \in 1..(Len(s) + n) : l[i] = all[i]
  <2> HIDE DEF all
  <2>1. \A i \in 1..(Len(s) + n) : all[i] \in Byte
    BY <1>0, <1>1, LenProperties
  <2>2. Len(s) + n \in Int
    BY <1>0
  <2>3. /\ l \in Seq(Byte) /\ Len(l) = IF 1 <= Len(s) + n THEN Len(s) + n - 1 + 1 ELSE 0
        /\ \A i \in 1..(Len(s) + n - 1 + 1) : l[i] = all[1 + i - 1]
    BY <2>1, <2>2, SubSeqProperties
  <2> HIDE DEF l
  <2> QED
    BY <1>0, <2>3, SMTT(30)
<1> HIDE DEF l, t, all
<1>5. ASSUME NEW i \in 1..(Len(s) + n) PROVE l[i] = (s \o t)[i]
  <2>1. CASE i <= Len(s)
    BY <1>0, <1>1, <1>3, <1>4, <2>1, SMTT(30)
  <2>2. CASE ~(i <= Len(s))
    <3>1. i - Len(s) \in 1..n /\ i \in 1..(Len(s) + Len(b))
      BY <1>0, <2>2
    <3> QED
      BY <1>1, <1>2, <1>3, <1>4, <2>2, <3>1, Zenon
  <2> QED
    BY <2>1, <2>2, ZenonT(30)
<1>6. l = s \o t
  BY <1>3, <1>4, <1>5, SeqEqual, Zenon
<1> QED
  BY <1>6, Zenon DEF l, t, all

\* SingleStream implements Pipe: Write puts its data in, Read delivers, and Close
\* can only make the program fail; no other step of any process is seen.
THEOREM StreamIsPipe == Spec => IsPipe
<1>1. Init => P!Init
  BY EmptySeq, ConcatEmptySeq, Zenon DEF Init, P!Init
<1>2. ASSUME StreamInv, [Next]_vars
      PROVE  [P!Next]_<<log \o buffer, log, panic>>
  <2> DEFINE all == log \o buffer
  <2>0. /\ log \in Seq(Byte) /\ buffer \in Seq(Byte)
        /\ Len(log) \in Nat /\ Len(buffer) \in Nat /\ Len(all) = Len(log) + Len(buffer)
    BY <1>2, LenProperties, ConcatProperties, Zenon DEF StreamInv, StreamType
  <2>a. closed \in BOOLEAN /\ panic \in BOOLEAN /\ panic' \in BOOLEAN
    BY <1>2, TypeInductive, Zenon DEF StreamInv, StreamType
  <2>1. CASE UNCHANGED <<log, buffer, panic>>
    BY <2>1, Zenon
  <2>2. ASSUME NEW w \in Writers, PutBuffer(w) PROVE P!Next
    <3>1. log' = log /\ buffer' = Bytes(count + 1) /\ panic' = closed /\ ~panic
      BY <2>2, Zenon DEF PutBuffer
    <3>2. CASE closed
      <4>1. log = SubSeq(all, 1, Len(log))
        <5>1. 0 \in 0..Len(buffer)
          BY <2>0
        <5>2. SubSeq(all, 1, Len(log) + 0) = log \o SubSeq(buffer, 1, 0)
          BY <2>0, <5>1, Beginning, Zenon
        <5>3. SubSeq(buffer, 1, 0) = <<>>
          BY SubSeqEmpty
        <5>4. log \o <<>> = log
          BY <2>0, ConcatEmptySeq, Zenon
        <5>5. Len(log) + 0 = Len(log)
          BY <2>0
        <5> HIDE DEF all
        <5> QED
          BY <5>2, <5>3, <5>4, <5>5, ZenonT(30)
      <4>2. Len(log) \in Len(log)..Len(all)
        BY <2>0
      <4>3. P!Deliver
        BY <3>1, <4>1, <4>2, Zenon DEF P!Deliver
      <4> QED
        BY <3>1, <3>2, <4>3, Zenon DEF P!Next, P!Fail
    <3>3. CASE ~closed
      <4>1. buffer = <<>> /\ count \in Nat
        BY <1>2, <2>2, <3>3 DEF PutBuffer, StreamInv, TokenInv, StreamType, Putting, Copying
      <4>2. all = log
        BY <2>0, <4>1, ConcatEmptySeq, Zenon
      <4>3. buffer' \in Seq(Byte) /\ 0 \in 0..Len(buffer')
        BY <3>1, <4>1, BytesOf, LenProperties, SMTT(30)
      <4>4. SubSeq(log \o buffer', 1, Len(log) + 0) = log \o SubSeq(buffer', 1, 0)
        BY <2>0, <4>3, Beginning, Zenon
      <4>5. SubSeq(buffer', 1, 0) = <<>>
        BY SubSeqEmpty
      <4>6. log \o <<>> = log /\ Len(log) + 0 = Len(log)
        BY <2>0, ConcatEmptySeq
      <4>7. SubSeq(log \o buffer', 1, Len(log)) = log
        BY <4>4, <4>5, <4>6, ZenonT(30)
      <4> HIDE DEF all
      <4>8. SubSeq((log \o buffer)', 1, Len(all)) = all
        BY <3>1, <4>2, <4>7, Zenon
      <4>9. panic' = panic
        BY <2>a, <3>1, <3>3, Zenon
      <4> QED
        BY <3>1, <4>8, <4>9, ZenonT(30) DEF P!Next, P!Send, all
    <3> QED
      BY <3>2, <3>3, Zenon
  <2>3. ASSUME NEW r \in Readers, CopyBuffer(r) PROVE P!Next
    <3> DEFINE n == IF Len(buffer) < ReadLen THEN Len(buffer) ELSE ReadLen
    <3>1. n \in 0..Len(buffer)
      BY <2>0, SingleStreamAssumption
    <3>2. log' = log \o SubSeq(buffer, 1, n) /\ ~panic
      BY <2>3, Zenon DEF CopyBuffer
    <3> HIDE DEF n
    <3>3. SubSeq(all, 1, Len(log) + n) = log \o SubSeq(buffer, 1, n)
      BY <2>0, <3>1, Beginning, Zenon
    <3>4. Len(log) + n \in Len(log)..Len(all)
      BY <2>0, <3>1
    <3>5. P!Deliver
      BY <3>2, <3>3, <3>4, Zenon DEF P!Deliver
    <3>6. log' \o buffer' = log \o buffer
      BY <1>2, <2>3, CopyStep, Zenon DEF StreamInv
    <3>7. panic' = panic \/ panic' = TRUE
      BY <2>a, <3>2, Zenon
    <3> QED
      BY <3>2, <3>5, <3>6, <3>7, ZenonT(30) DEF P!Next, P!Receive, P!Fail
  <2>4. \/ UNCHANGED <<log, buffer, panic>>
        \/ \E w \in Writers : PutBuffer(w)
        \/ \E r \in Readers : CopyBuffer(r)
    BY <1>2, Zenon DEF Next, vars, Writer, Reader, BeginWrite, TakeWritesem, AddReader, RemoveReader,
                BeginRead, TakeReadsem, Close
  <2> QED
    BY <2>1, <2>2, <2>3, <2>4, Zenon
<1> QED
  BY <1>1, <1>2, StreamInvariant, PTL DEF Spec, IsPipe, P!Spec
===============================================================================
