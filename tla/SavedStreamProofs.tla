--------------------------- MODULE SavedStreamProofs ---------------------------
(***************************************************************************)
(* What SavedStream guarantees for any number of readers and any length of *)
(* the file.                                                               *)
(***************************************************************************)
EXTENDS SavedStream, TLAPS

\* The channels are closed by Close alone, which empties the list of readers, and
\* a reader in the list has not been removed.
ChannelInv ==
  /\ shut # {} => closed
  /\ closed => readers = {}
  /\ readers \subseteq live

\* A Read that waits without a signal, and can be told the end of the stream now or
\* by a Close, has read all there is.
WaitInv ==
  /\ \A r \in Readers : pc[r] # "idle" => r \in made
  /\ \A r \in Readers : pc[r] = "wait" /\ r \in readers \cup shut /\ signal[r] = 0 =>
       pos[r] = length

StreamInv == TypeOK /\ ChannelInv /\ WaitInv /\ NoPanic

LEMMA InitInv == Init => StreamInv
<1> SUFFICES ASSUME Init PROVE StreamInv
  BY Zenon
<1>1. TypeOK
  <2>1. {closed, panic} \subseteq BOOLEAN
    BY Zenon DEF Init
  <2> QED
    BY <2>1, SavedStreamAssumption DEF Init, TypeOK
<1>2. ChannelInv /\ WaitInv /\ NoPanic
  BY Zenon DEF Init, ChannelInv, WaitInv, NoPanic
<1> QED
  BY <1>1, <1>2, Zenon DEF StreamInv

LEMMA TypeInductive == StreamInv /\ [Next]_vars => TypeOK' /\ ChannelInv' /\ NoPanic'
<1> SUFFICES ASSUME StreamInv, [Next]_vars PROVE TypeOK' /\ ChannelInv' /\ NoPanic'
  BY Zenon
<1> USE SavedStreamAssumption DEF StreamInv, TypeOK, ChannelInv, NoPanic
<1> DEFINE Goal == TypeOK' /\ ChannelInv' /\ NoPanic'
<1>1. CASE UNCHANGED vars
  BY <1>1, Zenon DEF vars
<1>2. ASSUME NEW r \in Readers, AddReader(r) PROVE Goal
  BY <1>2, Zenon DEF AddReader
<1>3. ASSUME NEW r \in Readers, RemoveReader(r) PROVE Goal
  BY <1>3, Zenon DEF RemoveReader
<1>4. ASSUME NEW r \in Readers, BeginRead(r) PROVE Goal
  BY <1>4, Zenon DEF BeginRead, Return
<1>5. ASSUME NEW r \in Readers, NEW n \in 0..MaxLen, ReadFile(r, n) PROVE Goal
  BY <1>5 DEF ReadFile, Return
<1>6. ASSUME NEW r \in Readers, Wake(r) PROVE Goal
  BY <1>6, Zenon DEF Wake
<1>7. ASSUME NEW r \in Readers, TimeOut(r) PROVE Goal
  BY <1>7, Zenon DEF TimeOut
<1>8. ASSUME NEW r \in Readers, ReadEOF(r) PROVE Goal
  BY <1>8, Zenon DEF ReadEOF, Return
<1>9. ASSUME NEW n \in 1..MaxLen, Write(n) PROVE Goal
  BY <1>9 DEF Write
<1>10. CASE Close
  BY <1>10, Zenon DEF Close
<1> QED
  BY <1>1, <1>2, <1>3, <1>4, <1>5, <1>6, <1>7, <1>8, <1>9, <1>10, Zenon DEF Next, Reader

\* Write signals every reader that may wait, and none is in the list after Close.
LEMMA WaitInductive == StreamInv /\ [Next]_vars => WaitInv'
<1> SUFFICES ASSUME StreamInv, [Next]_vars PROVE WaitInv'
  BY Zenon
<1> USE SavedStreamAssumption DEF StreamInv, TypeOK, ChannelInv, WaitInv
<1>1. CASE UNCHANGED vars
  BY <1>1, Zenon DEF vars
<1>2. ASSUME NEW r \in Readers, AddReader(r) PROVE WaitInv'
  BY <1>2, Zenon DEF AddReader
<1>3. ASSUME NEW r \in Readers, RemoveReader(r) PROVE WaitInv'
  BY <1>3, Zenon DEF RemoveReader
<1>4. ASSUME NEW r \in Readers, BeginRead(r) PROVE WaitInv'
  BY <1>4 DEF BeginRead, Return
<1>5. ASSUME NEW r \in Readers, NEW n \in 0..MaxLen, ReadFile(r, n) PROVE WaitInv'
  BY <1>5, Zenon DEF ReadFile, Return
<1>6. ASSUME NEW r \in Readers, Wake(r) PROVE WaitInv'
  BY <1>6, Zenon DEF Wake
<1>7. ASSUME NEW r \in Readers, TimeOut(r) PROVE WaitInv'
  BY <1>7, Zenon DEF TimeOut
<1>8. ASSUME NEW r \in Readers, ReadEOF(r) PROVE WaitInv'
  BY <1>8, Zenon DEF ReadEOF, Return
<1>9. ASSUME NEW n \in 1..MaxLen, Write(n) PROVE WaitInv'
  BY <1>9 DEF Write
<1>10. CASE Close
  BY <1>10, Zenon DEF Close
<1> QED
  BY <1>1, <1>2, <1>3, <1>4, <1>5, <1>6, <1>7, <1>8, <1>9, <1>10, Zenon DEF Next, Reader

LEMMA StreamInvariant == Spec => []StreamInv
<1>1. Init => StreamInv
  BY InitInv, Zenon
<1>2. StreamInv /\ [Next]_vars => StreamInv'
  BY TypeInductive, WaitInductive, Zenon DEF StreamInv
<1> QED
  BY <1>1, <1>2, PTL DEF Spec

\* Write sends on no closed channel and Close closes no channel twice, however
\* they interleave with AddReader, RemoveReader and Read.
THEOREM StreamNeverPanics == Spec => []NoPanic
<1>1. StreamInv => NoPanic
  BY Zenon DEF StreamInv
<1> QED
  BY <1>1, StreamInvariant, PTL

\* A Read that answers io.EOF has read the file to its end: the signal of a Write
\* that came before Close is still in the channel and makes it read again.
THEOREM ReadersGetAll == Spec => FullContents
<1>1. ASSUME StreamInv, [Next]_vars, NEW r \in Readers, pc[r] = "wait", pc'[r] = "idle"
      PROVE  pos[r] = length
  <2>1. ReadEOF(r)
    BY <1>1 DEF StreamInv, TypeOK, Next, vars, Reader, AddReader, RemoveReader, BeginRead,
                ReadFile, Wake, TimeOut, ReadEOF, Write, Close, Return
  <2> QED
    BY <1>1, <2>1, Zenon DEF StreamInv, WaitInv, ReadEOF
<1>2. StreamInv /\ [Next]_vars =>
        [\A r \in Readers : pc[r] = "wait" /\ pc'[r] = "idle" => pos[r] = length]_vars
  BY <1>1, Zenon
<1> QED
  BY <1>2, StreamInvariant, PTL DEF Spec, FullContents
===============================================================================
