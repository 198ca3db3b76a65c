----------------------------- MODULE StreamsProofs -----------------------------
(***************************************************************************)
(* What the fan-out streams guarantee for any number of readers and        *)
(* Writes, any capacity of the channels and any length of the chunks: what *)
(* a reader gets is in order and complete, and Write does not panic.       *)
(***************************************************************************)
EXTENDS Streams, SequenceTheorems, WellFoundedInduction, TLAPS

-------------------------------------------------------------------------------
(* Induction: a set of numbers has a smallest one.                          *)

LEMMA NatMin ==
  ASSUME NEW T, T \subseteq Nat, T # {}
  PROVE  \E x \in T : \A y \in T : x <= y
<1> DEFINE R == OpToRel(<, Nat)
<1>1. IsWellFoundedOn(R, Nat)
  BY NatLessThanWellFounded, Zenon
<1>2. R = {ss \in Nat \X Nat : ss[1] < ss[2]}
  BY Zenon DEF OpToRel
<1> HIDE DEF R
<1>3. PICK x \in T : \A y \in T : <<y, x>> \notin R
  BY <1>1, WFMin, Zenon
<1>4. \A y \in T : ~(y < x)
  BY <1>2, <1>3, Zenon
<1> QED
  BY <1>3, <1>4

\* A set that has 0, and with each number below n the next one, has n.
LEMMA Induction ==
  ASSUME NEW n \in Nat, NEW P, 0 \in P, \A i \in 0..n : i # n /\ i \in P => i + 1 \in P
  PROVE  \A i \in 0..n : i \in P
<1> SUFFICES ASSUME NEW j \in 0..n, j \notin P PROVE FALSE
  BY Zenon
<1> DEFINE T == {i \in 0..n : i \notin P}
<1>1. T \subseteq Nat /\ T # {}
  OBVIOUS
<1>2. PICK x \in T : \A y \in T : x <= y
  BY <1>1, NatMin, Zenon
<1>3. x \in 0..n /\ x \notin P
  BY <1>2, Zenon
<1>4. x # 0
  BY <1>3, Zenon
<1>5. x - 1 \in 0..n /\ x - 1 # n /\ x - 1 + 1 = x /\ ~(x <= x - 1)
  BY <1>3, <1>4
<1>6. x - 1 \in P
  BY <1>2, <1>5, Zenon
<1> QED
  BY <1>3, <1>5, <1>6, Zenon

-------------------------------------------------------------------------------
(* The members of a sequence.                                               *)

Distinct(s) == \A i, j \in DOMAIN s : s[i] = s[j] => i = j

LEMMA EmptyMembers == Range(<<>>) = {} /\ Distinct(<<>>)
BY DEF Range, Distinct

LEMMA MembersOf ==
  ASSUME NEW S, NEW s \in Seq(S)
  PROVE  Range(s) \subseteq S
  BY ElementOfSeq DEF Range

LEMMA TailMembers ==
  ASSUME NEW S, NEW s \in Seq(S), s # <<>>
  PROVE  /\ Head(s) \in S /\ Tail(s) \in Seq(S) /\ Len(Tail(s)) = Len(s) - 1
         /\ Range(s) = {Head(s)} \cup Range(Tail(s))
         /\ Distinct(s) => Distinct(Tail(s)) /\ Head(s) \notin Range(Tail(s))
<1>1. /\ Len(s) \in Nat \ {0} /\ DOMAIN s = 1..Len(s) /\ Head(s) = s[1]
      /\ Head(s) \in S /\ Tail(s) \in Seq(S) /\ Len(Tail(s)) = Len(s) - 1
      /\ \A i \in 1..Len(Tail(s)) : Tail(s)[i] = s[i + 1]
  BY HeadTailProperties, LenProperties, EmptySeq
<1>2. DOMAIN Tail(s) = 1..(Len(s) - 1)
  BY <1>1, LenProperties, Zenon
<1> DEFINE t == Tail(s)
           n == Len(s)
<1>3. n \in Nat \ {0} /\ DOMAIN s = 1..n /\ DOMAIN t = 1..(n - 1) /\ \A i \in 1..(n - 1) : t[i] = s[i + 1]
  BY <1>1, <1>2, Zenon
<1> HIDE DEF t, n
<1>4. /\ 1 \in 1..n /\ \A i \in 1..(n - 1) : i + 1 \in 1..n /\ i + 1 # 1
      /\ \A i \in 1..n : i = 1 \/ (i - 1 \in 1..(n - 1) /\ (i - 1) + 1 = i)
      /\ \A i, j \in 1..(n - 1) : i + 1 = j + 1 => i = j
  BY <1>3
<1>5. Range(s) = {s[1]} \cup Range(t)
  <2>1. ASSUME NEW x \in Range(s) PROVE x \in {s[1]} \cup Range(t)
    <3>1. PICK i \in 1..n : x = s[i]
      BY <2>1, <1>3, Zenon DEF Range
    <3>2. CASE i = 1
      BY <3>1, <3>2, Zenon
    <3>3. CASE i - 1 \in 1..(n - 1) /\ (i - 1) + 1 = i
      <4>1. x = t[i - 1]
        BY <3>1, <3>3, <1>3, Zenon
      <4> QED
        BY <3>3, <4>1, <1>3, Zenon DEF Range
    <3> QED
      BY <3>2, <3>3, <1>4, Zenon
  <2>2. s[1] \in Range(s)
    BY <1>3, <1>4, Zenon DEF Range
  <2>3. ASSUME NEW x \in Range(t) PROVE x \in Range(s)
    <3>1. PICK i \in 1..(n - 1) : x = t[i]
      BY <2>3, <1>3, Zenon DEF Range
    <3>2. x = s[i + 1] /\ i + 1 \in 1..n
      BY <3>1, <1>3, <1>4, Zenon
    <3> QED
      BY <3>2, <1>3, Zenon DEF Range
  <2> QED
    BY <2>1, <2>2, <2>3, Zenon
<1>6. ASSUME Distinct(s) PROVE Distinct(t) /\ s[1] \notin Range(t)
  <2>1. \A i, j \in 1..n : s[i] = s[j] => i = j
    BY <1>6, <1>3, Zenon DEF Distinct
  <2>2. ASSUME NEW i \in 1..(n - 1), NEW j \in 1..(n - 1), t[i] = t[j] PROVE i = j
    <3>1. s[i + 1] = s[j + 1] /\ i + 1 \in 1..n /\ j + 1 \in 1..n
      BY <2>2, <1>3, <1>4, Zenon
    <3> QED
      BY <3>1, <2>1, <1>4, Zenon
  <2>3. ASSUME NEW i \in 1..(n - 1), t[i] = s[1] PROVE FALSE
    <3>1. s[i + 1] = s[1] /\ i + 1 \in 1..n
      BY <2>3, <1>3, <1>4, Zenon
    <3> QED
      BY <3>1, <2>1, <1>4, Zenon
  <2>4. Distinct(t)
    BY <2>2, <1>3, Zenon DEF Distinct
  <2>5. s[1] \notin Range(t)
    BY <2>3, <1>3, Zenon DEF Range
  <2> QED
    BY <2>4, <2>5, Zenon
<1> QED
  BY <1>1, <1>5, <1>6, Zenon DEF t, n

LEMMA AppendMembers ==
  ASSUME NEW S, NEW s \in Seq(S), NEW x \in S
  PROVE  /\ Append(s, x) \in Seq(S) /\ Len(Append(s, x)) = Len(s) + 1 /\ Append(s, x) # <<>>
         /\ Range(Append(s, x)) = Range(s) \cup {x}
         /\ Distinct(s) /\ x \notin Range(s) => Distinct(Append(s, x))
<1> DEFINE t == Append(s, x)
           n == Len(s)
<1>1. /\ n \in Nat /\ DOMAIN s = 1..n /\ t \in Seq(S) /\ Len(t) = n + 1 /\ t # <<>>
      /\ \A i \in 1..n : t[i] = s[i]
      /\ t[n + 1] = x
  BY AppendProperties, LenProperties
<1>2. DOMAIN t = 1..(n + 1)
  BY <1>1, LenProperties, Zenon
<1> HIDE DEF t, n
<1>3. /\ n + 1 \in 1..(n + 1) /\ n + 1 \notin 1..n
      /\ \A i \in 1..(n + 1) : i = n + 1 \/ i \in 1..n
      /\ \A i \in 1..n : i \in 1..(n + 1)
  BY <1>1
<1>4. Range(t) = Range(s) \cup {x}
  <2>1. ASSUME NEW y \in Range(t) PROVE y \in Range(s) \cup {x}
    BY <2>1, <1>1, <1>2, <1>3, Zenon DEF Range
  <2>2. x \in Range(t)
    BY <1>1, <1>2, <1>3, Zenon DEF Range
  <2>3. ASSUME NEW y \in Range(s) PROVE y \in Range(t)
    BY <2>3, <1>1, <1>2, <1>3, Zenon DEF Range
  <2> QED
    BY <2>1, <2>2, <2>3, Zenon
<1>5. ASSUME Distinct(s), x \notin Range(s) PROVE Distinct(t)
  <2> SUFFICES ASSUME NEW i \in 1..(n + 1), NEW j \in 1..(n + 1), t[i] = t[j] PROVE i = j
    BY <1>2, Zenon DEF Distinct
  <2>1. \A k \in 1..n : t[k] \in Range(s)
    BY <1>1, Zenon DEF Range
  <2>2. CASE i \in 1..n /\ j \in 1..n
    BY <2>2, <1>1, <1>5, Zenon DEF Distinct
  <2>3. CASE i = n + 1 \/ j = n + 1
    BY <2>1, <2>3, <1>1, <1>3, <1>5, Zenon
  <2> QED
    BY <2>2, <2>3, <1>3, Zenon
<1> QED
  BY <1>1, <1>4, <1>5, Zenon DEF t, n

\* The loop of RemoveReader keeps the other readers, in their order.
LEMMA KeptMembers ==
  ASSUME NEW S, NEW s \in Seq(S), NEW r
  PROVE  /\ Kept(s, r) \in Seq(S) /\ Len(Kept(s, r)) <= Len(s)
         /\ Range(Kept(s, r)) = Range(s) \ {r}
         /\ Distinct(s) => Distinct(Kept(s, r))
<1> DEFINE Step(f, i) == IF i = 0 THEN <<>>
                         ELSE IF s[i] # r THEN Append(f[i - 1], s[i]) ELSE f[i - 1]
           Is(f, n) == f = [i \in 0..n |-> Step(f, i)]
           n == Len(s)
<1>0. n \in Nat /\ DOMAIN s = 1..n
  BY LenProperties, Zenon
<1>1. \E f : Is(f, n)
  <2> DEFINE P == {m \in Nat : \E f : Is(f, m)}
  <2>1. 0 \in P
    <3> DEFINE f == [i \in 0..0 |-> <<>>]
    <3>1. \A i \in 0..0 : i = 0
      OBVIOUS
    <3>2. Is(f, 0)
      BY <3>1, Zenon
    <3> QED
      BY <3>2, Zenon
  <2>2. ASSUME NEW m \in 0..n, m # n, m \in P PROVE m + 1 \in P
    <3>1. PICK f : Is(f, m)
      BY <2>2, Zenon
    <3> DEFINE g == [i \in 0..(m + 1) |-> IF i = m + 1 THEN Step(f, m + 1) ELSE f[i]]
    <3>2. /\ \A i \in 0..(m + 1) : i = m + 1 \/ i \in 0..m
          /\ \A i \in 0..m : i # m + 1 /\ i \in 0..(m + 1)
          /\ \A i \in 0..(m + 1) : i # 0 => i - 1 \in 0..m
      OBVIOUS
    <3>3. \A i \in 0..m : g[i] = f[i]
      BY <3>2, Zenon
    <3>4. \A i \in 0..(m + 1) : Step(g, i) = Step(f, i)
      BY <3>2, <3>3, Zenon
    <3>5. \A i \in 0..m : f[i] = Step(f, i)
      BY <3>1, Zenon
    <3>6. \A i \in 0..(m + 1) : g[i] = Step(g, i)
      BY <3>2, <3>4, <3>5, Zenon
    <3>7. g = [i \in 0..(m + 1) |-> g[i]]
      BY Zenon
    <3> HIDE DEF g
    <3>8. Is(g, m + 1)
      BY <3>6, <3>7, Zenon
    <3> HIDE DEF Is
    <3>9. m + 1 \in Nat
      BY <1>0
    <3> QED
      BY <3>8, <3>9, Zenon
  <2> HIDE DEF P
  <2>3. n \in 0..n
    BY <1>0
  <2>4. n \in P
    BY <1>0, <2>1, <2>2, <2>3, Induction, Zenon
  <2> QED
    BY <2>4, Zenon DEF P
<1> DEFINE kept == CHOOSE f : Is(f, n)
<1>2. Is(kept, n)
  BY <1>1, Zenon
<1>3. Kept(s, r) = kept[n]
  BY Zenon DEF Kept
<1>4. \A i \in 0..n : kept[i] = Step(kept, i)
  <2> HIDE DEF kept
  <2> QED
    BY <1>2, Zenon
<1> HIDE DEF kept, n, Is
<1>10. ASSUME NEW i \in 0..n, i # n
      PROVE  /\ i + 1 \in 0..n /\ i + 1 \in 1..n /\ i + 1 # 0 /\ (i + 1) - 1 = i /\ i \in Nat
             /\ i + 1 \notin 1..i
             /\ \A j \in 1..(i + 1) : j = i + 1 \/ j \in 1..i
             /\ \A j \in 1..i : j \in 1..(i + 1) /\ j \in 1..n
             /\ i + 1 \in 1..(i + 1)
  BY <1>0, <1>10
<1> DEFINE Q == {i \in 0..n : /\ kept[i] \in Seq(S) /\ Len(kept[i]) <= i
                              /\ Range(kept[i]) = {s[j] : j \in 1..i} \ {r}
                              /\ Distinct(s) => Distinct(kept[i])}
<1>5. 0 \in Q
  <2>1. kept[0] = <<>> /\ 0 \in 0..n
    BY <1>0, <1>4
  <2>2. <<>> \in Seq(S) /\ Len(<<>>) <= 0 /\ {s[j] : j \in 1..0} \ {r} = {}
    OBVIOUS
  <2> QED
    BY <2>1, <2>2, EmptyMembers, Zenon
<1>6. ASSUME NEW i \in 0..n, i # n, i \in Q PROVE i + 1 \in Q
  <2> DEFINE k == kept[i]
             x == s[i + 1]
  <2>1. /\ i + 1 \in 0..n /\ i + 1 \in 1..n /\ i + 1 # 0 /\ (i + 1) - 1 = i /\ i \in Nat
        /\ i + 1 \notin 1..i
        /\ \A j \in 1..(i + 1) : j = i + 1 \/ j \in 1..i
        /\ \A j \in 1..i : j \in 1..(i + 1) /\ j \in 1..n
        /\ i + 1 \in 1..(i + 1)
    BY <1>6, <1>10, Zenon
  <2>2. kept[i + 1] = IF x # r THEN Append(k, x) ELSE k
    BY <1>4, <2>1, Zenon
  <2>3. /\ k \in Seq(S) /\ Len(k) <= i /\ Range(k) = {s[j] : j \in 1..i} \ {r}
        /\ Distinct(s) => Distinct(k)
    BY <1>6, Zenon
  <2>4. x \in S /\ Len(k) \in Nat
    BY <1>0, <2>1, <2>3, ElementOfSeq, LenProperties, Zenon DEF n
  <2>5. Distinct(s) /\ x # r => x \notin Range(k)
    <3>1. ASSUME Distinct(s), x # r, x \in Range(k) PROVE FALSE
      <4>1. PICK j \in 1..i : x = s[j]
        BY <2>3, <3>1, Zenon
      <4>2. j = i + 1
        BY <1>0, <2>1, <3>1, <4>1, Zenon DEF Distinct
      <4> QED
        BY <2>1, <4>1, <4>2, Zenon
    <3> QED
      BY <3>1, Zenon
  <2> HIDE DEF k, x
  <2>6. {s[j] : j \in 1..(i + 1)} = {s[j] : j \in 1..i} \cup {x}
    BY <2>1, Zenon DEF x
  <2>7. /\ Append(k, x) \in Seq(S) /\ Len(Append(k, x)) = Len(k) + 1 /\ Append(k, x) # <<>>
        /\ Range(Append(k, x)) = Range(k) \cup {x}
        /\ Distinct(k) /\ x \notin Range(k) => Distinct(Append(k, x))
    BY <2>3, <2>4, AppendMembers, Zenon
  <2>8. Len(k) <= i + 1 /\ Len(Append(k, x)) <= i + 1
    BY <2>1, <2>3, <2>4, <2>7
  <2>9. CASE x # r
    <3>1. Range(Append(k, x)) = {s[j] : j \in 1..(i + 1)} \ {r}
      BY <2>3, <2>6, <2>7, <2>9, Zenon
    <3> QED
      BY <2>1, <2>2, <2>3, <2>5, <2>7, <2>8, <2>9, <3>1, Zenon
  <2>10. CASE x = r
    <3>1. Range(k) = {s[j] : j \in 1..(i + 1)} \ {r}
      BY <2>3, <2>6, <2>10, Zenon
    <3> QED
      BY <2>1, <2>2, <2>3, <2>8, <2>10, <3>1, Zenon
  <2> QED
    BY <2>9, <2>10, Zenon
<1> HIDE DEF Q
<1>7. n \in 0..n
  BY <1>0
<1>8. n \in Q
  BY <1>0, <1>5, <1>6, <1>7, Induction, Zenon
<1>9. {s[j] : j \in 1..n} = Range(s)
  BY <1>0, Zenon DEF Range
<1> QED
  BY <1>3, <1>8, <1>9, Zenon DEF Q, n

\* Functions that are sequences.
LEMMA FunctionIsSeq ==
  ASSUME NEW S, NEW n \in Nat, NEW f \in [1..n -> S]
  PROVE  f \in Seq(S) /\ Len(f) = n /\ DOMAIN f = 1..n
<1>1. f \in Seq(S) /\ DOMAIN f = 1..n
  BY SeqDef, Zenon
<1> QED
  BY <1>1

\* The first n elements of an array.
LEMMA PrefixProperties ==
  ASSUME NEW S, NEW arr \in Seq(S), NEW n \in Nat, n <= Len(arr)
  PROVE  /\ SubSeq(arr, 1, n) \in Seq(S) /\ Len(SubSeq(arr, 1, n)) = n
         /\ DOMAIN SubSeq(arr, 1, n) = 1..n
         /\ \A i \in 1..n : SubSeq(arr, 1, n)[i] = arr[i]
<1>1. Len(arr) \in Nat /\ 1 \in Int /\ n \in Int /\ \A i \in 1..n : i \in 1..Len(arr)
  OBVIOUS
<1>2. \A i \in 1..n : arr[i] \in S
  BY <1>1, ElementOfSeq, Zenon
<1> DEFINE u == SubSeq(arr, 1, n)
<1>3. /\ u \in Seq(S) /\ Len(u) = IF 1 <= n THEN n - 1 + 1 ELSE 0
      /\ \A i \in 1..(n - 1 + 1) : u[i] = arr[1 + i - 1]
  BY <1>1, <1>2, SubSeqProperties
<1> HIDE DEF u
<1>4. Len(u) = n /\ \A i \in 1..n : i \in 1..(n - 1 + 1) /\ 1 + i - 1 = i
  BY <1>3
<1>5. \A i \in 1..n : u[i] = arr[i]
  BY <1>3, <1>4, Zenon
<1>6. DOMAIN u = 1..n
  BY <1>3, <1>4, LenProperties, Zenon
<1> QED
  BY <1>3, <1>4, <1>5, <1>6, Zenon DEF u

\* The prefix of an array that has the elements of k is k.
LEMMA PrefixIs ==
  ASSUME NEW S, NEW k \in Seq(S), NEW arr \in Seq(S), Len(k) <= Len(arr),
         \A i \in 1..Len(k) : arr[i] = k[i]
  PROVE  SubSeq(arr, 1, Len(k)) = k
<1> DEFINE n == Len(k)
           u == SubSeq(arr, 1, n)
<1>1. n \in Nat
  OBVIOUS
<1>2. u \in Seq(S) /\ Len(u) = n /\ \A i \in 1..n : u[i] = arr[i]
  BY <1>1, PrefixProperties, Zenon
<1> HIDE DEF u
<1>3. u = k
  BY <1>2, SeqEqual, Zenon
<1> QED
  BY <1>3, Zenon DEF u

LEMMA PrefixAppend ==
  ASSUME NEW S, NEW old \in Seq(S), NEW arr \in Seq(S), NEW n \in Nat, NEW x \in S,
         n <= Len(old), n + 1 <= Len(arr),
         \A i \in 1..n : arr[i] = old[i], arr[n + 1] = x
  PROVE  SubSeq(arr, 1, n + 1) = Append(SubSeq(old, 1, n), x)
<1> DEFINE p == SubSeq(old, 1, n)
           k == Append(p, x)
<1>1. p \in Seq(S) /\ Len(p) = n /\ \A i \in 1..n : p[i] = old[i]
  BY PrefixProperties, Zenon
<1>2. /\ k \in Seq(S) /\ Len(k) = n + 1
      /\ \A i \in 1..n : k[i] = p[i]
      /\ k[n + 1] = x
  <2> HIDE DEF p
  <2>1. /\ k \in Seq(S) /\ k # <<>> /\ Len(k) = Len(p) + 1
        /\ \A i \in 1..Len(p) : k[i] = p[i]
        /\ k[Len(p) + 1] = x
    BY <1>1, AppendProperties
  <2> QED
    BY <1>1, <2>1, Zenon
<1> HIDE DEF p, k
<1>3. \A i \in 1..(n + 1) : i = n + 1 \/ i \in 1..n
  OBVIOUS
<1>4. \A i \in 1..Len(k) : arr[i] = k[i]
  BY <1>1, <1>2, <1>3, Zenon
<1>5. SubSeq(arr, 1, Len(k)) = k
  BY <1>2, <1>4, PrefixIs, Zenon
<1> QED
  BY <1>2, <1>5, Zenon DEF p, k

-------------------------------------------------------------------------------
(* The slice of the readers and the arrays behind it.                       *)

Entry == Readers \cup {None}

\* The slice fits into its array, which is the last one until Close.  Only this one
\* has places never used, behind all that Write can have loaded.
StoreInv ==
  /\ arrays \in Seq(Seq(Entry))
  /\ slice \in [a : Nat, n : Nat]
  /\ slice.a <= Len(arrays) /\ slice.n <= Len(Array(slice.a))
  /\ IF closed THEN slice = Nil ELSE slice.a = Len(arrays)
  /\ write.a # None => write.a \in 0..Len(arrays)
  /\ write.n # None => write.n \in 0..Len(Array(Len(arrays)))
  /\ \A a \in 1..Len(arrays) : \A i \in DOMAIN arrays[a] : arrays[a][i] = None =>
       /\ a = Len(arrays)
       /\ slice.n < i
       /\ write.n # None => write.n < i

LEMMA ArrayType ==
  ASSUME StoreInv
  PROVE  /\ Len(arrays) \in Nat
         /\ \A a \in 0..Len(arrays) : Array(a) \in Seq(Entry) /\ Len(Array(a)) \in Nat
<1>1. Len(arrays) \in Nat /\ \A a \in 1..Len(arrays) : arrays[a] \in Seq(Entry)
  BY ElementOfSeq DEF StoreInv
<1>2. \A a \in 0..Len(arrays) : a = 0 \/ a \in 1..Len(arrays)
  BY <1>1
<1>3. <<>> \in Seq(Entry)
  OBVIOUS
<1>4. \A a \in 0..Len(arrays) : Array(a) \in Seq(Entry)
  BY <1>1, <1>2, <1>3, Zenon DEF Array
<1> QED
  BY <1>1, <1>4, LenProperties, Zenon

LEMMA SliceType ==
  ASSUME StoreInv
  PROVE  Slice(slice) \in Seq(Readers) /\ Len(Slice(slice)) = slice.n
<1> DEFINE arr == Array(slice.a)
           n == slice.n
<1>1. slice.a \in 0..Len(arrays) /\ n \in Nat /\ n <= Len(arr)
  BY ArrayType DEF StoreInv
<1>2. arr \in Seq(Entry) /\ Len(arr) \in Nat /\ DOMAIN arr = 1..Len(arr)
  BY <1>1, ArrayType, LenProperties, Zenon
<1>3. ASSUME NEW i \in 1..n PROVE arr[i] \in Readers
  <2>1. i \in 1..Len(arr) /\ ~(n < i) /\ Len(arr) # 0
    BY <1>1, <1>2
  <2>2. slice.a # 0
    BY <2>1, EmptySeq, Zenon DEF Array
  <2>3. slice.a \in 1..Len(arrays) /\ arr = arrays[slice.a]
    BY <1>1, <2>2, ArrayType DEF Array
  <2>4. arr[i] # None
    BY <1>2, <2>1, <2>3, Zenon DEF StoreInv
  <2>5. arr[i] \in Entry
    BY <1>2, <2>1, ElementOfSeq, Zenon
  <2> QED
    BY <2>4, <2>5, Zenon DEF Entry
<1> HIDE DEF arr, n
<1> DEFINE u == SubSeq(arr, 1, n)
<1>4. Len(u) = n /\ DOMAIN u = 1..n /\ \A i \in 1..n : u[i] = arr[i]
  BY <1>1, <1>2, PrefixProperties, Zenon
<1>5. u \in Seq(Entry)
  BY <1>1, <1>2, PrefixProperties, Zenon
<1>6. u \in [1..n -> Readers]
  <2> HIDE DEF u
  <2>1. u = [i \in 1..n |-> u[i]]
    BY <1>4, <1>5, LenProperties, Zenon
  <2> QED
    BY <1>3, <1>4, <2>1, Zenon
<1>7. u \in Seq(Readers)
  <2> HIDE DEF u
  <2> QED
    BY <1>1, <1>6, SeqDef
<1> QED
  BY <1>4, <1>7, Zenon DEF Slice, arr, n

\* append keeps the readers and adds r.
LEMMA StoreAdd ==
  ASSUME StoreInv, ~closed, NEW r \in Readers, Appended(slice, r), UNCHANGED <<closed, write>>
  PROVE  StoreInv' /\ Slice(slice)' = Append(Slice(slice), r)
<1> DEFINE N   == Len(arrays)
           n   == slice.n
           old == Array(slice.a)
           new == [i \in 1..(IF old = <<>> THEN 1 ELSE 2 * Len(old)) |->
                     IF i <= Len(old) THEN old[i] ELSE IF i = n + 1 THEN r ELSE None]
<1>0. slice.a = N /\ slice = [a |-> N, n |-> n]
  BY Zenon DEF StoreInv
<1>1. N \in Nat /\ n \in Nat /\ n <= Len(old) /\ N \in 0..N /\ Len(old) \in Nat
  BY ArrayType DEF StoreInv
<1>2. /\ old \in Seq(Entry) /\ Len(old) \in Nat /\ DOMAIN old = 1..Len(old)
      /\ r \in Entry /\ None \in Entry
  BY <1>0, <1>1, ArrayType, LenProperties, Zenon DEF Entry
<1>3. \A a \in 1..N : \A i \in DOMAIN arrays[a] : arrays[a][i] = None =>
        a = N /\ n < i /\ (write.n # None => write.n < i)
  BY Zenon DEF StoreInv
<1>4. old = IF N = 0 THEN <<>> ELSE arrays[N]
  BY <1>0, Zenon DEF Array
<1>5. Slice(slice) = SubSeq(old, 1, n)
  BY Zenon DEF Slice
<1>6. arrays \in Seq(Seq(Entry))
  BY Zenon DEF StoreInv
<1>7. (write.a # None => write.a \in 0..N) /\ (write.n # None => write.n \in 0..Len(old))
  BY <1>0, Zenon DEF StoreInv
<1>8. IF n < Len(old)
      THEN /\ arrays' = [arrays EXCEPT ![N][n + 1] = r]
           /\ slice' = [a |-> N, n |-> n + 1]
      ELSE arrays' = Append(arrays, new) /\ slice' = [a |-> N + 1, n |-> n + 1]
  BY <1>0, Zenon DEF Appended
<1> HIDE DEF N, n, old, new
\* What there is to show, of the array that holds the slice now.
<1>9. ASSUME NEW M \in Nat, NEW arr \in Seq(Entry), arrays' \in Seq(Seq(Entry)), Len(arrays') = M,
             M # 0, M >= N, slice' = [a |-> M, n |-> n + 1], arrays'[M] = arr,
             n + 1 <= Len(arr), Len(old) <= Len(arr),
             \A i \in 1..n : arr[i] = old[i], arr[n + 1] = r,
             \A a \in 1..M : a # M => \A i \in DOMAIN arrays'[a] : arrays'[a][i] # None,
             \A i \in DOMAIN arr : arr[i] = None =>
               n + 1 < i /\ (write.n # None => write.n < i)
      PROVE  StoreInv' /\ Slice(slice)' = Append(Slice(slice), r)
  <2>1. Array(slice.a)' = arr /\ Array(Len(arrays))' = arr /\ slice'.a = M /\ slice'.n = n + 1
    <3>1. slice'.a = M /\ slice'.n = n + 1
      BY <1>9, Zenon
    <3> QED
      BY <1>9, <3>1, Zenon DEF Array
  <2>2. Slice(slice)' = Append(Slice(slice), r)
    <3>1. SubSeq(arr, 1, n + 1) = Append(SubSeq(old, 1, n), r)
      BY <1>1, <1>2, <1>9, PrefixAppend
    <3> QED
      BY <1>5, <2>1, <3>1, Zenon DEF Slice
  <2>3. /\ slice' \in [a : Nat, n : Nat] /\ M <= M /\ n + 1 \in Nat
    BY <1>1, <1>9
  <2>4. /\ write.a # None => write.a \in 0..M
        /\ write.n # None => write.n \in 0..Len(arr)
    BY <1>1, <1>2, <1>7, <1>9
  <2>5. ASSUME NEW a \in 1..M, NEW i \in DOMAIN arrays'[a], arrays'[a][i] = None
        PROVE  a = M /\ n + 1 < i /\ (write.n # None => write.n < i)
    BY <1>9, <2>5, Zenon
  <2> QED
    BY <1>9, <2>1, <2>2, <2>3, <2>4, <2>5, Zenon DEF StoreInv
<1>10. CASE n < Len(old)
  <2> DEFINE arr == [old EXCEPT ![n + 1] = r]
  <2>1. n + 1 \in 1..Len(old) /\ n + 1 <= Len(old) /\ \A i \in 1..n : i \in 1..Len(old) /\ i # n + 1
    BY <1>1, <1>10
  <2>2. N # 0 /\ old = arrays[N] /\ N \in 1..N
    <3>1. Len(<<>>) = 0
      BY EmptySeq, Zenon
    <3>2. N # 0
      BY <1>2, <1>4, <2>1, <3>1
    <3> QED
      BY <1>1, <1>4, <3>2
  <2>3. /\ arr \in Seq(Entry) /\ Len(arr) = Len(old)
        /\ \A j \in 1..Len(old) : arr[j] = IF j = n + 1 THEN r ELSE old[j]
    BY <1>2, <2>1, ExceptSeq
  <2>4. DOMAIN arr = 1..Len(old)
    BY <2>3, LenProperties, Zenon
  <2>5. arrays' = [arrays EXCEPT ![N] = arr]
    BY <1>8, <1>10, <2>2, Zenon
  <2> HIDE DEF arr
  <2>6. /\ arrays' \in Seq(Seq(Entry)) /\ Len(arrays') = N
        /\ \A j \in 1..N : arrays'[j] = IF j = N THEN arr ELSE arrays[j]
    BY <1>6, <2>2, <2>3, <2>5, ExceptSeq DEF N
  <2>7. \A i \in 1..Len(old) : i # n + 1 /\ n < i => n + 1 < i
    BY <1>1
  <2>8. \A i \in DOMAIN arr : arr[i] = None => n + 1 < i /\ (write.n # None => write.n < i)
    <3> SUFFICES ASSUME NEW i \in DOMAIN arr, arr[i] = None
                 PROVE  n + 1 < i /\ (write.n # None => write.n < i)
      BY Zenon
    <3>1. r # None
      BY StreamsAssumption, Zenon
    <3>2. i \in 1..Len(old) /\ i # n + 1 /\ old[i] = None
      BY <2>3, <2>4, <3>1, Zenon
    <3>3. n < i /\ (write.n # None => write.n < i)
      BY <1>2, <1>3, <2>2, <3>2, Zenon
    <3> QED
      BY <2>7, <3>2, <3>3, Zenon
  <2>9. \A a \in 1..N : a # N => \A i \in DOMAIN arrays'[a] : arrays'[a][i] # None
    BY <1>3, <2>6, Zenon
  <2>10. /\ n + 1 <= Len(arr) /\ Len(old) <= Len(arr) /\ N >= N
         /\ \A i \in 1..n : arr[i] = old[i]
         /\ arr[n + 1] = r
    BY <1>1, <1>2, <2>1, <2>3
  <2>11. slice' = [a |-> N, n |-> n + 1] /\ arrays'[N] = arr
    BY <1>8, <1>10, <2>2, <2>6, Zenon
  <2> QED
    BY <1>1, <1>9, <2>2, <2>3, <2>6, <2>8, <2>9, <2>10, <2>11, Zenon
<1>11. CASE ~(n < Len(old))
  <2>1. n = Len(old)
    BY <1>1, <1>11
  <2> DEFINE L == IF old = <<>> THEN 1 ELSE 2 * Len(old)
  <2>2. L \in Nat /\ n + 1 <= L /\ n + 1 \in 1..L /\ Len(old) <= L
    <3>1. CASE old = <<>>
      <4>1. Len(old) = 0
        BY <3>1, EmptySeq, Zenon
      <4> QED
        BY <2>1, <3>1, <4>1
    <3>2. CASE old # <<>>
      <4>1. Len(old) \in Nat \ {0}
        BY <1>2, <3>2, EmptySeq, Zenon
      <4> QED
        BY <2>1, <3>2, <4>1
    <3> QED
      BY <3>1, <3>2, Zenon
  <2>3. new = [i \in 1..L |-> IF i <= n THEN old[i] ELSE IF i = n + 1 THEN r ELSE None]
    BY <2>1, Zenon DEF new
  <2> HIDE DEF L
  <2>4. \A i \in 1..L : new[i] = IF i <= n THEN old[i] ELSE IF i = n + 1 THEN r ELSE None
    BY <2>3, Zenon
  <2>5. /\ \A i \in 1..n : i <= n /\ i \in 1..L /\ i \in 1..Len(old)
        /\ \A i \in 1..L : i <= n => i \in 1..n
        /\ ~(n + 1 <= n)
    BY <1>1, <2>1, <2>2
  <2>6. \A i \in 1..n : old[i] \in Entry
    BY <1>2, <2>5, ElementOfSeq, Zenon
  <2>7. \A i \in 1..L : new[i] \in Entry
    BY <1>2, <2>4, <2>5, <2>6, Zenon
  <2>8. new \in [1..L -> Entry]
    <3>1. new = [i \in 1..L |-> new[i]]
      BY <2>3, Zenon
    <3> QED
      BY <2>7, <3>1, Zenon
  <2>9. new \in Seq(Entry) /\ DOMAIN new = 1..L
    BY <2>2, <2>8, SeqDef, Zenon
  <2>10. Len(new) = L
    BY <2>2, <2>9
  <2>11. arrays' = Append(arrays, new) /\ slice' = [a |-> N + 1, n |-> n + 1]
    BY <1>8, <1>11, Zenon
  <2>12. /\ arrays' \in Seq(Seq(Entry)) /\ Len(arrays') = N + 1
         /\ \A j \in 1..N : arrays'[j] = arrays[j]
         /\ arrays'[N + 1] = new
    BY <1>6, <2>9, <2>11, AppendProperties DEF N
  <2>13. \A i \in 1..n : old[i] # None
    <3> SUFFICES ASSUME NEW i \in 1..n, old[i] = None PROVE FALSE
      BY Zenon
    <3>1. ~(n < i) /\ i \in 1..Len(old) /\ Len(old) # 0
      BY <1>1, <2>1
    <3>2. N # 0
      BY <1>4, <3>1, EmptySeq, Zenon
    <3>3. N \in 1..N
      BY <1>1, <3>2
    <3> QED
      BY <1>2, <1>3, <1>4, <3>1, <3>2, <3>3, Zenon
  <2>14. \A i \in DOMAIN new : new[i] = None => n + 1 < i /\ (write.n # None => write.n < i)
    <3> SUFFICES ASSUME NEW i \in 1..L, new[i] = None
                 PROVE  n + 1 < i /\ (write.n # None => write.n < i)
      BY <2>9, Zenon
    <3>1. r # None
      BY StreamsAssumption, Zenon
    <3>2. ~(i <= n) /\ i # n + 1
      BY <2>4, <2>5, <2>13, <3>1, Zenon
    <3>3. n + 1 < i
      BY <1>1, <3>2
    <3>4. write.n # None => write.n \in 0..n
      BY <1>7, <2>1, Zenon
    <3> QED
      BY <1>1, <3>3, <3>4
  <2>15. \A a \in 1..(N + 1) : a # N + 1 => \A i \in DOMAIN arrays'[a] : arrays'[a][i] # None
    <3> SUFFICES ASSUME NEW a \in 1..(N + 1), a # N + 1,
                        NEW i \in DOMAIN arrays[a], arrays[a][i] = None
                 PROVE  FALSE
      <4>1. \A a \in 1..(N + 1) : a # N + 1 => a \in 1..N
        BY <1>1
      <4> QED
        BY <2>12, <4>1, Zenon
    <3>1. a \in 1..N
      BY <1>1
    <3>2. a = N /\ n < i
      BY <1>3, <3>1, Zenon
    <3>3. old = arrays[N]
      BY <1>4, <3>1, <3>2
    <3>4. i \in 1..n
      BY <1>2, <2>1, <3>2, <3>3, Zenon
    <3> QED
      BY <2>13, <3>2, <3>3, <3>4, Zenon
  <2>16. /\ N + 1 \in Nat /\ N + 1 # 0 /\ N + 1 >= N
         /\ n + 1 <= Len(new) /\ Len(old) <= Len(new)
    BY <1>1, <2>2, <2>10
  <2>17. (\A i \in 1..n : new[i] = old[i]) /\ new[n + 1] = r
    BY <2>2, <2>4, <2>5, Zenon
  <2> QED
    BY <1>9, <2>9, <2>11, <2>12, <2>14, <2>15, <2>16, <2>17, Zenon
<1> QED
  BY <1>10, <1>11, Zenon

\* The array is compacted in place to the readers k.
LEMMA StoreCompact ==
  ASSUME StoreInv, NEW k \in Seq(Readers), Len(k) <= slice.n, UNCHANGED closed,
         write'.a \in {write.a, None}, write'.n \in {write.n, None},
         slice' = [slice EXCEPT !.n = Len(k)],
         arrays' = IF slice.a = 0 THEN arrays
                   ELSE [arrays EXCEPT ![slice.a] = [i \in DOMAIN @ |->
                           IF i <= Len(k) THEN k[i] ELSE @[i]]]
  PROVE  StoreInv' /\ Slice(slice)' = k
<1> DEFINE N   == Len(arrays)
           b   == slice.a
           n   == slice.n
           old == Array(b)
           m   == Len(k)
<1>1. /\ N \in Nat /\ b \in Nat /\ b <= N /\ n \in Nat /\ n <= Len(old) /\ m \in Nat /\ m <= n
      /\ b \in 0..N /\ Len(old) \in Nat
  BY ArrayType DEF StoreInv
<1>2. slice'.a = b /\ slice'.n = m /\ slice' \in [a : Nat, n : Nat]
  <2>1. slice \in [a : Nat, n : Nat] /\ m \in Nat
    BY <1>1, Zenon DEF StoreInv
  <2> HIDE DEF m
  <2> QED
    BY <2>1, Zenon DEF m
<1>3. /\ old \in Seq(Entry) /\ DOMAIN old = 1..Len(old)
      /\ old = IF b = 0 THEN <<>> ELSE arrays[b]
  BY <1>1, ArrayType, LenProperties, Zenon DEF Array
<1>4. arrays \in Seq(Seq(Entry)) /\ DOMAIN arrays = 1..N
  BY LenProperties, Zenon DEF StoreInv
<1>5. /\ \A a \in 1..N : \A i \in DOMAIN arrays[a] : arrays[a][i] = None =>
           a = N /\ n < i /\ (write.n # None => write.n < i)
      /\ write.a # None => write.a \in 0..N
      /\ write.n # None => write.n \in 0..Len(Array(N))
      /\ IF closed THEN slice = Nil ELSE b = N
  BY Zenon DEF StoreInv
<1>6. closed => slice' = Nil
  <2> SUFFICES ASSUME closed PROVE slice' = Nil
    BY Zenon
  <2>1. b = 0 /\ n = 0
    BY <1>5 DEF Nil
  <2>2. m = 0
    BY <1>1, <2>1
  <2> QED
    BY <1>2, <2>1, <2>2, Zenon DEF Nil
<1>7. k \in Seq(Entry) /\ \A i \in 1..m : k[i] \in Readers /\ k[i] # None
  <2>1. \A i \in 1..m : k[i] \in Readers
    BY ElementOfSeq, Zenon
  <2>2. k \in Seq(Entry)
    BY SeqMonotonic, Zenon DEF Entry
  <2> QED
    BY <2>1, <2>2, StreamsAssumption, Zenon
<1>10. /\ slice = [a |-> b, n |-> n]
       /\ arrays' = IF b = 0 THEN arrays
                    ELSE [arrays EXCEPT ![b] = [i \in DOMAIN @ |-> IF i <= m THEN k[i] ELSE @[i]]]
  BY Zenon DEF StoreInv
<1> HIDE DEF N, b, n, old, m
<1>8. CASE b = 0
  <2>1. m = 0 /\ n = 0
    <3>1. Len(old) = 0
      BY <1>3, <1>8, EmptySeq, Zenon
    <3> QED
      BY <1>1, <3>1
  <2>2. k = <<>>
    BY <2>1, EmptySeq, Zenon DEF m
  <2>3. arrays' = arrays
    BY <1>8, <1>10, Zenon
  <2>4. Slice(slice)' = k
    <3>1. Array(slice.a)' = <<>>
      BY <1>2, <1>8, Zenon DEF Array
    <3>2. SubSeq(<<>>, 1, 0) = <<>>
      BY SubSeqEmpty
    <3> QED
      BY <1>2, <2>1, <2>2, <3>1, <3>2, Zenon DEF Slice
  <2>5. slice' = slice
    BY <1>2, <1>10, <2>1
  <2>6. \A a : Array(a)' = Array(a)
    BY <2>3, Zenon DEF Array
  <2>7. StoreInv'
    BY <2>3, <2>5, <2>6, Zenon DEF StoreInv
  <2> QED
    BY <2>4, <2>7, Zenon
<1>9. CASE b # 0
  <2> DEFINE arr == [i \in 1..Len(old) |-> IF i <= m THEN k[i] ELSE old[i]]
  <2>1. b \in 1..N /\ old = arrays[b]
    BY <1>1, <1>3, <1>9
  <2>2. arrays' = [arrays EXCEPT ![b] = arr]
    <3>1. arr = [i \in DOMAIN arrays[b] |-> IF i <= m THEN k[i] ELSE arrays[b][i]]
      BY <1>3, <2>1, Zenon
    <3> HIDE DEF arr
    <3>2. arrays' = [arrays EXCEPT ![b] = [i \in DOMAIN @ |-> IF i <= m THEN k[i] ELSE @[i]]]
      BY <1>9, <1>10, Zenon
    <3> QED
      BY <3>1, <3>2, Zenon
  <2>3. /\ \A i \in 1..m : i \in 1..Len(old) /\ i <= m
        /\ \A i \in 1..Len(old) : i <= m => i \in 1..m
    BY <1>1
  <2>4. \A i \in 1..Len(old) : arr[i] = IF i <= m THEN k[i] ELSE old[i]
    BY Zenon
  <2>5. \A i \in 1..Len(old) : arr[i] \in Entry
    <3>1. \A i \in 1..Len(old) : old[i] \in Entry
      BY <1>3, ElementOfSeq, Zenon
    <3> QED
      BY <1>7, <2>3, <2>4, <3>1, Zenon DEF Entry
  <2>6. arr \in [1..Len(old) -> Entry]
    BY <2>5, Zenon
  <2> HIDE DEF arr
  <2>7. arr \in Seq(Entry) /\ DOMAIN arr = 1..Len(old)
    <3>1. Len(old) \in Nat
      BY <1>1, Zenon
    <3> QED
      BY <2>6, <3>1, FunctionIsSeq, Zenon
  <2>8. Len(arr) = Len(old)
    BY <1>1, <2>7
  <2>9. /\ arrays' \in Seq(Seq(Entry)) /\ Len(arrays') = N
        /\ \A j \in 1..N : arrays'[j] = IF j = b THEN arr ELSE arrays[j]
    <3>1. arrays \in Seq(Seq(Entry)) /\ b \in 1..Len(arrays) /\ arr \in Seq(Entry)
      BY <1>4, <2>1, <2>7, Zenon DEF N
    <3>2. PICK t : t = [arrays EXCEPT ![b] = arr]
      BY Zenon
    <3> HIDE DEF arr, b
    <3>3. /\ t \in Seq(Seq(Entry)) /\ Len(t) = Len(arrays)
          /\ \A j \in 1..Len(arrays) : t[j] = IF j = b THEN arr ELSE arrays[j]
      BY <3>1, <3>2
    <3> QED
      BY <2>2, <3>2, <3>3, Zenon DEF N
  <2>10. Array(slice.a)' = arr
    BY <1>2, <1>9, <2>1, <2>9, Zenon DEF Array
  <2>11. Slice(slice)' = k
    <3>1. m <= Len(arr) /\ \A i \in 1..m : arr[i] = k[i]
      BY <1>1, <2>3, <2>4, <2>8
    <3>2. SubSeq(arr, 1, m) = k
      BY <1>7, <2>7, <3>1, PrefixIs, Zenon DEF m
    <3> QED
      BY <1>2, <2>10, <3>2, Zenon DEF Slice
  <2>12. ASSUME NEW a \in 1..N, NEW i \in DOMAIN arrays'[a], arrays'[a][i] = None
         PROVE  a = N /\ m < i /\ (write'.n # None => write'.n < i)
    <3>1. i \in DOMAIN arrays[a] /\ arrays[a][i] = None
      <4>1. CASE a # b
        BY <2>9, <2>12, <4>1, Zenon
      <4>2. CASE a = b
        <5>1. i \in 1..Len(old) /\ arr[i] = None
          BY <2>7, <2>9, <2>12, <4>2, Zenon
        <5>2. old[i] = None
          BY <1>7, <2>3, <2>4, <5>1, Zenon
        <5> QED
          BY <1>3, <2>1, <4>2, <5>1, <5>2, Zenon
      <4> QED
        BY <4>1, <4>2, Zenon
    <3>2. a = N /\ n < i /\ (write.n # None => write.n < i)
      BY <1>5, <3>1, Zenon
    <3>3. i \in Nat
      <4>1. arrays[a] \in Seq(Entry)
        BY <1>4, ElementOfSeq, Zenon DEF N
      <4>2. i \in 1..Len(arrays[a])
        BY <3>1, <4>1, LenProperties, Zenon
      <4> QED
        BY <4>2
    <3>4. m < i
      BY <1>1, <3>2, <3>3
    <3> QED
      BY <3>2, <3>4, Zenon
  <2>13. Len(Array(Len(arrays))') = Len(Array(N))
    <3>1. N # 0
      BY <1>1, <2>1
    <3>2. N \in 1..N
      BY <1>1, <3>1
    <3>3. Array(Len(arrays))' = arrays'[N] /\ Array(N) = arrays[N]
      BY <2>9, <3>1, Zenon DEF Array
    <3> QED
      BY <2>1, <2>8, <2>9, <3>2, <3>3, Zenon
  <2>15. m <= Len(arr)
    BY <1>1, <2>8
  <2>16. /\ slice'.a <= Len(arrays') /\ slice'.n <= Len(Array(slice.a)')
         /\ write'.a # None => write'.a \in 0..Len(arrays')
         /\ write'.n # None => write'.n \in 0..Len(Array(Len(arrays))')
         /\ IF closed' THEN slice' = Nil ELSE slice'.a = Len(arrays')
    BY <1>1, <1>2, <1>5, <1>6, <2>9, <2>10, <2>13, <2>15, Zenon
  <2>17. StoreInv'
    BY <1>2, <2>9, <2>12, <2>16, Zenon DEF StoreInv
  <2> QED
    BY <2>11, <2>17, Zenon
<1> QED
  BY <1>8, <1>9, Zenon

\* Close of the stream drops the slice.
LEMMA StoreClose ==
  ASSUME StoreInv, closed' = TRUE, slice' = Nil, UNCHANGED <<arrays, write>>
  PROVE  StoreInv' /\ Slice(slice)' = <<>>
<1>1. slice'.a = 0 /\ slice'.n = 0 /\ slice' \in [a : Nat, n : Nat]
  BY Zenon DEF Nil
<1>2. Array(slice.a)' = <<>> /\ \A a : Array(a)' = Array(a)
  BY <1>1, Zenon DEF Array
<1>3. SubSeq(<<>>, 1, 0) = <<>>
  BY SubSeqEmpty
<1>4. Slice(slice)' = <<>>
  BY <1>1, <1>2, <1>3, Zenon DEF Slice
<1>5. 0 <= Len(arrays) /\ 0 <= Len(<<>>)
  BY ArrayType
<1>6. ASSUME NEW a \in 1..Len(arrays), NEW i \in DOMAIN arrays[a], arrays[a][i] = None
      PROVE  0 < i
  <2>1. arrays[a] \in Seq(Entry)
    BY ElementOfSeq, Zenon DEF StoreInv
  <2>2. i \in 1..Len(arrays[a])
    BY <2>1, LenProperties, Zenon
  <2> QED
    BY <2>2
<1>7. StoreInv'
  BY <1>1, <1>2, <1>5, <1>6, Zenon DEF StoreInv
<1> QED
  BY <1>4, <1>7, Zenon

\* Write forgets what it has loaded, or loads a word of the slice.
LEMMA StoreLoad ==
  ASSUME StoreInv, UNCHANGED <<arrays, slice, closed>>,
         write'.a \in {write.a, None, slice.a}, write'.n \in {write.n, None, slice.n}
  PROVE  StoreInv' /\ Slice(slice)' = Slice(slice)
<1>1. \A a : Array(a)' = Array(a)
  BY Zenon DEF Array
<1>2. slice.a \in 0..Len(arrays)
  BY ArrayType DEF StoreInv
<1>3. slice.n \in 0..Len(Array(Len(arrays)))
  <2>0. slice.n \in Nat /\ Len(Array(Len(arrays))) \in Nat
    <3>1. Len(arrays) \in 0..Len(arrays)
      BY ArrayType
    <3> QED
      BY <3>1, ArrayType, Zenon DEF StoreInv
  <2>1. CASE closed
    <3>1. slice.n = 0
      BY <2>1 DEF StoreInv, Nil
    <3> QED
      BY <2>0, <3>1
  <2>2. CASE ~closed
    <3>1. slice.n <= Len(Array(Len(arrays)))
      BY <2>2, Zenon DEF StoreInv
    <3> QED
      BY <2>0, <3>1
  <2> QED
    BY <2>1, <2>2, Zenon
<1>4. StoreInv'
  BY <1>1, <1>2, <1>3, Zenon DEF StoreInv
<1>5. Slice(slice)' = Slice(slice)
  BY <1>1, Zenon DEF Slice
<1> QED
  BY <1>4, <1>5, Zenon

-------------------------------------------------------------------------------
(* The inductive invariant of the slice, of the readers and of Write.       *)

Live == {r \in Readers : state[r] = "live"}

\* The readers that Write has before it or keeps.
Pending == Range(write.todo) \cup Range(write.left)

Types ==
  /\ kind \in {"dropping", "blocking", "skipping"}
  /\ closed \in BOOLEAN /\ locked \in BOOLEAN /\ raced \in BOOLEAN /\ panic \in BOOLEAN
  /\ state \in [Readers -> {"new", "live", "dead"}]
  /\ open \subseteq Readers
  /\ write \in [pc : {"idle", "load", "send", "sleep"}, a : Nat \cup {None}, n : Nat \cup {None},
                todo : Seq(Readers), left : Seq(Readers)]

\* Write holds the lock while it sends.  Unless the slice has been changed under its
\* hands, it has loaded the words of the slice.
LockInv ==
  /\ locked <=> write.pc = "send"
  /\ write.pc \in {"load", "sleep"} => kind = "blocking"
  /\ raced => kind = "blocking"
  /\ write.pc \in {"idle", "load"} => write.todo = <<>> /\ write.left = <<>>
  /\ write.pc = "sleep" => write.todo = <<>>
  /\ write.pc = "load" /\ ~raced =>
       write.a \in {None, slice.a} /\ write.n \in {None, slice.n}

\* The readers in the slice are the live ones, each of them once; a DroppingStream
\* takes out those it has closed when Write ends.  Write has each reader once.
SliceInv ==
  /\ Distinct(Slice(slice)) /\ \A r \in Range(Slice(slice)) : state[r] # "new"
  /\ IF kind = "dropping" /\ write.pc = "send"
     THEN Live = Pending /\ Len(write.todo) + Len(write.left) <= slice.n
     ELSE Live = Range(Slice(slice))
  /\ kind # "blocking" => Range(write.todo) \subseteq Live
  /\ ~raced => /\ \A r \in Pending : state[r] # "new"
               /\ Distinct(write.todo) /\ Distinct(write.left)
               /\ Range(write.todo) \cap Range(write.left) = {}

ControlInv == StoreInv /\ Types /\ LockInv /\ SliceInv /\ NoPanic

LEMMA InitControl == Init => ControlInv
<1> SUFFICES ASSUME Init PROVE ControlInv
  BY Zenon
<1>1. /\ arrays = <<>> /\ slice = [a |-> 0, n |-> 0] /\ closed = FALSE /\ locked = FALSE
      /\ state = [r \in Readers |-> "new"] /\ open = {} /\ raced = FALSE /\ panic = FALSE
      /\ write = [pc |-> "idle", a |-> None, n |-> None, todo |-> <<>>, left |-> <<>>]
  BY Zenon DEF Init, Nil, NoWrite
<1>2. Len(<<>>) = 0 /\ <<>> \in Seq(Seq(Entry)) /\ <<>> \in Seq(Readers) /\ 1..0 = {}
  OBVIOUS
<1>3. slice.a = 0 /\ slice.n = 0 /\ slice \in [a : Nat, n : Nat]
  BY <1>1, Zenon
<1>4. Slice(slice) = <<>> /\ Array(0) = <<>>
  <2>1. SubSeq(<<>>, 1, 0) = <<>>
    BY SubSeqEmpty
  <2> QED
    BY <1>3, <2>1, Zenon DEF Slice, Array
<1>5. /\ write.pc = "idle" /\ write.a = None /\ write.n = None
      /\ write.todo = <<>> /\ write.left = <<>>
      /\ write \in [pc : {"idle", "load", "send", "sleep"}, a : Nat \cup {None},
                    n : Nat \cup {None}, todo : Seq(Readers), left : Seq(Readers)]
  BY <1>1, <1>2, Zenon
<1>6. StoreInv
  <2>1. 0 <= 0
    OBVIOUS
  <2> QED
    BY <1>1, <1>2, <1>3, <1>4, <1>5, <2>1, Zenon DEF StoreInv
<1>7. Types
  <2>1. kind \in {"dropping", "blocking", "skipping"}
    BY StreamsAssumption, Zenon DEF Init
  <2> QED
    BY <1>1, <1>5, <2>1, Zenon DEF Types
<1>8. LockInv /\ NoPanic
  BY <1>1, <1>5, Zenon DEF LockInv, NoPanic
<1>9. SliceInv
  <2>1. Range(<<>>) = {} /\ Distinct(<<>>)
    BY EmptyMembers, Zenon
  <2>2. Live = {}
    BY <1>1, Zenon DEF Live
  <2> QED
    BY <1>4, <1>5, <2>1, <2>2, Zenon DEF SliceInv, Pending
<1> QED
  BY <1>6, <1>7, <1>8, <1>9, Zenon DEF ControlInv

LEMMA ControlAdd ==
  ASSUME ControlInv, NEW r \in Readers, AddReadWriter(r)
  PROVE  ControlInv'
<1>1. /\ ~panic /\ ~locked /\ raced' = (raced \/ write.pc = "load") /\ state[r] = "new"
      /\ open' = open \cup {r} /\ UNCHANGED <<kind, closed, write, locked, panic>>
  BY Zenon DEF AddReadWriter, ChangeSlice, Lock
<1>2. StoreInv /\ Types /\ LockInv /\ SliceInv /\ NoPanic
  BY Zenon DEF ControlInv
<1>3. r \notin Range(Slice(slice)) /\ r \notin Live /\ write.pc # "send" /\ Live = Range(Slice(slice))
  BY <1>1, <1>2, Zenon DEF SliceInv, Live, LockInv
<1>4. /\ Types' /\ NoPanic' /\ raced' \in BOOLEAN
  <2>1. state' \in [Readers -> {"new", "live", "dead"}]
    BY <1>2, Zenon DEF Types, AddReadWriter
  <2>2. open' \subseteq Readers /\ raced' \in BOOLEAN
    BY <1>1, <1>2, Zenon DEF Types
  <2> QED
    BY <1>1, <1>2, <2>1, <2>2, Zenon DEF Types, NoPanic
<1>5. LockInv'
  BY <1>1, <1>2, Zenon DEF LockInv
<1>6. kind # "blocking" => Range(write.todo) = {}
  BY <1>1, <1>2, <1>3, EmptyMembers, Zenon DEF LockInv, Types
<1>7. \A q \in Readers : q # r => state'[q] = state[q]
  BY <1>2, Zenon DEF Types, AddReadWriter
<1>8. Pending' = Pending /\ (~raced' => ~raced) /\ Pending \subseteq Readers
  <2>1. write.todo \in Seq(Readers) /\ write.left \in Seq(Readers)
    BY <1>2, Zenon DEF Types
  <2> QED
    BY <1>1, <2>1, MembersOf, Zenon DEF Pending
<1>9. Slice(slice) \in Seq(Readers) /\ Range(Slice(slice)) \subseteq Readers
  BY <1>2, SliceType, MembersOf, Zenon
<1>10. CASE closed
  <2>1. state' = [state EXCEPT ![r] = "dead"] /\ UNCHANGED <<arrays, slice>>
    BY <1>10, Zenon DEF AddReadWriter
  <2>2. state'[r] = "dead" /\ Live' = Live
    BY <1>2, <1>3, <2>1, Zenon DEF Types, Live
  <2>3. StoreInv' /\ Slice(slice)' = Slice(slice)
    BY <1>1, <1>2, <2>1, StoreLoad, Zenon
  <2>4. SliceInv'
    BY <1>1, <1>2, <1>3, <1>6, <1>7, <1>8, <1>9, <2>2, <2>3, Zenon DEF SliceInv
  <2> QED
    BY <1>4, <1>5, <2>3, <2>4, Zenon DEF ControlInv
<1>11. CASE ~closed
  <2>1. state' = [state EXCEPT ![r] = "live"] /\ Appended(slice, r)
    BY <1>11, Zenon DEF AddReadWriter
  <2>2. state'[r] = "live" /\ Live' = Live \cup {r}
    BY <1>2, <1>3, <2>1 DEF Types, Live
  <2>3. StoreInv' /\ Slice(slice)' = Append(Slice(slice), r)
    BY <1>1, <1>2, <1>11, <2>1, StoreAdd, Zenon
  <2>4. Distinct(Slice(slice)') /\ Range(Slice(slice)') = Range(Slice(slice)) \cup {r}
    <3> DEFINE l == Slice(slice)
               m == Append(l, r)
    <3>1. l \in Seq(Readers) /\ r \notin Range(l) /\ Distinct(l)
      BY <1>2, <1>3, <1>9, Zenon DEF SliceInv
    <3> HIDE DEF l
    <3>2. /\ m \in Seq(Readers) /\ Len(m) = Len(l) + 1 /\ m # <<>>
          /\ Range(m) = Range(l) \cup {r}
          /\ Distinct(l) /\ r \notin Range(l) => Distinct(m)
      BY <3>1, AppendMembers, Zenon
    <3> QED
      BY <2>3, <3>1, <3>2, Zenon DEF l
  <2>5. SliceInv'
    BY <1>1, <1>2, <1>3, <1>6, <1>7, <1>8, <1>9, <2>2, <2>3, <2>4, Zenon DEF SliceInv
  <2> QED
    BY <1>4, <1>5, <2>3, <2>5, Zenon DEF ControlInv
<1> QED
  BY <1>10, <1>11, Zenon

LEMMA ControlRemove ==
  ASSUME ControlInv, NEW r \in Readers, RemoveReader(r)
  PROVE  ControlInv'
<1> DEFINE kept == Kept(Slice(slice), r)
<1>1. /\ ~panic /\ ~locked /\ raced' = (raced \/ write.pc = "load")
      /\ open' = open \ {r} /\ UNCHANGED <<kind, closed, write, locked, panic>>
      /\ state' = [state EXCEPT ![r] = "dead"]
  BY Zenon DEF RemoveReader, ChangeSlice, Lock
<1>2. StoreInv /\ Types /\ LockInv /\ SliceInv /\ NoPanic
  BY Zenon DEF ControlInv
<1>3. write.pc # "send" /\ Live = Range(Slice(slice))
  BY <1>1, <1>2, Zenon DEF SliceInv, LockInv
<1>4. Types' /\ NoPanic'
  <2>1. state' \in [Readers -> {"new", "live", "dead"}]
    BY <1>1, <1>2, Zenon DEF Types
  <2>2. open' \subseteq Readers /\ raced' \in BOOLEAN
    BY <1>1, <1>2, Zenon DEF Types
  <2> QED
    BY <1>1, <1>2, <2>1, <2>2, Zenon DEF Types, NoPanic
<1>5. LockInv'
  BY <1>1, <1>2, Zenon DEF LockInv
<1>6. kind # "blocking" => Range(write.todo) = {}
  BY <1>1, <1>2, <1>3, EmptyMembers, Zenon DEF LockInv, Types
<1>7. state'[r] = "dead" /\ (\A q \in Readers : q # r => state'[q] = state[q]) /\ Live' = Live \ {r}
  BY <1>1, <1>2, Zenon DEF Types, Live
<1>8. Pending' = Pending /\ (~raced' => ~raced) /\ Pending \subseteq Readers
  <2>1. write.todo \in Seq(Readers) /\ write.left \in Seq(Readers)
    BY <1>2, Zenon DEF Types
  <2> QED
    BY <1>1, <2>1, MembersOf, Zenon DEF Pending
<1>9. /\ Slice(slice) \in Seq(Readers) /\ Range(Slice(slice)) \subseteq Readers
      /\ Len(Slice(slice)) = slice.n
  BY <1>2, SliceType, MembersOf, Zenon
<1>10. /\ kept \in Seq(Readers) /\ Len(kept) <= slice.n
       /\ Range(kept) = Range(Slice(slice)) \ {r} /\ Distinct(kept)
  <2> DEFINE s == Slice(slice)
  <2>1. s \in Seq(Readers) /\ Len(s) = slice.n /\ Distinct(s)
    BY <1>2, <1>9, Zenon DEF SliceInv
  <2> HIDE DEF s
  <2>2. /\ Kept(s, r) \in Seq(Readers) /\ Len(Kept(s, r)) <= Len(s)
        /\ Range(Kept(s, r)) = Range(s) \ {r} /\ Distinct(Kept(s, r))
    BY <2>1, KeptMembers, Zenon
  <2> QED
    BY <2>1, <2>2, Zenon DEF s
<1>11. StoreInv' /\ Slice(slice)' = kept
  <2>1. /\ slice' = [slice EXCEPT !.n = Len(kept)]
        /\ arrays' = IF slice.a = 0 THEN arrays
                     ELSE [arrays EXCEPT ![slice.a] = [i \in DOMAIN @ |->
                             IF i <= Len(kept) THEN kept[i] ELSE @[i]]]
    BY Zenon DEF RemoveReader
  <2> HIDE DEF kept
  <2> QED
    BY <1>1, <1>2, <1>10, <2>1, StoreCompact, Zenon
<1>12. SliceInv'
  <2> HIDE DEF kept
  <2> QED
    BY <1>1, <1>2, <1>3, <1>6, <1>7, <1>8, <1>9, <1>10, <1>11, Zenon DEF SliceInv
<1> QED
  BY <1>4, <1>5, <1>11, <1>12, Zenon DEF ControlInv

LEMMA ControlClose ==
  ASSUME ControlInv, Close
  PROVE  ControlInv'
<1>1. /\ ~panic /\ ~locked /\ raced' = (raced \/ write.pc = "load")
      /\ closed' = TRUE /\ slice' = Nil /\ UNCHANGED <<kind, arrays, open, write, locked, panic>>
      /\ state' = [r \in Readers |-> IF r \in Range(Slice(slice)) THEN "dead" ELSE state[r]]
  BY Zenon DEF Close, ChangeSlice, Lock
<1>2. StoreInv /\ Types /\ LockInv /\ SliceInv /\ NoPanic
  BY Zenon DEF ControlInv
<1>3. write.pc # "send" /\ Live = Range(Slice(slice))
  BY <1>1, <1>2, Zenon DEF SliceInv, LockInv
<1>4. Types' /\ NoPanic'
  <2>1. state' \in [Readers -> {"new", "live", "dead"}]
    BY <1>1, <1>2, Zenon DEF Types
  <2>2. raced' \in BOOLEAN /\ closed' \in BOOLEAN
    BY <1>1, <1>2, Zenon DEF Types
  <2> QED
    BY <1>1, <1>2, <2>1, <2>2, Zenon DEF Types, NoPanic
<1>5. LockInv'
  BY <1>1, <1>2, Zenon DEF LockInv
<1>6. kind # "blocking" => Range(write.todo) = {}
  BY <1>1, <1>2, <1>3, EmptyMembers, Zenon DEF LockInv, Types
<1>7. Live' = {} /\ \A q \in Readers : state'[q] \in {"dead", state[q]}
  BY <1>1, <1>2, <1>3, Zenon DEF Types, Live
<1>8. Pending' = Pending /\ (~raced' => ~raced) /\ Pending \subseteq Readers
  <2>1. write.todo \in Seq(Readers) /\ write.left \in Seq(Readers)
    BY <1>2, Zenon DEF Types
  <2> QED
    BY <1>1, <2>1, MembersOf, Zenon DEF Pending
<1>9. StoreInv' /\ Slice(slice)' = <<>>
  BY <1>1, <1>2, StoreClose, Zenon
<1>10. SliceInv'
  <2>1. Range(Slice(slice)') = {} /\ Distinct(Slice(slice)')
    BY <1>9, EmptyMembers, Zenon
  <2>2. ~raced' => \A q \in Pending : state'[q] # "new"
    BY <1>2, <1>7, <1>8, Zenon DEF SliceInv
  <2> QED
    BY <1>1, <1>2, <1>3, <1>6, <1>7, <1>8, <2>1, <2>2, Zenon DEF SliceInv
<1> QED
  BY <1>4, <1>5, <1>9, <1>10, Zenon DEF ControlInv

LEMMA ControlBegin ==
  ASSUME ControlInv, BeginWrite
  PROVE  ControlInv'
<1>1. /\ ~panic /\ write.pc = "idle"
      /\ UNCHANGED <<kind, raced, arrays, slice, closed, state, open, panic>>
  BY Zenon DEF BeginWrite
<1>2. StoreInv /\ Types /\ LockInv /\ SliceInv /\ NoPanic
  BY Zenon DEF ControlInv
<1>3. /\ write'.a = None /\ write'.n = None /\ write'.left = <<>>
      /\ write'.pc = IF kind = "blocking" THEN "load" ELSE "send"
      /\ write'.todo = IF kind = "blocking" THEN <<>> ELSE Slice(slice)
  BY Zenon DEF BeginWrite, NoWrite
<1>4. /\ locked' = (kind # "blocking") /\ ~locked
      /\ Live = Range(Slice(slice)) /\ Live' = Live
  BY <1>1, <1>2, Zenon DEF BeginWrite, Lock, LockInv, SliceInv, Live, Types
<1>5. StoreInv' /\ Slice(slice)' = Slice(slice)
  BY <1>1, <1>2, <1>3, StoreLoad, Zenon
<1>6. Slice(slice) \in Seq(Readers) /\ Len(Slice(slice)) = slice.n /\ <<>> \in Seq(Readers)
  BY <1>2, SliceType
<1>7. Types' /\ NoPanic'
  <2>1. write' \in [pc : {"idle", "load", "send", "sleep"}, a : Nat \cup {None},
                    n : Nat \cup {None}, todo : Seq(Readers), left : Seq(Readers)]
    BY <1>6, Zenon DEF BeginWrite, NoWrite
  <2>2. locked' \in BOOLEAN
    BY <1>4, Zenon
  <2> QED
    BY <1>1, <1>2, <2>1, <2>2, Zenon DEF Types, NoPanic
<1>8. LockInv'
  BY <1>1, <1>2, <1>3, <1>4, Zenon DEF LockInv
<1>9. SliceInv'
  <2>1. Range(<<>>) = {} /\ Distinct(<<>>)
    BY EmptyMembers, Zenon
  <2>2. Pending' = Range(write'.todo) /\ (kind # "blocking" => Pending' = Live)
    BY <1>3, <1>4, <2>1, Zenon DEF Pending
  <2>3. kind # "blocking" => Len(write'.todo) + Len(write'.left) <= slice.n
    <3>1. slice.n \in Nat /\ Len(<<>>) = 0
      BY <1>2, Zenon DEF StoreInv
    <3>2. kind # "blocking" => Len(write'.todo) = slice.n /\ Len(write'.left) = 0
      BY <1>3, <1>6, <3>1, Zenon
    <3>3. \A x \in Nat : x + 0 <= x
      OBVIOUS
    <3> QED
      BY <3>1, <3>2, <3>3, Zenon
  <2>4. Pending' \subseteq Range(Slice(slice))
    BY <1>3, <2>1, <2>2, Zenon
  <2>5. /\ Range(write'.todo) \cap Range(write'.left) = {} /\ Distinct(write'.todo)
        /\ Distinct(write'.left)
    BY <1>2, <1>3, <2>1, Zenon DEF SliceInv
  <2>6. write'.pc = "send" => kind # "blocking"
    BY <1>3, Zenon
  <2> QED
    BY <1>1, <1>2, <1>3, <1>4, <1>5, <2>2, <2>3, <2>4, <2>5, <2>6, Zenon DEF SliceInv
<1> QED
  BY <1>5, <1>7, <1>8, <1>9, Zenon DEF ControlInv

LEMMA ControlLoad ==
  ASSUME ControlInv, LoadReaders
  PROVE  ControlInv'
<1>1. /\ ~panic /\ write.pc = "load"
      /\ UNCHANGED <<kind, raced, arrays, slice, closed, state, open, locked, panic>>
  BY Zenon DEF LoadReaders
<1>2. StoreInv /\ Types /\ LockInv /\ SliceInv /\ NoPanic
  BY Zenon DEF ControlInv
<1>3. /\ write' \in [pc : {"idle", "load", "send", "sleep"}, a : Nat \cup {None},
                     n : Nat \cup {None}, todo : Seq(Readers), left : Seq(Readers)]
      /\ write'.pc = write.pc /\ write'.todo = write.todo /\ write'.left = write.left
      /\ \/ write.a = None /\ write'.a = slice.a /\ write'.n = write.n
         \/ write.n = None /\ write'.n = slice.n /\ write'.a = write.a
  <2>1. slice.a \in Nat /\ slice.n \in Nat
    BY <1>2, Zenon DEF StoreInv
  <2>2. write \in [pc : {"idle", "load", "send", "sleep"}, a : Nat \cup {None},
                   n : Nat \cup {None}, todo : Seq(Readers), left : Seq(Readers)]
    BY <1>2, Zenon DEF Types
  <2>3. CASE write.a = None /\ write' = [write EXCEPT !.a = slice.a]
    BY <2>1, <2>2, <2>3, Zenon
  <2>4. CASE write.n = None /\ write' = [write EXCEPT !.n = slice.n]
    BY <2>1, <2>2, <2>4, Zenon
  <2> QED
    BY <2>3, <2>4, Zenon DEF LoadReaders
<1>4. StoreInv' /\ Slice(slice)' = Slice(slice)
  BY <1>1, <1>2, <1>3, StoreLoad, Zenon
<1>5. Types' /\ NoPanic'
  BY <1>1, <1>2, <1>3, Zenon DEF Types, NoPanic
<1>6. LockInv'
  BY <1>1, <1>2, <1>3, Zenon DEF LockInv
<1>7. SliceInv'
  BY <1>1, <1>2, <1>3, <1>4, Zenon DEF SliceInv, Live, Pending
<1> QED
  BY <1>4, <1>5, <1>6, <1>7, Zenon DEF ControlInv

\* What tryWrite is given is a sequence of readers, whichever words were loaded.
LEMMA LoadedType ==
  ASSUME StoreInv, write.a # None, write.n # None, ~(write.n > Len(Array(write.a)))
  PROVE  Slice(write) \in Seq(Readers)
<1> DEFINE arr == Array(write.a)
           N   == Len(arrays)
           a   == write.a
           n   == write.n
<1>0. N \in Nat /\ Len(Array(N)) \in Nat
  <2>1. N \in Nat
    BY ArrayType, Zenon
  <2>2. N \in 0..N
    BY <2>1
  <2> QED
    BY <2>1, <2>2, ArrayType, Zenon
<1>1. a \in 0..N /\ n \in 0..Len(Array(N))
  BY Zenon DEF StoreInv
<1>2. arr \in Seq(Entry) /\ Len(arr) \in Nat /\ DOMAIN arr = 1..Len(arr)
  BY <1>1, ArrayType, LenProperties, Zenon
<1>3. ~(n > Len(arr)) /\ \A x \in 1..N : \A i \in DOMAIN arrays[x] : arrays[x][i] = None => n < i
  BY Zenon DEF StoreInv
<1>4. arr = IF a = 0 THEN <<>> ELSE arrays[a]
  BY Zenon DEF Array
<1> HIDE DEF arr, a, n, N
<1>5. n \in Nat /\ n <= Len(arr)
  BY <1>0, <1>1, <1>2, <1>3
<1>6. ASSUME NEW i \in 1..n PROVE arr[i] \in Readers
  <2>1. i \in 1..Len(arr) /\ ~(n < i) /\ Len(arr) # 0
    BY <1>2, <1>5
  <2>2. a # 0
    <3>1. Len(<<>>) = 0
      BY Zenon
    <3> QED
      BY <1>4, <2>1, <3>1, Zenon
  <2>3. a \in 1..N
    BY <1>0, <1>1, <2>2
  <2>4. arr[i] \in Entry
    BY <1>2, <2>1, ElementOfSeq, Zenon
  <2>5. arr[i] # None
    BY <1>2, <1>3, <1>4, <2>1, <2>2, <2>3, Zenon
  <2> QED
    BY <2>4, <2>5, Zenon DEF Entry
<1> DEFINE u == SubSeq(arr, 1, n)
<1>7. u \in Seq(Entry) /\ Len(u) = n /\ DOMAIN u = 1..n /\ \A i \in 1..n : u[i] = arr[i]
  BY <1>2, <1>5, PrefixProperties, Zenon
<1> HIDE DEF u
<1>8. u \in [1..n -> Readers]
  <2>1. u = [i \in 1..n |-> u[i]]
    BY <1>7, LenProperties, Zenon
  <2> QED
    BY <1>6, <1>7, <2>1, Zenon
<1>9. u \in Seq(Readers)
  BY <1>5, <1>8, FunctionIsSeq, Zenon
<1> QED
  BY <1>9, Zenon DEF u, arr, n, a, Slice

\* If the slice was not changed in between, it is the slice.
LEMMA LoadedRight ==
  ASSUME StoreInv, LockInv, ~raced, write.pc = "load", None \notin {write.a, write.n}
  PROVE  ~(write.n > Len(Array(write.a))) /\ Slice(write) = Slice(slice)
<1>1. write.a = slice.a /\ write.n = slice.n
  BY Zenon DEF LockInv
<1>2. slice.n \in Nat /\ Len(Array(slice.a)) \in Nat /\ slice.n <= Len(Array(slice.a))
  <2>1. slice.n \in Nat /\ slice.a \in 0..Len(arrays)
    BY ArrayType DEF StoreInv
  <2> QED
    BY <2>1, ArrayType, Zenon DEF StoreInv
<1>3. \A x, y \in Nat : x <= y => ~(x > y)
  OBVIOUS
<1> QED
  BY <1>1, <1>2, <1>3, Zenon DEF Slice

LEMMA ControlTry ==
  ASSUME ControlInv, TryWrite
  PROVE  ControlInv'
<1>1. /\ ~panic /\ ~locked /\ locked' = TRUE /\ write.pc \in {"load", "sleep"}
      /\ UNCHANGED <<kind, raced, arrays, slice, closed, state, open>>
  BY Zenon DEF TryWrite
<1>2. StoreInv /\ Types /\ LockInv /\ SliceInv /\ NoPanic
  BY Zenon DEF ControlInv
<1>3. write \in [pc : {"idle", "load", "send", "sleep"}, a : Nat \cup {None},
                 n : Nat \cup {None}, todo : Seq(Readers), left : Seq(Readers)]
  BY <1>2, Zenon DEF Types
<1>4. kind = "blocking" /\ Live = Range(Slice(slice)) /\ Live' = Live
  <2>1. "blocking" # "dropping"
    BY Zenon
  <2> QED
    BY <1>1, <1>2, <2>1, Zenon DEF LockInv, SliceInv, Live
<1> DEFINE Step(todo, left) == write' = [write EXCEPT !.pc = "send", !.todo = todo, !.left = left]
<1>5. ASSUME NEW todo \in Seq(Readers), NEW left \in Seq(Readers), Step(todo, left),
             panic' \in BOOLEAN, ~raced => ~panic',
             ~raced => /\ \A r \in Range(todo) \cup Range(left) : state[r] # "new"
                       /\ Distinct(todo) /\ Distinct(left) /\ Range(todo) \cap Range(left) = {}
      PROVE  ControlInv'
  <2>1. /\ write' \in [pc : {"idle", "load", "send", "sleep"}, a : Nat \cup {None},
                       n : Nat \cup {None}, todo : Seq(Readers), left : Seq(Readers)]
        /\ write'.pc = "send" /\ write'.todo = todo /\ write'.left = left
        /\ write'.a = write.a /\ write'.n = write.n
    BY <1>3, <1>5, Zenon
  <2>2. StoreInv' /\ Slice(slice)' = Slice(slice)
    BY <1>1, <1>2, <2>1, StoreLoad, Zenon
  <2>3. Types' /\ NoPanic' /\ LockInv'
    BY <1>1, <1>2, <1>4, <1>5, <2>1, Zenon DEF Types, NoPanic, LockInv
  <2>4. SliceInv'
    <3>1. "blocking" # "dropping"
      BY Zenon
    <3> QED
      BY <1>1, <1>2, <1>4, <1>5, <2>1, <2>2, <3>1, Zenon DEF SliceInv, Pending
  <2> QED
    BY <2>2, <2>3, <2>4, Zenon DEF ControlInv
<1>6. <<>> \in Seq(Readers) /\ Range(<<>>) = {} /\ Distinct(<<>>)
  BY EmptyMembers
<1>7. CASE /\ write.pc = "load" /\ None \notin {write.a, write.n}
           /\ panic' = (write.n > Len(Array(write.a)))
           /\ write' = [write EXCEPT !.pc = "send", !.todo = IF panic' THEN <<>> ELSE Slice(write)]
  <2> DEFINE todo == IF panic' THEN <<>> ELSE Slice(write)
  <2>1. todo \in Seq(Readers)
    BY <1>2, <1>6, <1>7, LoadedType, Zenon
  <2>2. write.left = <<>>
    BY <1>2, <1>7, Zenon DEF LockInv
  <2>3. Step(todo, <<>>)
    <3> HIDE DEF todo
    <3>1. [write EXCEPT !.pc = "send", !.todo = todo] =
            [write EXCEPT !.pc = "send", !.todo = todo, !.left = <<>>]
      BY <1>3, <2>2, Zenon
    <3> QED
      BY <1>7, <3>1, Zenon DEF todo
  <2>4. panic' \in BOOLEAN
    <3>1. \A x, y \in Nat : (x > y) \in BOOLEAN
      OBVIOUS
    <3>2. write.n \in Nat
      BY <1>3, <1>7, Zenon
    <3>3. Len(Array(write.a)) \in Nat
      BY <1>2, <1>7, ArrayType, Zenon DEF StoreInv
    <3> QED
      BY <1>7, <3>1, <3>2, <3>3, Zenon
  <2>5. ASSUME ~raced PROVE ~panic' /\ todo = Slice(slice)
    BY <1>2, <1>7, <2>5, LoadedRight, Zenon
  <2> HIDE DEF todo
  <2> QED
    BY <1>2, <1>5, <1>6, <2>1, <2>3, <2>4, <2>5, Zenon DEF SliceInv
<1>8. CASE /\ write.pc = "sleep"
           /\ write' = [write EXCEPT !.pc = "send", !.todo = write.left, !.left = <<>>]
           /\ UNCHANGED panic
  <2>1. write.left \in Seq(Readers)
    BY <1>3, Zenon
  <2>2. ~raced => (\A r \in Range(write.left) : state[r] # "new") /\ Distinct(write.left)
    BY <1>2, Zenon DEF SliceInv, Pending
  <2>3. panic' \in BOOLEAN /\ (~raced => ~panic')
    BY <1>2, <1>8, Zenon DEF Types, NoPanic
  <2> QED
    BY <1>5, <1>6, <1>8, <2>1, <2>2, <2>3, Zenon
<1> QED
  BY <1>7, <1>8, Zenon DEF TryWrite

LEMMA ControlSend ==
  ASSUME ControlInv, SendChunk
  PROVE  ControlInv' /\ ~panic'
<1> DEFINE r    == Head(write.todo)
           todo == Tail(write.todo)
           left == IF kind = "blocking" THEN write.left ELSE Append(write.left, r)
<1>1. /\ ~panic /\ write.pc = "send" /\ write.todo # <<>>
      /\ kind = "blocking" => state[r] = "live"
      /\ panic' = (state[r] = "dead")
      /\ write' = [write EXCEPT !.todo = todo, !.left = left]
      /\ UNCHANGED <<kind, raced, arrays, slice, closed, state, open, locked>>
  BY Zenon DEF SendChunk
<1>2. StoreInv /\ Types /\ LockInv /\ SliceInv /\ NoPanic
  BY Zenon DEF ControlInv
<1>3. /\ write \in [pc : {"idle", "load", "send", "sleep"}, a : Nat \cup {None},
                    n : Nat \cup {None}, todo : Seq(Readers), left : Seq(Readers)]
      /\ write.todo \in Seq(Readers) /\ write.left \in Seq(Readers)
  BY <1>2, Zenon DEF Types
<1>4. /\ r \in Readers /\ todo \in Seq(Readers) /\ Len(todo) = Len(write.todo) - 1
      /\ Range(write.todo) = {r} \cup Range(todo)
      /\ Distinct(write.todo) => Distinct(todo) /\ r \notin Range(todo)
  BY <1>1, <1>3, TailMembers, Zenon
<1> HIDE DEF r, todo
<1>5. /\ Append(write.left, r) \in Seq(Readers) /\ Len(Append(write.left, r)) = Len(write.left) + 1
      /\ Range(Append(write.left, r)) = Range(write.left) \cup {r}
      /\ Distinct(write.left) /\ r \notin Range(write.left) => Distinct(Append(write.left, r))
  <2> DEFINE l == write.left
             m == Append(l, r)
  <2>1. l \in Seq(Readers)
    BY <1>3, Zenon
  <2> HIDE DEF l
  <2>2. /\ m \in Seq(Readers) /\ Len(m) = Len(l) + 1 /\ m # <<>>
        /\ Range(m) = Range(l) \cup {r}
        /\ Distinct(l) /\ r \notin Range(l) => Distinct(m)
    BY <1>4, <2>1, AppendMembers, Zenon
  <2> QED
    BY <2>2, Zenon DEF l
<1>6. /\ left \in Seq(Readers)
      /\ kind = "blocking" => left = write.left
      /\ kind # "blocking" => left = Append(write.left, r)
  BY <1>3, <1>5, Zenon
<1> HIDE DEF left
<1>7. /\ write' \in [pc : {"idle", "load", "send", "sleep"}, a : Nat \cup {None},
                     n : Nat \cup {None}, todo : Seq(Readers), left : Seq(Readers)]
      /\ write'.pc = "send" /\ write'.todo = todo /\ write'.left = left
      /\ write'.a = write.a /\ write'.n = write.n
  BY <1>1, <1>3, <1>4, <1>6, Zenon
<1>8. ~panic'
  <2>1. state[r] = "live"
    BY <1>1, <1>2, <1>4, Zenon DEF SliceInv, Live
  <2>2. "live" # "dead"
    BY Zenon
  <2> QED
    BY <1>1, <2>1, <2>2, Zenon
<1>9. StoreInv' /\ Slice(slice)' = Slice(slice)
  BY <1>1, <1>2, <1>7, StoreLoad, Zenon
<1>10. Types' /\ NoPanic' /\ LockInv'
  <2>1. panic' \in BOOLEAN
    BY <1>8, <1>1, Zenon
  <2> QED
    BY <1>1, <1>2, <1>7, <1>8, <2>1, Zenon DEF Types, NoPanic, LockInv
<1>11. SliceInv'
  <2>1. Live' = Live /\ Pending' \subseteq Pending /\ (kind # "blocking" => Pending' = Pending)
    BY <1>1, <1>4, <1>5, <1>6, <1>7, Zenon DEF Live, Pending
  <2>2. ~raced => /\ Distinct(todo) /\ Distinct(left) /\ Range(todo) \cap Range(left) = {}
    <3>1. CASE kind = "blocking"
      BY <1>2, <1>4, <1>6, <3>1, Zenon DEF SliceInv
    <3>2. CASE kind # "blocking"
      <4>1. ~raced => /\ Distinct(write.todo) /\ Distinct(write.left)
                      /\ Range(write.todo) \cap Range(write.left) = {}
        BY <1>2, Zenon DEF SliceInv
      <4>2. ~raced => r \notin Range(write.left) /\ r \notin Range(todo) /\ Distinct(todo)
        BY <1>4, <4>1, Zenon
      <4>3. ~raced => Distinct(left)
        BY <1>5, <1>6, <3>2, <4>1, <4>2, Zenon
      <4>4. ~raced => Range(todo) \cap Range(left) = {}
        <5>1. Range(left) = Range(write.left) \cup {r}
          BY <1>5, <1>6, <3>2, Zenon
        <5>2. \A x \in Range(todo) : x \in Range(write.todo)
          BY <1>4, Zenon
        <5> QED
          BY <4>1, <4>2, <5>1, <5>2, Zenon
      <4> QED
        BY <4>2, <4>3, <4>4, Zenon
    <3> QED
      BY <3>1, <3>2, Zenon
  <2>3. kind # "blocking" => Len(todo) + Len(left) = Len(write.todo) + Len(write.left)
    <3>1. Len(write.todo) \in Nat /\ Len(write.left) \in Nat
      BY <1>3, LenProperties, Zenon
    <3>2. \A x, y \in Nat : (x - 1) + (y + 1) = x + y
      OBVIOUS
    <3>3. ASSUME kind # "blocking" PROVE Len(left) = Len(write.left) + 1
      BY <1>5, <1>6, <3>3, Zenon
    <3> QED
      BY <1>4, <3>1, <3>2, <3>3, Zenon
  <2>4. kind # "blocking" => Range(todo) \subseteq Live
    BY <1>2, <1>4, Zenon DEF SliceInv
  <2>5. "blocking" # "dropping"
    BY Zenon
  <2> QED
    BY <1>1, <1>2, <1>7, <1>9, <2>1, <2>2, <2>3, <2>4, <2>5, Zenon DEF SliceInv
<1> QED
  BY <1>8, <1>9, <1>10, <1>11, Zenon DEF ControlInv

LEMMA ControlPass ==
  ASSUME ControlInv, PassOver
  PROVE  ControlInv'
<1> DEFINE r    == Head(write.todo)
           todo == Tail(write.todo)
           left == IF state'[r] = "dead" THEN write.left ELSE Append(write.left, r)
<1>1. /\ ~panic /\ write.pc = "send" /\ write.todo # <<>>
      /\ state' = IF kind = "dropping" THEN [state EXCEPT ![r] = "dead"] ELSE state
      /\ write' = [write EXCEPT !.todo = todo, !.left = left]
      /\ UNCHANGED <<kind, raced, arrays, slice, closed, open, locked, panic>>
  BY Zenon DEF PassOver
<1>2. StoreInv /\ Types /\ LockInv /\ SliceInv /\ NoPanic
  BY Zenon DEF ControlInv
<1>3. /\ write \in [pc : {"idle", "load", "send", "sleep"}, a : Nat \cup {None},
                    n : Nat \cup {None}, todo : Seq(Readers), left : Seq(Readers)]
      /\ write.todo \in Seq(Readers) /\ write.left \in Seq(Readers)
  BY <1>2, Zenon DEF Types
<1>4. /\ r \in Readers /\ todo \in Seq(Readers) /\ Len(todo) = Len(write.todo) - 1
      /\ Range(write.todo) = {r} \cup Range(todo)
      /\ Distinct(write.todo) => Distinct(todo) /\ r \notin Range(todo)
  BY <1>1, <1>3, TailMembers, Zenon
<1> HIDE DEF r, todo
<1>5. /\ Append(write.left, r) \in Seq(Readers)
      /\ Range(Append(write.left, r)) = Range(write.left) \cup {r}
      /\ Distinct(write.left) /\ r \notin Range(write.left) => Distinct(Append(write.left, r))
  <2> DEFINE l == write.left
             m == Append(l, r)
  <2>1. l \in Seq(Readers)
    BY <1>3, Zenon
  <2> HIDE DEF l
  <2>2. /\ m \in Seq(Readers) /\ Len(m) = Len(l) + 1 /\ m # <<>>
        /\ Range(m) = Range(l) \cup {r}
        /\ Distinct(l) /\ r \notin Range(l) => Distinct(m)
    BY <1>4, <2>1, AppendMembers, Zenon
  <2> QED
    BY <2>2, Zenon DEF l
<1>6. left \in Seq(Readers) /\ left \in {write.left, Append(write.left, r)}
      /\ (state'[r] = "dead" => left = write.left)
  BY <1>3, <1>5, Zenon
<1> HIDE DEF left
<1>7. /\ write' \in [pc : {"idle", "load", "send", "sleep"}, a : Nat \cup {None},
                     n : Nat \cup {None}, todo : Seq(Readers), left : Seq(Readers)]
      /\ write'.pc = "send" /\ write'.todo = todo /\ write'.left = left
      /\ write'.a = write.a /\ write'.n = write.n
  BY <1>1, <1>3, <1>4, <1>6, Zenon
<1>8. /\ state' \in [Readers -> {"new", "live", "dead"}]
      /\ \A q \in Readers : state'[q] = IF kind = "dropping" /\ q = r THEN "dead" ELSE state[q]
  BY <1>1, <1>2, <1>4, Zenon DEF Types
<1>9. StoreInv' /\ Slice(slice)' = Slice(slice)
  BY <1>1, <1>2, <1>7, StoreLoad, Zenon
<1>10. Types' /\ NoPanic' /\ LockInv'
  BY <1>1, <1>2, <1>7, <1>8, Zenon DEF Types, NoPanic, LockInv
<1>11. SliceInv'
  <2>0. /\ \A q \in Readers : state[q] # "new" => state'[q] # "new"
        /\ Live' = IF kind = "dropping" THEN Live \ {r} ELSE Live
    BY <1>8, Zenon DEF Live
  <2>1. Pending \subseteq Readers /\ Pending' \subseteq Pending /\ Range(Slice(slice)) \subseteq Readers
    BY <1>2, <1>3, <1>4, <1>5, <1>6, <1>7, MembersOf, SliceType, Zenon DEF Pending
  <2>2. ~raced => /\ Distinct(todo) /\ Distinct(left) /\ Range(todo) \cap Range(left) = {}
                  /\ r \notin Range(todo) /\ r \notin Range(write.left)
    BY <1>2, <1>4, <1>5, <1>6, Zenon DEF SliceInv
  <2>3. kind = "dropping" => ~raced /\ left = write.left
    <3>1. "blocking" # "dropping"
      BY Zenon
    <3> QED
      BY <1>2, <1>4, <1>6, <1>8, <3>1, Zenon DEF LockInv
  <2>4. kind = "dropping" => Live' = Pending'
    BY <1>1, <1>2, <1>4, <1>7, <2>0, <2>2, <2>3, Zenon DEF SliceInv, Pending
  <2>5. kind = "dropping" => Len(todo) + Len(left) <= slice.n
    <3>1. Len(write.todo) \in Nat /\ Len(write.left) \in Nat
      BY <1>3, LenProperties, Zenon
    <3>2. slice.n \in Nat
      BY <1>2, Zenon DEF StoreInv
    <3>3. \A x, y, z \in Nat : x + y <= z => (x - 1) + y <= z
      OBVIOUS
    <3> QED
      BY <1>1, <1>2, <1>4, <2>3, <3>1, <3>2, <3>3, Zenon DEF SliceInv
  <2>6. kind # "blocking" => Range(todo) \subseteq Live'
    BY <1>2, <1>4, <2>0, <2>2, <2>3, Zenon DEF SliceInv
  <2> QED
    BY <1>1, <1>2, <1>7, <1>9, <2>0, <2>1, <2>2, <2>4, <2>5, <2>6, Zenon DEF SliceInv
<1> QED
  BY <1>9, <1>10, <1>11, Zenon DEF ControlInv

LEMMA ControlEnd ==
  ASSUME ControlInv, EndWrite
  PROVE  ControlInv'
<1>1. /\ ~panic /\ write.pc = "send" /\ write.todo = <<>> /\ locked' = FALSE
      /\ UNCHANGED <<kind, raced, closed, state, open, panic>>
  BY Zenon DEF EndWrite
<1>2. StoreInv /\ Types /\ LockInv /\ SliceInv /\ NoPanic
  BY Zenon DEF ControlInv
<1>3. /\ write \in [pc : {"idle", "load", "send", "sleep"}, a : Nat \cup {None},
                    n : Nat \cup {None}, todo : Seq(Readers), left : Seq(Readers)]
      /\ write.left \in Seq(Readers)
  BY <1>2, Zenon DEF Types
<1>4. /\ write' \in [pc : {"idle", "load", "send", "sleep"}, a : Nat \cup {None},
                     n : Nat \cup {None}, todo : Seq(Readers), left : Seq(Readers)]
      /\ write'.a \in {write.a, None} /\ write'.n \in {write.n, None} /\ write'.todo = <<>>
      /\ \/ write'.pc = "sleep" /\ kind = "blocking" /\ write'.left = write.left
         \/ write'.pc = "idle" /\ write'.left = <<>>
  <2>1. CASE kind = "blocking" /\ write' = [write EXCEPT !.pc = "sleep"]
    BY <1>1, <1>3, <2>1, Zenon
  <2>2. CASE write' = NoWrite
    BY <2>2 DEF NoWrite
  <2> QED
    BY <2>1, <2>2, Zenon DEF EndWrite
<1>5. Live' = Live /\ Range(<<>>) = {} /\ Distinct(<<>>)
  BY <1>1, EmptyMembers, Zenon DEF Live
<1>6. Types' /\ NoPanic' /\ LockInv'
  BY <1>1, <1>2, <1>4, Zenon DEF Types, NoPanic, LockInv
<1>7. StoreInv' /\ Distinct(Slice(slice)') /\ Live = Range(Slice(slice)')
      /\ Range(Slice(slice)') \subseteq Range(Slice(slice)) \cup Range(write.left)
  <2>1. CASE kind # "dropping"
    <3>1. UNCHANGED <<arrays, slice>>
      BY <2>1, Zenon DEF EndWrite
    <3>2. StoreInv' /\ Slice(slice)' = Slice(slice)
      BY <1>1, <1>2, <1>4, <3>1, StoreLoad, Zenon
    <3> QED
      BY <1>2, <2>1, <3>2, Zenon DEF SliceInv
  <2>2. CASE kind = "dropping"
    <3>1. Live = Range(write.left) /\ Len(write.left) <= slice.n
      <4>1. Len(write.left) \in Nat /\ Len(<<>>) = 0 /\ \A x \in Nat : 0 + x = x
        BY <1>3
      <4> QED
        BY <1>1, <1>2, <1>5, <2>2, <4>1, Zenon DEF SliceInv, Pending
    <3>2. Distinct(write.left)
      <4>1. "blocking" # "dropping"
        BY Zenon
      <4> QED
        BY <1>2, <2>2, <4>1, Zenon DEF SliceInv, LockInv
    <3>3. /\ slice' = [slice EXCEPT !.n = Len(write.left)]
          /\ arrays' = IF slice.a = 0 THEN arrays
                       ELSE [arrays EXCEPT ![slice.a] = [i \in DOMAIN @ |->
                               IF i <= Len(write.left) THEN write.left[i] ELSE @[i]]]
      <4>1. CASE slice.a # 0
        BY <2>2, <4>1, Zenon DEF EndWrite
      <4>2. CASE slice.a = 0
        <5>1. UNCHANGED <<arrays, slice>>
          BY <4>2, Zenon DEF EndWrite
        <5>2. Len(<<>>) = 0 /\ Len(write.left) \in Nat /\ slice \in [a : Nat, n : Nat] /\ slice.n \in Nat
          BY <1>2, <1>3 DEF StoreInv
        <5>3. slice.n <= 0
          BY <1>2, <4>2, <5>2, Zenon DEF StoreInv, Array
        <5>4. \A x, y \in Nat : x <= y /\ y <= 0 => x = y
          OBVIOUS
        <5>5. Len(write.left) = slice.n
          BY <3>1, <5>2, <5>3, <5>4, Zenon
        <5>6. slice = [slice EXCEPT !.n = slice.n]
          BY <5>2, Zenon
        <5> QED
          BY <4>2, <5>1, <5>5, <5>6, Zenon
      <4> QED
        BY <4>1, <4>2, Zenon
    <3>4. StoreInv' /\ Slice(slice)' = write.left
      <4> DEFINE k == write.left
      <4>1. /\ k \in Seq(Readers) /\ Len(k) <= slice.n /\ slice' = [slice EXCEPT !.n = Len(k)]
            /\ arrays' = IF slice.a = 0 THEN arrays
                         ELSE [arrays EXCEPT ![slice.a] = [i \in DOMAIN @ |->
                                 IF i <= Len(k) THEN k[i] ELSE @[i]]]
        BY <1>3, <3>1, <3>3, Zenon
      <4> HIDE DEF k
      <4>2. StoreInv' /\ Slice(slice)' = k
        BY <1>1, <1>2, <1>4, <4>1, StoreCompact, Zenon
      <4> QED
        BY <4>2, Zenon DEF k
    <3> QED
      BY <3>1, <3>2, <3>4, Zenon
  <2> QED
    BY <2>1, <2>2, Zenon
<1>8. SliceInv'
  <2>1. \A r \in Range(Slice(slice)') : state[r] # "new"
    <3>1. "live" # "new"
      BY Zenon
    <3> QED
      BY <1>7, <3>1, Zenon DEF Live
  <2>2. /\ Pending' \subseteq Pending /\ Range(write'.todo) = {} /\ Distinct(write'.todo)
        /\ write'.left = write.left \/ write'.left = <<>>
    BY <1>4, <1>5, Zenon DEF Pending
  <2>3. write'.pc # "send"
    BY <1>4, Zenon
  <2> QED
    BY <1>1, <1>2, <1>5, <1>7, <2>1, <2>2, <2>3, Zenon DEF SliceInv
<1> QED
  BY <1>6, <1>7, <1>8, Zenon DEF ControlInv

\* What the steps of a reader leave alone.
controlVars == <<kind, arrays, slice, closed, state, open, write, locked, raced, panic>>

LEMMA ControlStep ==
  ASSUME ControlInv, [Next]_vars
  PROVE  ControlInv'
<1>1. ASSUME UNCHANGED controlVars PROVE ControlInv'
  <2>1. UNCHANGED <<kind, arrays, slice, closed, state, open, write, locked, raced, panic>>
    BY <1>1, Zenon DEF controlVars
  <2>2. \A a : Array(a)' = Array(a)
    BY <2>1, Zenon DEF Array
  <2>3. Slice(slice)' = Slice(slice)
    BY <2>1, <2>2, Zenon DEF Slice
  <2>4. StoreInv'
    BY <2>1, <2>2, Zenon DEF StoreInv, ControlInv
  <2> QED
    BY <2>1, <2>3, <2>4, Zenon DEF ControlInv, Types, LockInv, SliceInv, NoPanic, Live, Pending
<1>2. ASSUME NEW r \in Readers, Reader(r) \/ Read(r) PROVE UNCHANGED controlVars
  BY <1>2, Zenon DEF Reader, ReadCopy, ReadReturn, Read, controlVars
<1>3. ASSUME UNCHANGED vars PROVE UNCHANGED controlVars
  BY <1>3, Zenon DEF vars, controlVars
<1>4. ASSUME Writer PROVE ControlInv'
  BY <1>4, ControlLoad, ControlTry, ControlSend, ControlPass, ControlEnd, Zenon DEF Writer
<1>5. ASSUME NEW r \in Readers, Reader(r) \/ Client(r) PROVE ControlInv'
  BY <1>1, <1>2, <1>5, ControlAdd, ControlRemove, Zenon DEF Client
<1> QED
  BY <1>1, <1>3, <1>4, <1>5, ControlBegin, ControlClose, Zenon DEF Next

\* Send on a closed channel, and the index of a slice beyond its array, are out of the
\* question as long as the slice is not changed while BlockingStream.Write loads it:
\* the readers in the slice are the live ones, and it fits into its array.
THEOREM NoPanicAlways == Spec => []NoPanic
<1>1. ControlInv => NoPanic
  BY Zenon DEF ControlInv
<1>2. Init => ControlInv
  BY InitControl, Zenon
<1>3. ControlInv /\ [Next]_vars => ControlInv'
  BY ControlStep, Zenon
<1> QED
  BY <1>1, <1>2, <1>3, PTL DEF Spec

-------------------------------------------------------------------------------
(* Chunks and their bytes.                                                  *)

Byte == Nat \X Nat

LEMMA BytesType ==
  ASSUME NEW x \in Nat
  PROVE  /\ Bytes(x) \in Seq(Byte) /\ Len(Bytes(x)) = ChunkLen /\ ChunkLen \in Nat \ {0}
         /\ \A i \in 1..ChunkLen : Bytes(x)[i] = <<x, i>>
<1>1. ChunkLen \in Nat \ {0}
  BY StreamsAssumption, Zenon
<1>2. \A i \in 1..ChunkLen : <<x, i>> \in Byte
  BY <1>1 DEF Byte
<1>3. Bytes(x) \in [1..ChunkLen -> Byte] /\ \A i \in 1..ChunkLen : Bytes(x)[i] = <<x, i>>
  BY <1>2, Zenon DEF Bytes
<1> QED
  BY <1>1, <1>3, FunctionIsSeq, Zenon

\* The chunks are put together one after the other.
LEMMA FlatIs ==
  ASSUME NEW s \in Seq(Nat)
  PROVE  \E F : /\ Flat(s) = F[Len(s)] /\ F[0] = <<>>
                /\ \A i \in 1..Len(s) : F[i] = F[i - 1] \o Bytes(s[i])
                /\ \A i \in 0..Len(s) : F[i] \in Seq(Byte)
<1> DEFINE n == Len(s)
           Step(f, i) == IF i = 0 THEN <<>> ELSE f[i - 1] \o Bytes(s[i])
           Is(f, m) == f = [i \in 0..m |-> Step(f, i)]
<1>0. n \in Nat /\ \A i \in 1..n : s[i] \in Nat
  BY LenProperties, ElementOfSeq, Zenon
<1>1. Flat(s) = (CHOOSE f : Is(f, n))[n]
  BY Zenon DEF Flat
<1> HIDE DEF n
<1>2. \E f : Is(f, n)
  <2> DEFINE P == {m \in Nat : \E f : Is(f, m)}
  <2>1. 0 \in P
    <3> DEFINE f == [i \in 0..0 |-> <<>>]
    <3>1. \A i \in 0..0 : i = 0
      OBVIOUS
    <3>2. Is(f, 0)
      BY <3>1, Zenon
    <3> QED
      BY <3>2, Zenon
  <2>2. ASSUME NEW m \in 0..n, m # n, m \in P PROVE m + 1 \in P
    <3>1. PICK f : Is(f, m)
      BY <2>2, Zenon
    <3> DEFINE g == [i \in 0..(m + 1) |-> IF i = m + 1 THEN Step(f, m + 1) ELSE f[i]]
    <3>2. /\ \A i \in 0..(m + 1) : i = m + 1 \/ i \in 0..m
          /\ \A i \in 0..m : i # m + 1 /\ i \in 0..(m + 1)
          /\ \A i \in 0..(m + 1) : i # 0 => i - 1 \in 0..m
      OBVIOUS
    <3>3. \A i \in 0..m : g[i] = f[i]
      BY <3>2, Zenon
    <3>4. \A i \in 0..(m + 1) : Step(g, i) = Step(f, i)
      BY <3>2, <3>3, Zenon
    <3>5. \A i \in 0..m : f[i] = Step(f, i)
      BY <3>1, Zenon
    <3>6. \A i \in 0..(m + 1) : g[i] = Step(g, i)
      BY <3>2, <3>4, <3>5, Zenon
    <3>7. g = [i \in 0..(m + 1) |-> g[i]]
      BY Zenon
    <3> HIDE DEF g
    <3>8. Is(g, m + 1)
      BY <3>6, <3>7, Zenon
    <3> HIDE DEF Is
    <3>9. m + 1 \in Nat
      BY <1>0
    <3> QED
      BY <3>8, <3>9, Zenon
  <2> HIDE DEF P
  <2>3. n \in 0..n
    BY <1>0
  <2>4. n \in P
    BY <1>0, <2>1, <2>2, <2>3, Induction, Zenon
  <2> QED
    BY <2>4, Zenon DEF P
<1> DEFINE F == CHOOSE f : Is(f, n)
<1>3. Is(F, n)
  BY <1>2, Zenon
<1>4. \A i \in 0..n : F[i] = Step(F, i)
  <2> HIDE DEF F
  <2> QED
    BY <1>3, Zenon
<1> HIDE DEF F, Is
<1>5. 0 \in 0..n /\ \A i \in 1..n : i \in 0..n /\ i # 0
  BY <1>0
<1>6. F[0] = <<>> /\ \A i \in 1..n : F[i] = F[i - 1] \o Bytes(s[i])
  BY <1>4, <1>5, Zenon
<1>7. \A i \in 0..n : F[i] \in Seq(Byte)
  <2> DEFINE P == {i \in 0..n : F[i] \in Seq(Byte)}
  <2>1. 0 \in P
    <3>1. <<>> \in Seq(Byte)
      OBVIOUS
    <3> QED
      BY <1>5, <1>6, <3>1, Zenon
  <2>2. ASSUME NEW i \in 0..n, i # n, i \in P PROVE i + 1 \in P
    <3>1. i + 1 \in 1..n /\ (i + 1) - 1 = i
      BY <1>0, <2>2
    <3> DEFINE x == F[i]
               b == Bytes(s[i + 1])
    <3>2. F[i + 1] = x \o b /\ x \in Seq(Byte) /\ b \in Seq(Byte)
      BY <1>0, <1>6, <2>2, <3>1, BytesType, Zenon
    <3> HIDE DEF x, b
    <3>3. x \o b \in Seq(Byte)
      BY <3>2, ConcatProperties, Zenon
    <3> QED
      BY <1>5, <3>1, <3>2, <3>3, Zenon
  <2> HIDE DEF P
  <2>3. \A i \in 0..n : i \in P
    BY <1>0, <2>1, <2>2, Induction, Zenon
  <2> QED
    BY <2>3, Zenon DEF P
<1> QED
  BY <1>1, <1>6, <1>7, Zenon DEF n, F

LEMMA FlatEmpty == Flat(<<>>) = <<>>
<1>1. <<>> \in Seq(Nat) /\ Len(<<>>) = 0
  OBVIOUS
<1> QED
  BY <1>1, FlatIs, Zenon

LEMMA FlatType ==
  ASSUME NEW s \in Seq(Nat)
  PROVE  Flat(s) \in Seq(Byte)
<1>1. PICK F : Flat(s) = F[Len(s)] /\ \A i \in 0..Len(s) : F[i] \in Seq(Byte)
  BY FlatIs, Zenon
<1>2. Len(s) \in 0..Len(s)
  OBVIOUS
<1> QED
  BY <1>1, <1>2, Zenon

LEMMA FlatAppend ==
  ASSUME NEW s \in Seq(Nat), NEW x \in Nat
  PROVE  Flat(Append(s, x)) = Flat(s) \o Bytes(x)
<1> DEFINE n == Len(s)
           t == Append(s, x)
<1>1. /\ n \in Nat /\ t \in Seq(Nat) /\ Len(t) = n + 1
      /\ \A i \in 1..n : t[i] = s[i]
      /\ t[n + 1] = x
  BY AppendProperties
<1>2. PICK F : /\ Flat(s) = F[n] /\ F[0] = <<>>
               /\ \A i \in 1..n : F[i] = F[i - 1] \o Bytes(s[i])
  BY FlatIs, Zenon
<1> HIDE DEF t, n
<1>3. PICK G : /\ Flat(t) = G[n + 1] /\ G[0] = <<>>
               /\ \A i \in 1..(n + 1) : G[i] = G[i - 1] \o Bytes(t[i])
  <2>1. PICK G : /\ Flat(t) = G[Len(t)] /\ G[0] = <<>>
                 /\ \A i \in 1..Len(t) : G[i] = G[i - 1] \o Bytes(t[i])
    BY <1>1, FlatIs, Zenon
  <2> QED
    BY <1>1, <2>1, Zenon
<1>4. /\ \A i \in 0..n : i # n => i + 1 \in 1..n /\ i + 1 \in 1..(n + 1) /\ (i + 1) - 1 = i /\ i + 1 \in 0..n
      /\ n + 1 \in 1..(n + 1) /\ (n + 1) - 1 = n /\ n \in 0..n /\ 0 \in 0..n
  BY <1>1
<1>5. F[n] = G[n]
  <2> DEFINE P == {i \in 0..n : F[i] = G[i]}
  <2>1. 0 \in P
    BY <1>2, <1>3, <1>4, Zenon
  <2>2. ASSUME NEW i \in 0..n, i # n, i \in P PROVE i + 1 \in P
    <3>1. F[i + 1] = F[i] \o Bytes(s[i + 1]) /\ G[i + 1] = G[i] \o Bytes(s[i + 1])
      BY <1>1, <1>2, <1>3, <1>4, <2>2, Zenon
    <3> QED
      BY <1>4, <2>2, <3>1, Zenon
  <2> HIDE DEF P
  <2>3. n \in P
    BY <1>1, <1>4, <2>1, <2>2, Induction, Zenon
  <2> QED
    BY <2>3, Zenon DEF P
<1>6. Flat(t) = G[n] \o Bytes(x)
  BY <1>1, <1>3, <1>4, Zenon
<1> QED
  BY <1>2, <1>5, <1>6, Zenon DEF t

LEMMA FlatTail ==
  ASSUME NEW s \in Seq(Nat), s # <<>>
  PROVE  Flat(s) = Bytes(Head(s)) \o Flat(Tail(s))
<1> DEFINE n == Len(s) - 1
           t == Tail(s)
           b == Bytes(Head(s))
<1>1. /\ n \in Nat /\ Len(s) = n + 1 /\ t \in Seq(Nat) /\ Len(t) = n /\ Head(s) = s[1]
      /\ \A i \in 1..n : t[i] = s[i + 1]
      /\ \A i \in 1..(n + 1) : s[i] \in Nat
  BY ElementOfSeq
<1>2. PICK F : /\ Flat(s) = F[Len(s)] /\ F[0] = <<>>
               /\ \A i \in 1..Len(s) : F[i] = F[i - 1] \o Bytes(s[i])
  BY FlatIs, Zenon
<1> HIDE DEF t, n, b
<1>3. PICK G : /\ Flat(t) = G[Len(t)] /\ G[0] = <<>>
               /\ \A i \in 1..Len(t) : G[i] = G[i - 1] \o Bytes(t[i])
               /\ \A i \in 0..Len(t) : G[i] \in Seq(Byte)
  BY <1>1, FlatIs, Zenon
<1>4. /\ \A i \in 0..n : i # n => /\ i + 1 \in 1..n /\ i + 1 \in 0..n /\ (i + 1) - 1 = i
                                  /\ i + 1 + 1 \in 1..(n + 1) /\ (i + 1 + 1) - 1 = i + 1
      /\ n \in 0..n /\ 0 \in 0..n /\ 1 \in 1..(n + 1) /\ 1 - 1 = 0 /\ 0 + 1 = 1
  BY <1>1
<1>5. b \in Seq(Byte) /\ b = Bytes(s[1])
  BY <1>1, <1>4, BytesType, Zenon DEF b
<1>6. F[n + 1] = b \o G[n]
  <2> DEFINE P == {i \in 0..n : F[i + 1] = b \o G[i]}
  <2>1. 0 \in P
    <3>1. F[1] = <<>> \o b
      BY <1>1, <1>2, <1>4, <1>5, Zenon
    <3>2. <<>> \o b = b /\ b \o <<>> = b
      BY <1>5, ConcatEmptySeq, Zenon
    <3> QED
      BY <1>3, <1>4, <3>1, <3>2, Zenon
  <2>2. ASSUME NEW i \in 0..n, i # n, i \in P PROVE i + 1 \in P
    <3> DEFINE c == Bytes(s[i + 1 + 1])
               j == i + 1
    <3>1. F[j + 1] = F[j] \o c /\ F[j] = b \o G[i]
      BY <1>1, <1>2, <1>4, <2>2, Zenon
    <3>2. G[j] = G[i] \o c
      BY <1>1, <1>3, <1>4, <2>2, Zenon
    <3>3. c \in Seq(Byte) /\ G[i] \in Seq(Byte)
      BY <1>1, <1>3, <1>4, <2>2, BytesType, Zenon
    <3> HIDE DEF c
    <3>4. F[j] \o c = b \o G[j]
      <4> DEFINE x == G[i]
                 y == F[j]
                 z == G[j]
      <4>1. /\ b \in Seq(Byte) /\ x \in Seq(Byte) /\ c \in Seq(Byte)
            /\ y = b \o x /\ z = x \o c
        BY <1>5, <3>1, <3>2, <3>3, Zenon
      <4> HIDE DEF x, y, z
      <4>2. y \o c = b \o z
        BY <4>1, ConcatAssociative, SMTT(30)
      <4> QED
        BY <4>2, Zenon DEF y, z
    <3>5. F[j + 1] = b \o G[j]
      BY <3>1, <3>4, Zenon
    <3> QED
      BY <1>4, <2>2, <3>5, Zenon
  <2> HIDE DEF P
  <2>3. n \in P
    BY <1>1, <1>4, <2>1, <2>2, Induction, Zenon
  <2> QED
    BY <2>3, Zenon DEF P
<1> QED
  BY <1>1, <1>2, <1>3, <1>6, Zenon DEF t, b

\* Chunk b may come right after chunk a.
Rel(a, b) ==
  CASE raced                       -> b >= a
    [] ~raced /\ kind = "skipping" -> b > a
    [] OTHER                       -> b = a + 1

\* Byte y may come right after byte x.
Follows(x, y) ==
  IF x[2] < ChunkLen THEN y = <<x[1], x[2] + 1>> ELSE y[2] = 1 /\ Rel(x[1], y[1])

Ordered(s) == \A i \in 1..(Len(s) - 1) : Follows(s[i], s[i + 1])

LEMMA ConcatOrdered ==
  ASSUME NEW s \in Seq(Byte), NEW t \in Seq(Byte), Ordered(s), Ordered(t), t # <<>>,
         s # <<>> => Follows(s[Len(s)], t[1])
  PROVE  /\ Ordered(s \o t)
         /\ (s \o t)[1] = IF s = <<>> THEN t[1] ELSE s[1]
         /\ s \o t # <<>> /\ (s \o t)[Len(s \o t)] = t[Len(t)]
<1> DEFINE m == Len(s)
           n == Len(t)
           u == s \o t
<1>1. m \in Nat /\ n \in Nat \ {0} /\ (m = 0 <=> s = <<>>)
  OBVIOUS
<1>2. /\ u \in Seq(Byte) /\ Len(u) = m + n
      /\ \A i \in 1..(m + n) : u[i] = IF i <= m THEN s[i] ELSE t[i - m]
  BY ConcatProperties, Zenon
<1>3. u # <<>>
  <2> HIDE DEF u, m, n
  <2>1. Len(<<>>) = 0 /\ m + n # 0
    BY <1>1
  <2> QED
    BY <1>2, <2>1, Zenon
<1> HIDE DEF u, m, n
<1>4. /\ \A i \in 1..m : i \in 1..(m + n) /\ i <= m
      /\ \A i \in 1..n : i + m \in 1..(m + n) /\ ~(i + m <= m) /\ (i + m) - m = i
      /\ n + m = m + n /\ n \in 1..n /\ 1 \in 1..n /\ 1 + m = m + 1
      /\ m # 0 => 1 \in 1..m /\ m \in 1..m
  BY <1>1
<1>5. (\A i \in 1..m : u[i] = s[i]) /\ (\A i \in 1..n : u[i + m] = t[i])
  BY <1>2, <1>4, Zenon
<1>6. u[Len(u)] = t[n]
  BY <1>2, <1>4, <1>5, Zenon
<1>7. u[1] = IF s = <<>> THEN t[1] ELSE s[1]
  <2>1. CASE s = <<>>
    <3>1. 1 + m = 1
      BY <1>1, <2>1
    <3>2. u[1 + m] = t[1]
      BY <1>4, <1>5, Zenon
    <3> QED
      BY <2>1, <3>1, <3>2, Zenon
  <2>2. CASE s # <<>>
    BY <1>1, <1>4, <1>5, <2>2, Zenon
  <2> QED
    BY <2>1, <2>2, Zenon
<1>8. ASSUME NEW i \in 1..(Len(u) - 1) PROVE Follows(u[i], u[i + 1])
  <2>0. i \in 1..(m + n - 1)
    <3>1. Len(u) = m + n
      BY <1>2, Zenon
    <3> QED
      BY <1>1, <3>1
  <2>1. CASE i < m
    <3>1. i \in 1..m /\ i + 1 \in 1..m /\ i \in 1..(m - 1)
      BY <1>1, <2>0, <2>1
    <3> QED
      BY <1>5, <3>1, Zenon DEF Ordered, m
  <2>2. CASE i = m
    <3>1. m # 0
      BY <1>1, <2>0, <2>2
    <3> QED
      BY <1>1, <1>4, <1>5, <2>2, <3>1, Zenon DEF m
  <2>3. CASE i > m
    <3> DEFINE j == i - m
    <3>1. j \in 1..n /\ j + 1 \in 1..n /\ j \in 1..(n - 1) /\ j + m = i /\ (j + 1) + m = i + 1
      BY <1>1, <2>0, <2>3
    <3> HIDE DEF j
    <3>2. u[i] = t[j] /\ u[i + 1] = t[j + 1]
      BY <1>5, <3>1, Zenon
    <3> QED
      BY <3>1, <3>2, Zenon DEF Ordered, n
  <2> QED
    BY <1>1, <2>0, <2>1, <2>2, <2>3
<1> QED
  BY <1>3, <1>6, <1>7, <1>8, Zenon DEF Ordered, u, n

LEMMA BytesOrdered ==
  ASSUME NEW x \in Nat
  PROVE  /\ Ordered(Bytes(x)) /\ Bytes(x) # <<>>
         /\ Bytes(x)[1] = <<x, 1>> /\ Bytes(x)[Len(Bytes(x))] = <<x, ChunkLen>>
<1> DEFINE b == Bytes(x)
<1>1. /\ b \in Seq(Byte) /\ Len(b) = ChunkLen /\ ChunkLen \in Nat \ {0}
      /\ \A i \in 1..ChunkLen : b[i] = <<x, i>>
  BY BytesType, Zenon
<1> HIDE DEF b
<1>2. 1 \in 1..ChunkLen /\ ChunkLen \in 1..ChunkLen /\ Len(<<>>) = 0
  BY <1>1
<1>3. ASSUME NEW i \in 1..(Len(b) - 1) PROVE Follows(b[i], b[i + 1])
  <2>1. i \in 1..ChunkLen /\ i + 1 \in 1..ChunkLen /\ i < ChunkLen
    BY <1>1, <1>3
  <2>2. b[i] = <<x, i>> /\ b[i + 1] = <<x, i + 1>>
    BY <1>1, <2>1, Zenon
  <2>3. <<x, i>>[1] = x /\ <<x, i>>[2] = i
    BY Zenon
  <2> QED
    BY <2>1, <2>2, <2>3, Zenon DEF Follows
<1>4. b # <<>>
  BY <1>1, <1>2, Zenon
<1> QED
  BY <1>1, <1>2, <1>3, <1>4, Zenon DEF Ordered, b

\* Chunks in order are bytes in order.
LEMMA FlatOrdered ==
  ASSUME NEW s \in Seq(Nat), \A i \in 1..(Len(s) - 1) : Rel(s[i], s[i + 1])
  PROVE  /\ Ordered(Flat(s))
         /\ s # <<>> => /\ Flat(s) # <<>> /\ Flat(s)[1] = <<s[1], 1>>
                        /\ Flat(s)[Len(Flat(s))] = <<s[Len(s)], ChunkLen>>
<1> DEFINE n == Len(s)
<1>1. n \in Nat /\ (s # <<>> => n # 0) /\ \A i \in 1..n : s[i] \in Nat
  BY ElementOfSeq
<1>2. PICK F : /\ Flat(s) = F[n] /\ F[0] = <<>>
               /\ \A i \in 1..n : F[i] = F[i - 1] \o Bytes(s[i])
               /\ \A i \in 0..n : F[i] \in Seq(Byte)
  BY FlatIs, Zenon
<1> HIDE DEF n
<1> DEFINE P == {i \in 0..n : /\ Ordered(F[i]) /\ (F[i] = <<>> <=> i = 0)
                              /\ i # 0 => /\ F[i][1] = <<s[1], 1>>
                                          /\ F[i][Len(F[i])] = <<s[i], ChunkLen>>}
<1>3. 0 \in P
  <2>1. Ordered(<<>>)
    BY DEF Ordered
  <2>2. 0 \in 0..n
    BY <1>1
  <2> QED
    BY <1>2, <2>1, <2>2, Zenon
<1>4. ASSUME NEW i \in 0..n, i # n, i \in P PROVE i + 1 \in P
  <2> DEFINE u == F[i]
             x == s[i + 1]
             b == Bytes(x)
  <2>1. /\ i + 1 \in 1..n /\ i + 1 \in 0..n /\ i + 1 # 0 /\ (i + 1) - 1 = i
        /\ i # 0 => i \in 1..(n - 1) /\ i \in 1..n
        /\ i = 0 => i + 1 = 1
    BY <1>1, <1>4
  <2>2. /\ u \in Seq(Byte) /\ x \in Nat /\ F[i + 1] = u \o b
        /\ Ordered(u) /\ (u = <<>> <=> i = 0)
        /\ i # 0 => u[1] = <<s[1], 1>> /\ u[Len(u)] = <<s[i], ChunkLen>>
    BY <1>1, <1>2, <1>4, <2>1, Zenon
  <2>3. i # 0 => Rel(s[i], x)
    BY <2>1, Zenon DEF n
  <2> HIDE DEF u, x, b
  <2>4. b \in Seq(Byte) /\ ChunkLen \in Nat
    BY <2>2, BytesType, Zenon DEF b
  <2>5. Ordered(b) /\ b # <<>> /\ b[1] = <<x, 1>> /\ b[Len(b)] = <<x, ChunkLen>>
    BY <2>2, BytesOrdered, Zenon DEF b
  <2>6. u # <<>> => Follows(u[Len(u)], b[1])
    <3>1. /\ <<s[i], ChunkLen>>[2] = ChunkLen /\ <<s[i], ChunkLen>>[1] = s[i]
          /\ <<x, 1>>[1] = x /\ <<x, 1>>[2] = 1 /\ ~(ChunkLen < ChunkLen)
      BY <2>4
    <3> QED
      BY <2>2, <2>3, <2>5, <3>1, Zenon DEF Follows
  <2> DEFINE v == u \o b
  <2>7. /\ Ordered(v) /\ v # <<>> /\ v[1] = (IF u = <<>> THEN b[1] ELSE u[1])
        /\ v[Len(v)] = b[Len(b)]
    BY <2>2, <2>4, <2>5, <2>6, ConcatOrdered, Zenon
  <2> HIDE DEF v
  <2>8. v[1] = <<s[1], 1>>
    <3>1. CASE i = 0
      BY <2>1, <2>2, <2>5, <2>7, <3>1, Zenon DEF x
    <3>2. CASE i # 0
      BY <2>2, <2>7, <3>2, Zenon
    <3> QED
      BY <3>1, <3>2, Zenon
  <2>9. F[i + 1] = v /\ v[Len(v)] = <<s[i + 1], ChunkLen>>
    BY <2>2, <2>5, <2>7, Zenon DEF v, x
  <2> QED
    BY <2>1, <2>7, <2>8, <2>9, Zenon
<1> HIDE DEF P
<1>5. n \in 0..n
  BY <1>1
<1>6. n \in P
  BY <1>1, <1>3, <1>4, <1>5, Induction, Zenon
<1> QED
  BY <1>1, <1>2, <1>6, Zenon DEF P, n

-------------------------------------------------------------------------------
(* The inductive invariant of what the readers are sent.                    *)

DataTypes ==
  /\ chan \in [Readers -> Seq(Nat)] /\ room \in [Readers -> Nat]
  /\ unread \in [Readers -> Seq(Byte)] /\ got \in [Readers -> Seq(Byte)]
  /\ written \in Nat /\ since \in [Readers -> Nat]

\* c[r] are the chunks that reader r has been sent, in the order of the Writes.
Chunks(c) ==
  /\ c \in [Readers -> Seq(Nat)]
  /\ \A r \in Readers : Stream(r) = Flat(c[r])
  /\ \A r \in Readers : \A i \in 1..(Len(c[r]) - 1) : Rel(c[r][i], c[r][i + 1])

\* The readers to which Write has yet to send.
Owed == IF kind = "blocking" THEN Pending ELSE Range(write.todo)
Late(r) == write.pc = "load" \/ r \in Owed

\* The last chunk sent to reader r, or the last one before it was added.
Sent(c, r) == IF c[r] = <<>> THEN since[r] ELSE c[r][Len(c[r])]

\* Reader r has been sent everything since it was added, but what Write is about to
\* send.
Given(c, r) ==
  /\ state[r] = "new" => c[r] = <<>>
  /\ Sent(c, r) <= written
  /\ ~raced /\ kind # "skipping" =>
       /\ c[r] # <<>> => c[r][1] = since[r] + 1
       /\ state[r] = "live" => Sent(c, r) = IF Late(r) THEN written - 1 ELSE written
  /\ kind = "skipping" /\ r \in Range(write.todo) => Sent(c, r) < written

DataInv == DataTypes /\ \E c : Chunks(c) /\ \A r \in Readers : Given(c, r)

LEMMA InitData == Init => DataInv
<1> SUFFICES ASSUME Init PROVE DataInv
  BY Zenon
<1>1. /\ chan = [r \in Readers |-> <<>>] /\ unread = [r \in Readers |-> <<>>]
      /\ got = [r \in Readers |-> <<>>] /\ room = [r \in Readers |-> 0]
      /\ since = [r \in Readers |-> 0] /\ written = 0
      /\ write = [pc |-> "idle", a |-> None, n |-> None, todo |-> <<>>, left |-> <<>>]
      /\ state = [r \in Readers |-> "new"]
  BY Zenon DEF Init, NoWrite
<1>2. <<>> \in Seq(Nat) /\ <<>> \in Seq(Byte) /\ Len(<<>>) = 0 /\ 0 \in Nat /\ 0 <= 0
  OBVIOUS
<1>3. DataTypes
  BY <1>1, <1>2, Zenon DEF DataTypes
<1> DEFINE c == [r \in Readers |-> <<>>]
<1>4. Chunks(c)
  <2>1. \A r \in Readers : Stream(r) = <<>> \o <<>> \o <<>>
    <3>1. \A r \in Readers : got[r] = <<>> /\ unread[r] = <<>> /\ chan[r] = <<>>
      BY <1>1, Zenon
    <3> QED
      BY <3>1, FlatEmpty, Zenon DEF Stream
  <2>2. <<>> \o <<>> \o <<>> = <<>>
    BY <1>2, ConcatEmptySeq, Zenon
  <2>3. \A i : i \notin 1..(0 - 1)
    OBVIOUS
  <2> QED
    BY <1>2, <2>1, <2>2, <2>3, FlatEmpty, Zenon DEF Chunks
<1>5. ASSUME NEW r \in Readers PROVE Given(c, r)
  <2>1. c[r] = <<>> /\ since[r] = 0 /\ state[r] = "new" /\ "new" # "live"
    BY <1>1, Zenon
  <2>2. write.todo = <<>>
    BY <1>1, Zenon
  <2> QED
    BY <1>1, <1>2, <2>1, <2>2, EmptyMembers, Zenon DEF Given, Sent
<1> QED
  BY <1>3, <1>4, <1>5, Zenon DEF DataInv

LEMMA RelMonotone ==
  ASSUME NEW a \in Nat, NEW b \in Nat, raced \in BOOLEAN, raced' \in BOOLEAN,
         raced => raced', kind' = kind, Rel(a, b)
  PROVE  Rel(a, b)'
BY DEF Rel

LEMMA SameChunks ==
  ASSUME NEW c, Chunks(c), UNCHANGED <<chan, unread, got, kind>>,
         raced \in BOOLEAN, raced' \in BOOLEAN, raced => raced'
  PROVE  Chunks(c)'
<1>1. \A r \in Readers : Stream(r)' = Stream(r)
  BY Zenon DEF Stream
<1>2. ASSUME NEW r \in Readers, NEW i \in 1..(Len(c[r]) - 1) PROVE Rel(c[r][i], c[r][i + 1])'
  <2>1. c[r] \in Seq(Nat)
    BY Zenon DEF Chunks
  <2>2. c[r][i] \in Nat /\ c[r][i + 1] \in Nat
    <3> DEFINE s == c[r]
    <3>1. s \in Seq(Nat) /\ i \in 1..(Len(s) - 1)
      BY <1>2, <2>1, Zenon
    <3> HIDE DEF s
    <3>2. i \in 1..Len(s) /\ i + 1 \in 1..Len(s)
      BY <3>1
    <3>3. s[i] \in Nat /\ s[i + 1] \in Nat
      BY <3>1, <3>2, ElementOfSeq, Zenon
    <3> QED
      BY <3>3, Zenon DEF s
  <2>3. Rel(c[r][i], c[r][i + 1])
    BY <1>2, Zenon DEF Chunks
  <2> QED
    BY <2>2, <2>3, RelMonotone, Zenon
<1> QED
  BY <1>1, <1>2, Zenon DEF Chunks

LEMMA GivenAdd ==
  ASSUME ControlInv, DataTypes, NEW c, NEW r \in Readers, AddReadWriter(r),
         \A q \in Readers : Given(c, q)
  PROVE  \A q \in Readers : Given(c, q)'
<1>1. /\ ~locked /\ raced' = (raced \/ write.pc = "load") /\ state[r] = "new"
      /\ since' = [since EXCEPT ![r] = written] /\ UNCHANGED <<kind, write, written>>
  BY Zenon DEF AddReadWriter, ChangeSlice, Lock
<1>2. Types /\ LockInv /\ SliceInv
  BY Zenon DEF ControlInv
<1>3. /\ \A q \in Readers : q # r => state'[q] = state[q] /\ since'[q] = since[q]
      /\ since'[r] = written /\ state'[r] # "new"
  BY <1>1, <1>2, Zenon DEF DataTypes, Types, AddReadWriter
<1>4. (\A q : Late(q)' <=> Late(q)) /\ (~raced' => ~raced /\ ~Late(r))
  <2>1. ~raced => r \notin Pending
    BY <1>1, <1>2, Zenon DEF SliceInv
  <2> QED
    BY <1>1, <2>1, Zenon DEF Late, Owed, Pending
<1>5. kind = "skipping" => Range(write.todo) = {}
  <2>1. "skipping" # "blocking"
    BY Zenon
  <2> QED
    BY <1>1, <1>2, <2>1, EmptyMembers, Zenon DEF LockInv, Types
<1>6. written <= written
  BY DEF DataTypes
<1>7. Given(c, r)'
  <2>1. c[r] = <<>> /\ Sent(c, r)' = written
    BY <1>1, <1>3, Zenon DEF Given, Sent
  <2> QED
    BY <1>1, <1>3, <1>4, <1>5, <1>6, <2>1, Zenon DEF Given
<1>8. ASSUME NEW q \in Readers, q # r PROVE Given(c, q)'
  <2>1. Sent(c, q)' = Sent(c, q)
    BY <1>3, <1>8, Zenon DEF Sent
  <2> QED
    BY <1>1, <1>3, <1>4, <1>5, <1>8, <2>1, Zenon DEF Given
<1> QED
  BY <1>7, <1>8, Zenon

LEMMA GivenBegin ==
  ASSUME ControlInv, ControlInv', DataTypes, NEW c, BeginWrite, \A r \in Readers : Given(c, r),
         c \in [Readers -> Seq(Nat)]
  PROVE  \A r \in Readers : Given(c, r)'
<1> SUFFICES ASSUME NEW r \in Readers PROVE Given(c, r)'
  BY Zenon
<1>1. write.pc = "idle" /\ written' = written + 1 /\ UNCHANGED <<kind, raced, slice, state, since>>
  BY Zenon DEF BeginWrite
<1>2. Types /\ LockInv /\ SliceInv /\ SliceInv' /\ Types'
  BY Zenon DEF ControlInv
<1>3. ~Late(r)
  <2>1. "idle" # "load"
    BY Zenon
  <2> QED
    BY <1>1, <1>2, <2>1, EmptyMembers, Zenon DEF Late, Owed, Pending, LockInv
<1>4. IF kind = "blocking" THEN write'.pc = "load" ELSE write'.pc = "send" /\ write'.left = <<>>
  BY Zenon DEF BeginWrite, NoWrite
<1>5. kind # "skipping" /\ state[r] = "live" => Late(r)'
  <2>1. CASE kind = "blocking"
    BY <1>4, <2>1, Zenon DEF Late
  <2>2. CASE kind = "dropping"
    <3>1. "dropping" # "blocking"
      BY Zenon
    <3>2. Live' = Range(write'.todo)
      BY <1>1, <1>2, <1>4, <2>2, <3>1, EmptyMembers, Zenon DEF SliceInv, Pending
    <3> QED
      BY <1>1, <2>2, <3>1, <3>2, Zenon DEF Late, Owed, Live
  <2> QED
    BY <1>2, <2>1, <2>2, Zenon DEF Types
<1> DEFINE s == Sent(c, r)
<1>6. s \in Nat /\ s <= written /\ written \in Nat
  <2>1. since[r] \in Nat /\ written \in Nat
    BY Zenon DEF DataTypes
  <2>2. c[r] \in Seq(Nat)
    BY Zenon
  <2>3. c[r] # <<>> => c[r][Len(c[r])] \in Nat
    <3> DEFINE t == c[r]
    <3>1. t \in Seq(Nat)
      BY <2>2, Zenon
    <3> HIDE DEF t
    <3>2. t # <<>> => Len(t) \in 1..Len(t)
      BY <3>1
    <3>3. t # <<>> => t[Len(t)] \in Nat
      BY <3>1, <3>2, ElementOfSeq, Zenon
    <3> QED
      BY <3>3, Zenon DEF t
  <2> QED
    BY <2>1, <2>3, Zenon DEF Given, Sent
<1>7. Sent(c, r)' = s
  BY <1>1, Zenon DEF Sent
<1> HIDE DEF s
<1>8. s <= written' /\ s < written' /\ written' - 1 = written
  BY <1>1, <1>6
<1>9. ~raced /\ kind # "skipping" /\ state[r] = "live" => s = written
  BY <1>3, Zenon DEF Given, s
<1> QED
  BY <1>1, <1>5, <1>7, <1>8, <1>9, Zenon DEF Given

\* Readers may be closed at any time; what Write owes to the others does not change.
LEMMA GivenSame ==
  ASSUME NEW c, \A r \in Readers : Given(c, r), raced => raced',
         UNCHANGED <<kind, written, since>>,
         \A r \in Readers : state'[r] \in {state[r], "dead"},
         ~raced' /\ kind # "skipping" =>
           \A r \in Readers : state'[r] = "live" => (Late(r)' <=> Late(r)),
         kind = "skipping" => Range(write'.todo) \subseteq Range(write.todo)
  PROVE  \A r \in Readers : Given(c, r)'
<1> SUFFICES ASSUME NEW r \in Readers PROVE Given(c, r)'
  BY Zenon
<1>1. Sent(c, r)' = Sent(c, r)
  BY Zenon DEF Sent
<1>2. "dead" # "live" /\ "dead" # "new"
  BY Zenon
<1> QED
  BY <1>1, <1>2, Zenon DEF Given

LEMMA GivenTry ==
  ASSUME ControlInv, NEW c, TryWrite, \A r \in Readers : Given(c, r)
  PROVE  \A r \in Readers : Given(c, r)'
<1>1. write.pc \in {"load", "sleep"} /\ UNCHANGED <<kind, raced, state, written, since>>
  BY Zenon DEF TryWrite
<1>2. StoreInv /\ Types /\ LockInv /\ SliceInv
  BY Zenon DEF ControlInv
<1>3. /\ write \in [pc : {"idle", "load", "send", "sleep"}, a : Nat \cup {None},
                    n : Nat \cup {None}, todo : Seq(Readers), left : Seq(Readers)]
      /\ kind = "blocking" /\ "blocking" # "skipping" /\ "blocking" # "dropping"
  BY <1>1, <1>2, Zenon DEF Types, LockInv
<1>4. ASSUME ~raced, NEW r \in Readers, state[r] = "live" PROVE Late(r)' <=> Late(r)
  <2>1. CASE /\ write.pc = "load" /\ None \notin {write.a, write.n}
             /\ panic' = (write.n > Len(Array(write.a)))
             /\ write' = [write EXCEPT !.pc = "send", !.todo = IF panic' THEN <<>> ELSE Slice(write)]
    <3>1. ~panic' /\ Slice(write) = Slice(slice)
      BY <1>2, <1>4, <2>1, LoadedRight, Zenon
    <3>2. write' = [write EXCEPT !.pc = "send", !.todo = Slice(slice)]
      BY <2>1, <3>1, Zenon
    <3>3. write'.todo = Slice(slice)
      BY <1>3, <3>2, Zenon
    <3>4. r \in Range(Slice(slice))
      BY <1>2, <1>3, <1>4, Zenon DEF SliceInv, Live
    <3> QED
      BY <1>1, <1>3, <2>1, <3>3, <3>4, Zenon DEF Late, Owed, Pending
  <2>2. CASE /\ write.pc = "sleep"
             /\ write' = [write EXCEPT !.pc = "send", !.todo = write.left, !.left = <<>>]
    <3>1. /\ write'.pc = "send" /\ write'.todo = write.left /\ write'.left = <<>>
          /\ write'.pc # "load" /\ write.pc # "load"
      BY <1>3, <2>2, Zenon
    <3>2. write.todo = <<>>
      BY <1>2, <2>2, Zenon DEF LockInv
    <3> QED
      BY <1>1, <1>3, <3>1, <3>2, EmptyMembers, Zenon DEF Late, Owed, Pending
  <2> QED
    BY <2>1, <2>2, Zenon DEF TryWrite
<1> QED
  BY <1>1, <1>3, <1>4, GivenSame, Zenon

LEMMA GivenPass ==
  ASSUME ControlInv, NEW c, PassOver, \A r \in Readers : Given(c, r)
  PROVE  \A r \in Readers : Given(c, r)'
<1> DEFINE h    == Head(write.todo)
           todo == Tail(write.todo)
           left == IF state'[h] = "dead" THEN write.left ELSE Append(write.left, h)
<1>1. /\ write.pc = "send" /\ write.todo # <<>>
      /\ state' = IF kind = "dropping" THEN [state EXCEPT ![h] = "dead"] ELSE state
      /\ write' = [write EXCEPT !.todo = todo, !.left = left]
      /\ UNCHANGED <<kind, raced, written, since>>
  BY Zenon DEF PassOver
<1>2. Types /\ SliceInv
  BY Zenon DEF ControlInv
<1>3. /\ write \in [pc : {"idle", "load", "send", "sleep"}, a : Nat \cup {None},
                    n : Nat \cup {None}, todo : Seq(Readers), left : Seq(Readers)]
      /\ write.todo \in Seq(Readers) /\ write.left \in Seq(Readers)
  BY <1>2, Zenon DEF Types
<1>4. h \in Readers /\ Range(write.todo) = {h} \cup Range(todo)
  BY <1>1, <1>3, TailMembers, Zenon
<1> HIDE DEF h, todo
<1>5. Range(Append(write.left, h)) = Range(write.left) \cup {h}
  <2> DEFINE l == write.left
  <2>1. l \in Seq(Readers)
    BY <1>3, Zenon
  <2> HIDE DEF l
  <2> DEFINE m == Append(l, h)
  <2>2. /\ m \in Seq(Readers) /\ Len(m) = Len(l) + 1 /\ m # <<>>
        /\ Range(m) = Range(l) \cup {h}
        /\ Distinct(l) /\ h \notin Range(l) => Distinct(m)
    BY <1>4, <2>1, AppendMembers, Zenon
  <2> QED
    BY <2>2, Zenon DEF l
<1>6. Range(left) = IF state'[h] = "dead" THEN Range(write.left) ELSE Range(write.left) \cup {h}
  BY <1>5, Zenon
<1> HIDE DEF left
<1>7. write'.pc = "send" /\ write'.todo = todo /\ write'.left = left /\ "send" # "load"
  BY <1>1, <1>3, Zenon
<1>8. /\ \A r \in Readers : state'[r] \in {state[r], "dead"}
      /\ kind = "dropping" => state'[h] = "dead"
      /\ "dead" # "live"
  BY <1>1, <1>2, <1>4, Zenon DEF Types
<1>9. ASSUME kind # "skipping", NEW r \in Readers, state'[r] = "live" PROVE Late(r)' <=> Late(r)
  <2>1. CASE kind = "blocking"
    BY <1>1, <1>4, <1>6, <1>7, <1>8, <1>9, <2>1, Zenon DEF Late, Owed, Pending
  <2>2. CASE kind = "dropping"
    <3>1. "dropping" # "blocking"
      BY Zenon
    <3>2. r # h
      BY <1>8, <1>9, <2>2, Zenon
    <3> QED
      BY <1>1, <1>4, <1>7, <2>2, <3>1, <3>2, Zenon DEF Late, Owed
  <2> QED
    BY <1>2, <1>9, <2>1, <2>2, Zenon DEF Types
<1>10. Range(write'.todo) \subseteq Range(write.todo)
  BY <1>4, <1>7, Zenon
<1> QED
  BY <1>1, <1>8, <1>9, <1>10, GivenSame, Zenon

LEMMA GivenEnd ==
  ASSUME ControlInv, NEW c, EndWrite, \A r \in Readers : Given(c, r)
  PROVE  \A r \in Readers : Given(c, r)'
<1>1. /\ write.pc = "send" /\ write.todo = <<>> /\ UNCHANGED <<kind, raced, state, written, since>>
  BY Zenon DEF EndWrite
<1>2. write \in [pc : {"idle", "load", "send", "sleep"}, a : Nat \cup {None},
                 n : Nat \cup {None}, todo : Seq(Readers), left : Seq(Readers)]
  BY Zenon DEF ControlInv, Types
<1>3. /\ write'.todo = <<>> /\ write'.pc # "load" /\ write.pc # "load"
      /\ kind = "blocking" => write'.left = write.left
  <2>1. CASE kind = "blocking" /\ write.left # <<>> /\ write' = [write EXCEPT !.pc = "sleep"]
    BY <1>1, <1>2, <2>1, Zenon
  <2>2. CASE (kind = "blocking" => write.left = <<>>) /\ write' = NoWrite
    BY <1>1, <2>2, Zenon DEF NoWrite
  <2> QED
    BY <2>1, <2>2, Zenon DEF EndWrite
<1>4. \A r : Late(r)' <=> Late(r)
  BY <1>1, <1>3, Zenon DEF Late, Owed, Pending
<1> QED
  BY <1>1, <1>3, <1>4, GivenSame, Zenon

LEMMA LastType ==
  ASSUME NEW s \in Seq(Nat), s # <<>>
  PROVE  s[Len(s)] \in Nat /\ s[1] \in Nat
<1>1. Len(s) \in 1..Len(s) /\ 1 \in 1..Len(s)
  OBVIOUS
<1> QED
  BY <1>1, ElementOfSeq, Zenon

\* A send adds a chunk to what the reader was sent.
LEMMA SendStep ==
  ASSUME ControlInv, DataTypes, NEW c, SendChunk, Chunks(c), \A r \in Readers : Given(c, r)
  PROVE  \E d : Chunks(d)' /\ \A r \in Readers : Given(d, r)'
<1>01. PICK h : h = Head(write.todo)
  BY Zenon
<1>02. PICK t : t = Append(c[h], written)
  BY Zenon
<1>03. PICK d : d = [c EXCEPT ![h] = t]
  BY Zenon
<1> DEFINE todo == Tail(write.todo)
           left == IF kind = "blocking" THEN write.left ELSE Append(write.left, h)
<1>1. /\ write.pc = "send" /\ write.todo # <<>>
      /\ kind = "blocking" => state[h] = "live"
      /\ chan' = [chan EXCEPT ![h] = Append(@, written)]
      /\ write' = [write EXCEPT !.todo = todo, !.left = left]
      /\ UNCHANGED <<kind, raced, state, unread, got, written, since>>
  BY <1>01, Zenon DEF SendChunk, readVars
<1>2. Types /\ LockInv /\ SliceInv
  BY Zenon DEF ControlInv
<1>3. /\ write \in [pc : {"idle", "load", "send", "sleep"}, a : Nat \cup {None},
                    n : Nat \cup {None}, todo : Seq(Readers), left : Seq(Readers)]
      /\ write.todo \in Seq(Readers) /\ raced \in BOOLEAN
  BY <1>2, Zenon DEF Types
<1>4. /\ h \in Readers /\ Range(write.todo) = {h} \cup Range(todo)
      /\ Distinct(write.todo) => h \notin Range(todo)
  BY <1>01, <1>1, <1>3, TailMembers, Zenon
<1>5. /\ write'.pc = "send" /\ write'.todo = todo /\ "send" # "load"
      /\ kind = "blocking" => write'.left = write.left
  <2> HIDE DEF todo
  <2> QED
    BY <1>1, <1>3, Zenon
<1> HIDE DEF todo, left
<1>6. c \in [Readers -> Seq(Nat)] /\ written \in Nat /\ since \in [Readers -> Nat]
  BY Zenon DEF Chunks, DataTypes
<1> DEFINE s == c[h]
           n == Len(s)
<1>7. s \in Seq(Nat) /\ n \in Nat /\ (s = <<>> <=> n = 0) /\ since[h] \in Nat
  <2>1. s \in Seq(Nat) /\ since[h] \in Nat
    BY <1>4, <1>6, Zenon
  <2> HIDE DEF s
  <2> QED
    BY <2>1
<1>8. t \in Seq(Nat) /\ t # <<>> /\ Len(t) = n + 1 /\ (\A i \in 1..n : t[i] = s[i]) /\ t[n + 1] = written
  <2> HIDE DEF s
  <2> QED
    BY <1>02, <1>6, <1>7, AppendProperties DEF s
<1>9. /\ d \in [Readers -> Seq(Nat)] /\ d[h] = t
      /\ \A r \in Readers : r # h => d[r] = c[r]
  BY <1>03, <1>4, <1>6, <1>8, Zenon
<1> HIDE DEF s, n
\* The last chunk is an earlier one.
<1>10. /\ Sent(c, h) <= written /\ Sent(c, h) \in Nat
       /\ kind = "skipping" => Sent(c, h) < written
       /\ ~raced /\ kind # "skipping" => Sent(c, h) = written - 1
       /\ kind = "skipping" => ~raced
  <2>1. Sent(c, h) \in Nat
    BY <1>7, LastType, Zenon DEF Sent, s
  <2>2. kind # "skipping" => state[h] = "live"
    BY <1>1, <1>2, <1>4, Zenon DEF SliceInv, Live
  <2>3. Late(h)
    BY <1>4, Zenon DEF Late, Owed, Pending
  <2>4. kind = "skipping" => ~raced
    <3>1. "skipping" # "blocking"
      BY Zenon
    <3> QED
      BY <1>2, <3>1, Zenon DEF LockInv
  <2> QED
    BY <1>4, <2>1, <2>2, <2>3, <2>4, Zenon DEF Given
<1>11. Chunks(d)'
  <2>1. ASSUME NEW r \in Readers PROVE Stream(r)' = Flat(d[r])
    <3>1. CASE r = h
      <4> DEFINE x == got[h] \o unread[h]
                 y == Flat(chan[h])
                 z == Bytes(written)
                 v == chan[h]
      <4>1. got[h] \in Seq(Byte) /\ unread[h] \in Seq(Byte) /\ v \in Seq(Nat)
        BY <1>4, Zenon DEF DataTypes
      <4>2. x \in Seq(Byte) /\ y \in Seq(Byte) /\ z \in Seq(Byte)
        <5>1. x \in Seq(Byte)
          BY <4>1, ConcatProperties, Zenon
        <5> QED
          BY <1>6, <4>1, <5>1, FlatType, BytesType, Zenon
      <4>3. chan'[h] = Append(v, written)
        BY <1>1, <1>4, Zenon DEF DataTypes
      <4> HIDE DEF v
      <4>4. Flat(Append(v, written)) = Flat(v) \o z
        BY <1>6, <4>1, FlatAppend, Zenon
      <4>5. Stream(h)' = x \o Flat(chan'[h]) /\ Flat(chan'[h]) = y \o z
        <5>1. Stream(h)' = (got'[h] \o unread'[h]) \o Flat(chan'[h])
          BY Zenon DEF Stream
        <5>2. Flat(chan'[h]) = y \o z
          BY <4>3, <4>4, Zenon DEF v
        <5> QED
          BY <1>1, <5>1, <5>2, Zenon
      <4>6. Flat(t) = Flat(s) \o z
        BY <1>02, <1>6, <1>7, FlatAppend, Zenon DEF s
      <4>7. Flat(s) = x \o y
        BY <1>4, Zenon DEF Chunks, Stream, s
      <4> DEFINE p == Flat(s)
                 q == Flat(chan'[h])
      <4>8. p \o z = x \o q
        <5>1. p = x \o y /\ q = y \o z
          BY <4>5, <4>7, Zenon
        <5> HIDE DEF x, y, z, p, q
        <5> QED
          BY <4>2, <5>1, SMTT(30)
      <4>9. Stream(h)' = x \o q /\ Flat(t) = p \o z
        BY <4>5, <4>6, Zenon
      <4> HIDE DEF x, y, z, p, q
      <4>10. Stream(h)' = Flat(t)
        BY <4>8, <4>9, Zenon
      <4> QED
        BY <1>9, <3>1, <4>10, Zenon
    <3>2. CASE r # h
      <4>1. chan'[r] = chan[r]
        BY <1>1, <1>4, <3>2, Zenon DEF DataTypes
      <4>2. /\ Stream(r)' = (got'[r] \o unread'[r]) \o Flat(chan'[r])
            /\ Stream(r) = (got[r] \o unread[r]) \o Flat(chan[r])
        BY Zenon DEF Stream
      <4>3. Stream(r)' = Stream(r)
        BY <1>1, <4>1, <4>2, Zenon
      <4> QED
        BY <1>9, <3>2, <4>3, Zenon DEF Chunks
    <3> QED
      BY <3>1, <3>2, Zenon
  <2>2. ASSUME NEW r \in Readers, NEW i \in 1..(Len(d[r]) - 1) PROVE Rel(d[r][i], d[r][i + 1])'
    <3>1. CASE r = h
      <4>0. d[r] = t /\ i \in 1..n
        <5>1. d[r] = t /\ i \in 1..(Len(t) - 1)
          BY <1>9, <2>2, <3>1, Zenon
        <5>2. Len(t) = n + 1 /\ n \in Nat
          BY <1>7, <1>8, Zenon
        <5>3. i \in 1..n
          BY <5>1, <5>2
        <5> QED
          BY <5>1, <5>3, Zenon
      <4>1. CASE i = n
        <5>0. n # 0 /\ n \in 1..n
          BY <4>0, <4>1
        <5>1. t[i] = Sent(c, h) /\ t[i + 1] = written
          BY <1>7, <1>8, <4>1, <5>0, Zenon DEF Sent, s, n
        <5>2. Rel(t[i], t[i + 1])'
          <6> DEFINE x == t[i]
                     y == t[i + 1]
          <6>1. /\ x \in Nat /\ y \in Nat /\ x <= y /\ raced' \in BOOLEAN
                /\ kind' = "skipping" => x < y /\ ~raced'
                /\ ~raced' /\ kind' # "skipping" => x = y - 1
            BY <1>1, <1>3, <1>6, <1>10, <5>1, Zenon
          <6> HIDE DEF x, y
          <6>2. Rel(x, y)'
            BY <6>1 DEF Rel
          <6> QED
            BY <6>2, Zenon DEF x, y
        <5> QED
          BY <4>0, <5>1, <5>2, Zenon
      <4>2. CASE i # n
        <5>1. i \in 1..(n - 1) /\ i + 1 \in 1..n
          BY <1>7, <4>0, <4>2
        <5>2. Rel(s[i], s[i + 1])
          BY <1>4, <5>1, Zenon DEF Chunks, s, n
        <5> QED
          BY <1>1, <1>8, <4>0, <5>1, <5>2, Zenon DEF Rel
      <4> QED
        BY <4>1, <4>2, Zenon
    <3>2. CASE r # h
      BY <1>1, <1>9, <2>2, <3>2, Zenon DEF Chunks, Rel
    <3> QED
      BY <3>1, <3>2, Zenon
  <2> QED
    BY <1>9, <2>1, <2>2, Zenon DEF Chunks
<1>12. Given(d, h)'
  <2>1. Sent(d, h)' = written
    BY <1>8, <1>9, Zenon DEF Sent
  <2>2. written <= written
    BY <1>6
  <2>3. ~raced => h \notin Range(todo) /\ (kind = "blocking" => h \notin Range(write.left))
    BY <1>2, <1>4, Zenon DEF SliceInv
  <2>4. ~raced => ~Late(h)'
    BY <1>1, <1>5, <2>3, Zenon DEF Late, Owed, Pending
  <2>5. state[h] # "new"
    BY <1>1, <1>2, <1>4, Zenon DEF SliceInv, Live
  <2>6. ~raced /\ kind # "skipping" => t[1] = since[h] + 1
    <3>1. CASE s = <<>>
      <4>1. n + 1 = 1 /\ Sent(c, h) = since[h]
        BY <1>7, <3>1 DEF Sent, s
      <4>2. \A x \in Nat : \A y \in Nat : x = y - 1 => y = x + 1
        OBVIOUS
      <4> QED
        BY <1>6, <1>7, <1>8, <1>10, <4>1, <4>2, Zenon
    <3>2. CASE s # <<>>
      <4>1. 1 \in 1..n
        BY <1>7, <3>2
      <4> QED
        BY <1>4, <1>8, <3>2, <4>1, Zenon DEF Given, s
    <3> QED
      BY <3>1, <3>2, Zenon
  <2> QED
    BY <1>1, <1>5, <1>8, <1>9, <1>10, <2>1, <2>2, <2>3, <2>4, <2>5, <2>6, Zenon DEF Given
<1>13. ASSUME NEW r \in Readers, r # h PROVE Given(d, r)'
  <2>1. Sent(d, r)' = Sent(c, r) /\ d[r] = c[r]
    BY <1>1, <1>9, <1>13, Zenon DEF Sent
  <2>2. Late(r)' <=> Late(r)
    BY <1>1, <1>4, <1>5, <1>13, Zenon DEF Late, Owed, Pending
  <2> QED
    BY <1>1, <1>4, <1>5, <2>1, <2>2, Zenon DEF Given
<1> QED
  BY <1>11, <1>12, <1>13, Zenon

\* Cutting a sequence in two.
LEMMA Cut ==
  ASSUME NEW s \in Seq(Byte), NEW n \in 0..Len(s)
  PROVE  /\ SubSeq(s, 1, n) \in Seq(Byte) /\ SubSeq(s, n + 1, Len(s)) \in Seq(Byte)
         /\ SubSeq(s, 1, n) \o SubSeq(s, n + 1, Len(s)) = s
<1> DEFINE m == Len(s)
<1>1. /\ m \in Nat /\ 1 \in 1..(m + 1) /\ n \in (1 - 1)..m /\ m \in n..m
      /\ 1 \in Int /\ n \in Int /\ m \in Int /\ n + 1 \in Int
      /\ \A i \in 1..n : i \in 1..m
      /\ \A i \in (n + 1)..m : i \in 1..m
  OBVIOUS
<1>2. \A i \in 1..m : s[i] \in Byte
  BY ElementOfSeq, Zenon
<1>3. SubSeq(s, 1, n) \in Seq(Byte)
  BY <1>1, <1>2, SubSeqProperties, Zenon
<1>4. SubSeq(s, n + 1, m) \in Seq(Byte)
  BY <1>1, <1>2, SubSeqProperties, Zenon
<1>5. SubSeq(s, 1, n) \o SubSeq(s, n + 1, m) = SubSeq(s, 1, m)
  BY <1>1, ConcatAdjacentSubSeq, Zenon
<1>6. SubSeq(s, 1, m) = s
  BY SubSeqFull, Zenon
<1> QED
  BY <1>3, <1>4, <1>5, <1>6, Zenon

\* Read moves bytes on their way to the client.
LEMMA CopyStep ==
  ASSUME DataTypes, NEW r \in Readers, ReadCopy(r)
  PROVE  DataTypes' /\ \A p \in Readers : Stream(p)' = Stream(p)
<1> DEFINE u  == unread[r]
           v  == chan[r]
           g  == got[r]
           bs == IF u = <<>> THEN Bytes(Head(v)) ELSE u
           n  == IF Len(bs) < room[r] THEN Len(bs) ELSE room[r]
           x  == SubSeq(bs, 1, n)
           y  == SubSeq(bs, n + 1, Len(bs))
           w  == IF u = <<>> THEN Tail(v) ELSE v
<1>1. /\ u # <<>> \/ v # <<>>
      /\ chan' = [chan EXCEPT ![r] = w]
      /\ unread' = [unread EXCEPT ![r] = y]
      /\ got' = [got EXCEPT ![r] = g \o x]
      /\ room' = [room EXCEPT ![r] = room[r] - n]
      /\ UNCHANGED <<written, since>>
  BY Zenon DEF ReadCopy
<1>2. u \in Seq(Byte) /\ v \in Seq(Nat) /\ g \in Seq(Byte) /\ room[r] \in Nat
  BY Zenon DEF DataTypes
<1>3. v # <<>> => /\ Tail(v) \in Seq(Nat) /\ Head(v) \in Nat
                  /\ Flat(v) = Bytes(Head(v)) \o Flat(Tail(v))
  <2> HIDE DEF v
  <2>1. v # <<>> => Flat(v) = Bytes(Head(v)) \o Flat(Tail(v))
    BY <1>2, FlatTail, Zenon
  <2>2. v # <<>> => Tail(v) \in Seq(Nat) /\ Head(v) \in Nat
    BY <1>2
  <2> QED
    BY <2>1, <2>2, Zenon
<1> HIDE DEF u, v, g
<1>4. bs \in Seq(Byte) /\ w \in Seq(Nat)
  BY <1>1, <1>2, <1>3, BytesType, Zenon
<1>5. (g \o u) \o Flat(v) = (g \o bs) \o Flat(w)
  <2>1. CASE u # <<>>
    BY <2>1, Zenon
  <2>2. CASE u = <<>>
    <3> DEFINE b == Bytes(Head(v))
               f == Flat(Tail(v))
    <3>1. b \in Seq(Byte) /\ f \in Seq(Byte) /\ Flat(v) = b \o f
      BY <1>1, <1>3, <2>2, BytesType, FlatType, Zenon
    <3> HIDE DEF b, f
    <3>2. g \o <<>> = g
      BY <1>2, ConcatEmptySeq, Zenon
    <3>3. g \o (b \o f) = (g \o b) \o f
      <4>1. g \in Seq(Byte) /\ b \in Seq(Byte) /\ f \in Seq(Byte)
        BY <1>2, <3>1, Zenon
      <4> QED
        BY <4>1, ConcatAssociative, SMTT(30)
    <3>4. g \o Flat(v) = (g \o b) \o f
      BY <3>1, <3>3, Zenon
    <3>5. (g \o u) \o Flat(v) = (g \o b) \o f
      BY <2>2, <3>2, <3>4, Zenon
    <3>6. (g \o bs) \o Flat(w) = (g \o b) \o f
      BY <2>2, Zenon DEF b, f
    <3> QED
      BY <3>5, <3>6, Zenon
  <2> QED
    BY <2>1, <2>2, Zenon
<1> HIDE DEF bs, w
<1>6. n \in 0..Len(bs) /\ room[r] - n \in Nat
  <2>1. Len(bs) \in Nat
    BY <1>4, LenProperties, Zenon
  <2> HIDE DEF bs
  <2>2. \A i, j \in Nat : (IF i < j THEN i ELSE j) \in 0..i /\ j - (IF i < j THEN i ELSE j) \in Nat
    OBVIOUS
  <2> QED
    BY <1>2, <2>1, <2>2, Zenon
<1> HIDE DEF n
<1>7. x \in Seq(Byte) /\ y \in Seq(Byte) /\ x \o y = bs
  BY <1>4, <1>6, Cut, Zenon
<1> HIDE DEF x, y
<1>8. g \o x \in Seq(Byte)
  BY <1>2, <1>7, ConcatProperties, Zenon
<1>9. DataTypes'
  BY <1>1, <1>4, <1>6, <1>7, <1>8, Zenon DEF DataTypes
<1>10. \A p \in Readers : /\ Stream(p)' = (got'[p] \o unread'[p]) \o Flat(chan'[p])
                          /\ Stream(p) = (got[p] \o unread[p]) \o Flat(chan[p])
  BY Zenon DEF Stream
<1>11. /\ got'[r] = g \o x /\ unread'[r] = y /\ chan'[r] = w
       /\ \A p \in Readers : p # r => got'[p] = got[p] /\ unread'[p] = unread[p] /\ chan'[p] = chan[p]
  BY <1>1, Zenon DEF DataTypes
<1>12. Stream(r)' = Stream(r)
  <2>1. (g \o x) \o y = g \o (x \o y)
    <3>1. g \in Seq(Byte) /\ x \in Seq(Byte) /\ y \in Seq(Byte)
      BY <1>2, <1>7, Zenon
    <3> QED
      BY <3>1, ConcatAssociative, SMTT(30)
  <2>2. got'[r] \o unread'[r] = g \o bs
    BY <1>7, <1>11, <2>1, Zenon
  <2>3. Stream(r)' = (g \o bs) \o Flat(w)
    BY <1>10, <1>11, <2>2, Zenon
  <2>4. Stream(r) = (g \o u) \o Flat(v)
    BY <1>10, Zenon DEF g, u, v
  <2> QED
    BY <1>5, <2>3, <2>4, Zenon
<1>13. ASSUME NEW p \in Readers, p # r PROVE Stream(p)' = Stream(p)
  <2>1. got'[p] = got[p] /\ unread'[p] = unread[p] /\ chan'[p] = chan[p]
    BY <1>11, <1>13, Zenon
  <2> QED
    BY <1>10, <2>1, Zenon
<1> QED
  BY <1>9, <1>12, <1>13, Zenon

LEMMA DataStep ==
  ASSUME ControlInv, ControlInv', DataInv, [Next]_vars
  PROVE  DataInv'
<1>1. DataTypes /\ raced \in BOOLEAN /\ raced' \in BOOLEAN
  BY Zenon DEF DataInv, ControlInv, Types
<1>2. PICK c : Chunks(c) /\ \A r \in Readers : Given(c, r)
  BY Zenon DEF DataInv
<1>3. c \in [Readers -> Seq(Nat)]
  BY <1>2, Zenon DEF Chunks
\* Steps that send nothing.
<1>4. ASSUME UNCHANGED <<chan, unread, got, kind>>, raced => raced', DataTypes',
             \A r \in Readers : Given(c, r)'
      PROVE  DataInv'
  <2>1. Chunks(c)'
    BY <1>1, <1>2, <1>4, SameChunks, Zenon
  <2> QED
    BY <1>4, <2>1, Zenon DEF DataInv
<1>5. ASSUME NEW r \in Readers, AddReadWriter(r) PROVE DataInv'
  <2>1. /\ UNCHANGED <<kind, chan, unread, got, room, written>> /\ (raced => raced')
        /\ since' = [since EXCEPT ![r] = written]
    BY <1>5, Zenon DEF AddReadWriter, ChangeSlice, readVars
  <2>2. DataTypes'
    BY <1>1, <2>1, Zenon DEF DataTypes
  <2>3. \A q \in Readers : Given(c, q)'
    BY <1>1, <1>2, <1>5, GivenAdd, Zenon
  <2> QED
    BY <1>4, <2>1, <2>2, <2>3, Zenon
\* Steps that change neither the data nor what Write is about.
<1>6. ASSUME UNCHANGED <<kind, chan, unread, got, written, since, write>>, raced => raced',
             room' \in [Readers -> Nat], \A r \in Readers : state'[r] \in {state[r], "dead"}
      PROVE  DataInv'
  <2>1. DataTypes'
    BY <1>1, <1>6, Zenon DEF DataTypes
  <2>2. \A r : Late(r)' <=> Late(r)
    BY <1>6, Zenon DEF Late, Owed, Pending
  <2>3. \A r \in Readers : Given(c, r)'
    BY <1>2, <1>6, <2>2, GivenSame, Zenon
  <2> QED
    BY <1>4, <1>6, <2>1, <2>3, Zenon
<1>7. ASSUME NEW r \in Readers, RemoveReader(r) PROVE DataInv'
  <2>1. /\ UNCHANGED <<kind, chan, unread, got, room, written, since, write>> /\ (raced => raced')
        /\ state' = [state EXCEPT ![r] = "dead"]
    BY <1>7, Zenon DEF RemoveReader, ChangeSlice, readVars
  <2>2. \A q \in Readers : state'[q] \in {state[q], "dead"}
    BY <2>1, Zenon DEF ControlInv, Types
  <2> QED
    BY <1>1, <1>6, <2>1, <2>2, Zenon DEF DataTypes
<1>8. ASSUME Close PROVE DataInv'
  <2>1. /\ UNCHANGED <<kind, chan, unread, got, room, written, since, write>> /\ (raced => raced')
        /\ state' = [r \in Readers |-> IF r \in Range(Slice(slice)) THEN "dead" ELSE state[r]]
    BY <1>8, Zenon DEF Close, ChangeSlice, readVars
  <2>2. \A q \in Readers : state'[q] \in {state[q], "dead"}
    BY <2>1, Zenon
  <2> QED
    BY <1>1, <1>6, <2>1, <2>2, Zenon DEF DataTypes
<1>9. ASSUME NEW r \in Readers, Read(r) \/ ReadReturn(r) PROVE DataInv'
  <2>1. UNCHANGED <<kind, chan, unread, got, written, since, write, raced, state>>
    BY <1>9, Zenon DEF Read, ReadReturn
  <2>2. room' \in [Readers -> Nat]
    <3>1. ReadLen \in Nat /\ 0 \in Nat
      BY StreamsAssumption, Zenon
    <3> QED
      BY <1>1, <1>9, <3>1, Zenon DEF Read, ReadReturn, DataTypes
  <2> QED
    BY <1>6, <2>1, <2>2, Zenon
<1>10. ASSUME NEW r \in Readers, ReadCopy(r) PROVE DataInv'
  <2>1. UNCHANGED <<kind, raced, state, write, written, since>>
    BY <1>10, Zenon DEF ReadCopy
  <2>2. DataTypes' /\ \A p \in Readers : Stream(p)' = Stream(p)
    BY <1>1, <1>10, CopyStep, Zenon
  <2>3. Chunks(c)'
    BY <1>2, <2>1, <2>2, Zenon DEF Chunks, Rel
  <2>4. \A p \in Readers : Given(c, p)'
    BY <1>2, <2>1, Zenon DEF Given, Sent, Late, Owed, Pending
  <2> QED
    BY <2>2, <2>3, <2>4, Zenon DEF DataInv
<1>11. ASSUME BeginWrite PROVE DataInv'
  <2>1. UNCHANGED <<kind, chan, unread, got, room, since, raced>> /\ written' = written + 1
    BY <1>11, Zenon DEF BeginWrite, readVars
  <2>2. written' \in Nat
    BY <1>1, <2>1 DEF DataTypes
  <2>3. DataTypes'
    BY <1>1, <2>1, <2>2, Zenon DEF DataTypes
  <2>4. \A r \in Readers : Given(c, r)'
    BY <1>1, <1>2, <1>3, <1>11, GivenBegin, Zenon
  <2> QED
    BY <1>4, <2>1, <2>3, <2>4, Zenon
\* The steps of Write that send nothing.
<1>12. ASSUME UNCHANGED <<kind, raced, chan, unread, got, room, written, since>>,
              \A r \in Readers : Given(c, r)'
       PROVE  DataInv'
  <2>1. DataTypes'
    BY <1>1, <1>12, Zenon DEF DataTypes
  <2> QED
    BY <1>4, <1>12, <2>1, Zenon
<1>13. ASSUME LoadReaders PROVE DataInv'
  <2>1. UNCHANGED <<kind, raced, chan, unread, got, room, written, since, state>>
    BY <1>13, Zenon DEF LoadReaders, readVars
  <2>2. write'.pc = write.pc /\ write'.todo = write.todo /\ write'.left = write.left
    BY <1>13, Zenon DEF LoadReaders, ControlInv, Types
  <2>3. \A r : Late(r)' <=> Late(r)
    BY <2>1, <2>2, Zenon DEF Late, Owed, Pending
  <2>4. \A r \in Readers : Given(c, r)'
    BY <1>2, <2>1, <2>2, <2>3, GivenSame, Zenon
  <2> QED
    BY <1>12, <2>1, <2>4, Zenon
<1>14. ASSUME TryWrite PROVE DataInv'
  <2>1. UNCHANGED <<kind, raced, chan, unread, got, room, written, since>>
    BY <1>14, Zenon DEF TryWrite, readVars
  <2> QED
    BY <1>2, <1>12, <1>14, <2>1, GivenTry, Zenon
<1>15. ASSUME PassOver PROVE DataInv'
  <2>1. UNCHANGED <<kind, raced, chan, unread, got, room, written, since>>
    BY <1>15, Zenon DEF PassOver, readVars
  <2> QED
    BY <1>2, <1>12, <1>15, <2>1, GivenPass, Zenon
<1>16. ASSUME EndWrite PROVE DataInv'
  <2>1. UNCHANGED <<kind, raced, chan, unread, got, room, written, since>>
    BY <1>16, Zenon DEF EndWrite, readVars
  <2> QED
    BY <1>2, <1>12, <1>16, <2>1, GivenEnd, Zenon
<1>17. ASSUME SendChunk PROVE DataInv'
  <2> DEFINE h == Head(write.todo)
  <2>1. /\ UNCHANGED <<kind, raced, unread, got, room, written, since>> /\ write.todo # <<>>
        /\ chan' = [chan EXCEPT ![h] = Append(@, written)]
    BY <1>17, Zenon DEF SendChunk, readVars
  <2>2. \A s \in Seq(Nat) : \A x \in Nat : Append(s, x) \in Seq(Nat)
    OBVIOUS
  <2>3. chan' \in [Readers -> Seq(Nat)]
    BY <1>1, <2>1, <2>2, Zenon DEF DataTypes
  <2>4. DataTypes'
    BY <1>1, <2>1, <2>3, Zenon DEF DataTypes
  <2>5. \E d : Chunks(d)' /\ \A r \in Readers : Given(d, r)'
    BY <1>1, <1>2, <1>17, SendStep, Zenon
  <2> QED
    BY <2>4, <2>5, Zenon DEF DataInv
<1>18. ASSUME UNCHANGED vars PROVE DataInv'
  <2>1. UNCHANGED <<kind, chan, unread, got, room, written, since, write, raced, state>>
    BY <1>18, Zenon DEF vars, readVars
  <2> QED
    BY <1>1, <1>6, <2>1, Zenon DEF DataTypes
<1> QED
  BY <1>5, <1>7, <1>8, <1>9, <1>10, <1>11, <1>13, <1>14, <1>15, <1>16, <1>17, <1>18, Zenon
     DEF Next, Writer, Reader, Client

-------------------------------------------------------------------------------
(* The results.                                                             *)

StreamsInv == ControlInv /\ DataInv

LEMMA StreamsInductive == Spec => []StreamsInv
<1>1. Init => StreamsInv
  BY InitControl, InitData, Zenon DEF StreamsInv
<1>2. StreamsInv /\ [Next]_vars => StreamsInv'
  BY ControlStep, DataStep, Zenon DEF StreamsInv
<1> QED
  BY <1>1, <1>2, PTL DEF Spec

LEMMA InvOrder == StreamsInv => ChunksInOrder
<1> SUFFICES ASSUME StreamsInv PROVE ChunksInOrder
  BY Zenon
<1>1. PICK c : Chunks(c)
  BY Zenon DEF StreamsInv, DataInv
<1>2. ASSUME NEW r \in Readers PROVE Ordered(Stream(r))
  <2>1. c[r] \in Seq(Nat) /\ \A i \in 1..(Len(c[r]) - 1) : Rel(c[r][i], c[r][i + 1])
    BY <1>1, Zenon DEF Chunks
  <2>2. Ordered(Flat(c[r]))
    BY <2>1, FlatOrdered, Zenon
  <2> QED
    BY <1>1, <2>2, Zenon DEF Chunks
<1> QED
  BY <1>2, Zenon DEF ChunksInOrder, Ordered, Follows, Rel

LEMMA InvDelivered == StreamsInv => AllDelivered
<1> SUFFICES ASSUME StreamsInv, kind # "skipping", ~raced, write.pc = "idle",
                    NEW r \in Readers, state[r] = "live", since[r] < written
             PROVE  /\ Stream(r) # <<>>
                    /\ Stream(r)[1] = <<since[r] + 1, 1>>
                    /\ Stream(r)[Len(Stream(r))] = <<written, ChunkLen>>
  BY Zenon DEF AllDelivered
<1>1. PICK c : Chunks(c) /\ \A q \in Readers : Given(c, q)
  BY Zenon DEF StreamsInv, DataInv
<1>2. ~Late(r)
  <2>1. "idle" # "load"
    BY Zenon
  <2>2. write.todo = <<>> /\ write.left = <<>>
    BY Zenon DEF StreamsInv, ControlInv, LockInv
  <2> QED
    BY <2>1, <2>2, EmptyMembers, Zenon DEF Late, Owed, Pending
<1>3. Sent(c, r) = written
  BY <1>1, <1>2, Zenon DEF Given
<1>4. c[r] # <<>>
  <2>1. since[r] # written
    <3>1. since[r] \in Nat /\ written \in Nat
      BY Zenon DEF StreamsInv, DataInv, DataTypes
    <3>2. \A x, y \in Nat : x < y => x # y
      OBVIOUS
    <3> QED
      BY <3>1, <3>2, Zenon
  <2> QED
    BY <1>3, <2>1, Zenon DEF Sent
<1> DEFINE s == c[r]
<1>5. /\ s \in Seq(Nat) /\ \A i \in 1..(Len(s) - 1) : Rel(s[i], s[i + 1])
      /\ Stream(r) = Flat(s) /\ s # <<>> /\ s[Len(s)] = written /\ s[1] = since[r] + 1
  BY <1>1, <1>3, <1>4, Zenon DEF Chunks, Given, Sent
<1> HIDE DEF s
<1>6. /\ Flat(s) # <<>> /\ Flat(s)[1] = <<s[1], 1>>
      /\ Flat(s)[Len(Flat(s))] = <<s[Len(s)], ChunkLen>>
  BY <1>5, FlatOrdered, Zenon
<1> QED
  BY <1>5, <1>6, Zenon

\* What a client of a stream file reads is what was written, chunk by chunk, with no
\* byte twice and none missing from a chunk, in the order of the Writes, for any
\* number of readers that come and go at any time, any capacity of their channels and
\* any lengths of the chunks and of the Reads (chanReader.Read, baseStream).
THEOREM ChunksInOrderAlways == Spec => []ChunksInOrder
BY StreamsInductive, InvOrder, PTL

\* When Write returns, every live reader of a BlockingStream or of a DroppingStream
\* has been sent everything since it was added, as long as the slice has not been
\* changed while BlockingStream.Write loaded it.
THEOREM AllDeliveredAlways == Spec => []AllDelivered
BY StreamsInductive, InvDelivered, PTL
===============================================================================
