----------------------------- MODULE Mount9pProofs -----------------------------
(***************************************************************************)
(* What the directory cache of mount9p guarantees for any number of names, *)
(* of requests in progress and of changes.                                 *)
(***************************************************************************)
EXTENDS Mount9p, TLAPS

State == [is : BOOLEAN, ver : Nat]
List  == [Names -> State]

Reading  == {"fetch", "store", "ttl", "scan"}
Changing == {"expire", "load", "append"}

ReadJob == [pc : Reading, kind : {"lookup", "getattr"}, name : Names, need : Nat,
            snap : List \cup {None}]
ChangeJob == [pc : Changing, kind : {"create", "remove", "rename", "write"},
              names : SUBSET Names, ver : Nat, list : List \cup {None}]
Job == {Idle} \cup ReadJob \cup ChangeJob

CacheType ==
  /\ fileRequests \in BOOLEAN /\ vers \in Nat /\ file \in List
  /\ cache \in List \cup {None}
  /\ req \in [Threads -> Job]
  /\ own \in [Names -> Nat] /\ was \in [Names -> SUBSET State]
  /\ \A t \in Threads : req[t].pc = "store" => req[t].snap \in List
  /\ \A t \in Threads : req[t].pc = "append" => req[t].list \in List

\* A list that shows every change that has returned, and nothing that never was.
Good(l) == l \in List /\ \A n \in Names : l[n].ver >= own[n] /\ l[n] \in was[n]

\* A Lookup that has a list has a good one.
LookupInv(t) ==
  req[t].pc \in Reading =>
    /\ req[t].kind = "lookup" /\ req[t].need = own[req[t].name]
    /\ req[t].pc = "store" => Good(req[t].snap)
    /\ req[t].pc \in {"ttl", "scan"} => Good(cache)

\* A change is alone with the directory, and has ended the TTL before it touches the
\* list and before it returns.
ChangeInv(t) ==
  req[t].pc \in Changing =>
    /\ req[t].kind # "write"
    /\ \A n \in req[t].names : req[t].ver <= file[n].ver
    /\ req[t].pc # "expire" => ~fresh
    /\ \A u \in Threads \ {t} : req[u].pc = "idle"

\* Without requests on files the list that is trusted is good.
CacheInv ==
  ~fileRequests =>
    /\ \A n \in Names : own[n] <= file[n].ver /\ file[n].ver <= vers /\ file[n] \in was[n]
    /\ fresh => Good(cache)
    /\ \A t \in Threads : LookupInv(t) /\ ChangeInv(t)

AnswerInv == /\ OwnChangesSeen /\ AnswersWereTrue
             /\ fileRequests => answer = None
             /\ answer # None => answer.name \in Names

MountInv == CacheType /\ CacheInv /\ AnswerInv

-------------------------------------------------------------------------------
(* Requests.                                                                *)

\* Where a request is says which request it is.
LEMMA Shape ==
  ASSUME NEW j \in Job
  PROVE  /\ j.pc \in {"idle"} \cup Reading \cup Changing
         /\ j.pc = "idle" => j = Idle
         /\ j.pc \in Reading => j \in ReadJob
         /\ j.pc \in Changing => j \in ChangeJob
<1>1. Idle.pc = "idle"
  BY Zenon DEF Idle
<1> QED
  BY <1>1, Zenon DEF Job, ReadJob, ChangeJob, Reading, Changing

LEMMA IdlePc == Idle.pc = "idle" /\ Idle \in Job
BY Zenon DEF Idle, Job

\* One request changes.
LEMMA OneJob ==
  ASSUME req \in [Threads -> Job], NEW t \in Threads, NEW j \in Job,
         req' = [req EXCEPT ![t] = j]
  PROVE  /\ req' \in [Threads -> Job] /\ req'[t] = j
         /\ \A u \in Threads \ {t} : req'[u] = req[u]
BY Zenon

\* A read goes on.
LEMMA GoesRead ==
  ASSUME req \in [Threads -> Job], NEW t \in Threads, req[t] \in ReadJob,
         NEW pc \in Reading, Goes(t, pc)
  PROVE  /\ req' \in [Threads -> Job] /\ req'[t].pc = pc
         /\ req'[t].kind = req[t].kind /\ req'[t].name = req[t].name
         /\ req'[t].need = req[t].need /\ req'[t].snap = req[t].snap
         /\ \A u \in Threads \ {t} : req'[u] = req[u]
<1> DEFINE j == [req[t] EXCEPT !.pc = pc]
<1>1. /\ j \in ReadJob /\ j.pc = pc /\ j.kind = req[t].kind /\ j.name = req[t].name
      /\ j.need = req[t].need /\ j.snap = req[t].snap
  BY Zenon DEF ReadJob
<1>2. req' = [req EXCEPT ![t] = j]
  BY Zenon DEF Goes
<1>3. j \in Job
  BY <1>1, Zenon DEF Job
<1> HIDE DEF j
<1> QED
  BY <1>1, <1>2, <1>3, OneJob, Zenon

\* A change goes on.
LEMMA GoesChange ==
  ASSUME req \in [Threads -> Job], NEW t \in Threads, req[t] \in ChangeJob,
         NEW pc \in Changing, Goes(t, pc)
  PROVE  /\ req' \in [Threads -> Job] /\ req'[t].pc = pc
         /\ req'[t].kind = req[t].kind /\ req'[t].names = req[t].names
         /\ req'[t].ver = req[t].ver
         /\ \A u \in Threads \ {t} : req'[u] = req[u]
<1> DEFINE j == [req[t] EXCEPT !.pc = pc]
<1>1. /\ j \in ChangeJob /\ j.pc = pc /\ j.kind = req[t].kind
      /\ j.names = req[t].names /\ j.ver = req[t].ver
  BY Zenon DEF ChangeJob
<1>2. req' = [req EXCEPT ![t] = j]
  BY Zenon DEF Goes
<1>3. j \in Job
  BY <1>1, Zenon DEF Job
<1> HIDE DEF j
<1> QED
  BY <1>1, <1>2, <1>3, OneJob, Zenon

LEMMA ReadBegins ==
  ASSUME CacheType, NEW t \in Threads, NEW kind \in {"lookup", "getattr"}, NEW n \in Names,
         BeginRead(t, kind, n)
  PROVE  /\ req' \in [Threads -> Job] /\ req'[t].kind = kind
         /\ req'[t].pc = FirstStep /\ FirstStep \in {"fetch", "scan"}
         /\ req'[t].name = n /\ req'[t].need = own[n]
         /\ \A u \in Threads \ {t} : req'[u] = req[u]
<1> DEFINE j == [pc |-> FirstStep, kind |-> kind, name |-> n, need |-> own[n], snap |-> None]
<1>1. FirstStep \in {"fetch", "scan"}
  BY Zenon DEF FirstStep
<1>2. own[n] \in Nat
  BY Zenon DEF CacheType
<1>3. j \in ReadJob
  BY <1>1, <1>2, Zenon DEF ReadJob, Reading
<1>4. j \in Job /\ req' = [req EXCEPT ![t] = j] /\ req \in [Threads -> Job]
  BY <1>3, Zenon DEF Job, BeginRead, CacheType
<1>5. j.pc = FirstStep /\ j.kind = kind /\ j.name = n /\ j.need = own[n]
  BY Zenon
<1> HIDE DEF j
<1> QED
  BY <1>1, <1>4, <1>5, OneJob, Zenon

LEMMA ReadFetches ==
  ASSUME CacheType, NEW t \in Threads, Fetch(t)
  PROVE  /\ req' \in [Threads -> Job] /\ req'[t].pc = "store" /\ req'[t].snap = file
         /\ req'[t].kind = req[t].kind /\ req'[t].name = req[t].name
         /\ req'[t].need = req[t].need
         /\ \A u \in Threads \ {t} : req'[u] = req[u]
<1> DEFINE j == [req[t] EXCEPT !.pc = "store", !.snap = file]
<1>1. req[t] \in ReadJob /\ req \in [Threads -> Job] /\ file \in List
  <2>1. req[t].pc = "fetch"
    BY Zenon DEF Fetch
  <2>2. req[t] \in Job /\ req \in [Threads -> Job] /\ file \in List
    BY Zenon DEF CacheType
  <2> QED
    BY <2>1, <2>2, Shape, Zenon DEF Reading
<1>2. /\ j \in ReadJob /\ j.pc = "store" /\ j.kind = req[t].kind /\ j.name = req[t].name
      /\ j.need = req[t].need /\ j.snap = file
  BY <1>1, Zenon DEF ReadJob, Reading
<1>3. req' = [req EXCEPT ![t] = j]
  BY Zenon DEF Fetch
<1>4. j \in Job
  BY <1>2, Zenon DEF Job
<1> HIDE DEF j
<1> QED
  BY <1>1, <1>2, <1>3, <1>4, OneJob, Zenon

LEMMA ChangeBegins ==
  ASSUME CacheType, NEW t \in Threads, NEW kind \in {"create", "remove", "rename", "write"},
         NEW ns \in SUBSET Names, Begin(t, kind, ns)
  PROVE  /\ req' \in [Threads -> Job] /\ req'[t].pc = "expire" /\ req'[t].kind = kind
         /\ req'[t].names = ns /\ req'[t].ver = vers + 1
         /\ \A u \in Threads \ {t} : req'[u] = req[u]
<1> DEFINE j == [pc |-> "expire", kind |-> kind, names |-> ns, ver |-> vers + 1, list |-> None]
<1>1. vers + 1 \in Nat /\ req \in [Threads -> Job]
  BY DEF CacheType
<1>2. j \in ChangeJob
  BY <1>1, Zenon DEF ChangeJob, Changing
<1>3. j \in Job /\ req' = [req EXCEPT ![t] = j]
  BY <1>2, Zenon DEF Job, Begin
<1>4. j.pc = "expire" /\ j.kind = kind /\ j.names = ns /\ j.ver = vers + 1
  BY Zenon
<1> HIDE DEF j
<1> QED
  BY <1>1, <1>3, <1>4, OneJob, Zenon

LEMMA ChangeLoads ==
  ASSUME CacheType, NEW t \in Threads, LoadList(t)
  PROVE  /\ req' \in [Threads -> Job] /\ req'[t].pc = "append" /\ req'[t].list \in List
         /\ req'[t].kind = req[t].kind /\ req'[t].names = req[t].names
         /\ req'[t].ver = req[t].ver
         /\ \A u \in Threads \ {t} : req'[u] = req[u]
<1> DEFINE l == IF cache = None THEN [n \in Names |-> Absent] ELSE cache
           j == [req[t] EXCEPT !.pc = "append", !.list = l]
<1>1. req[t] \in ChangeJob /\ req \in [Threads -> Job]
  <2>1. req[t].pc = "load"
    BY Zenon DEF LoadList
  <2>2. req[t] \in Job /\ req \in [Threads -> Job]
    BY Zenon DEF CacheType
  <2> QED
    BY <2>1, <2>2, Shape, Zenon DEF Changing
<1>2. l \in List
  <2>1. Absent \in State
    BY Zenon DEF Absent, State
  <2> QED
    BY <2>1, Zenon DEF CacheType, List
<1>3. req' = [req EXCEPT ![t] = j]
  BY Zenon DEF LoadList
<1> HIDE DEF l
<1>4. /\ j \in ChangeJob /\ j.pc = "append" /\ j.kind = req[t].kind
      /\ j.names = req[t].names /\ j.ver = req[t].ver /\ j.list = l
  BY <1>1, <1>2, Zenon DEF ChangeJob, Changing
<1>5. j \in Job
  BY <1>4, Zenon DEF Job
<1> HIDE DEF j
<1> QED
  BY <1>1, <1>2, <1>3, <1>4, <1>5, OneJob, Zenon

\* What a change does on the server.
LEMMA ServerChanges ==
  ASSUME CacheType, NEW gone \in SUBSET Names, NEW there \in SUBSET Names, Changed(gone, there)
  PROVE  /\ vers' = vers + 1 /\ vers' \in Nat /\ file' \in List /\ was' \in [Names -> SUBSET State]
         /\ \A n \in Names : /\ was[n] \subseteq was'[n] /\ (~fileRequests => file'[n] \in was'[n])
                             /\ n \in gone \cup there => file'[n].ver = vers + 1
                             /\ n \notin gone \cup there => file'[n] = file[n]
<1> DEFINE s(n) == IF n \in gone \cup there THEN [is |-> n \in there, ver |-> vers + 1] ELSE file[n]
<1>1. \A n \in Names : s(n) \in State /\ (n \in gone \cup there => s(n).ver = vers + 1)
  <2> TAKE n \in Names
  <2>1. (n \in there) \in BOOLEAN /\ vers + 1 \in Nat
    BY DEF CacheType
  <2>2. [is |-> n \in there, ver |-> vers + 1] \in State
    BY <2>1, Zenon DEF State
  <2>3. file[n] \in State
    BY Zenon DEF CacheType, List
  <2> QED
    BY <2>2, <2>3, Zenon
<1>2. file' = [n \in Names |-> s(n)] /\ vers' = vers + 1
  BY Zenon DEF Changed
<1>3. vers \in Nat /\ was \in [Names -> SUBSET State]
  BY Zenon DEF CacheType
<1>4. \A n \in Names : n \notin gone \cup there => s(n) = file[n]
  BY Zenon
<1>5. was' = IF fileRequests THEN was ELSE [n \in Names |-> was[n] \cup {file'[n]}]
  BY Zenon DEF Changed, Recorded
<1> HIDE DEF s
<1>6. file' \in List /\ \A n \in Names : file'[n] = s(n)
  BY <1>1, <1>2, Zenon DEF List
<1>7. was' \in [Names -> SUBSET State]
      /\ \A n \in Names : was[n] \subseteq was'[n] /\ (~fileRequests => file'[n] \in was'[n])
  BY <1>1, <1>3, <1>5, <1>6
<1> QED
  BY <1>1, <1>2, <1>3, <1>4, <1>6, <1>7

\* The requests that change something, and what they have in common.
ChangeStep(t) ==
  \/ \E n \in Names : Create(t, n) \/ Remove(t, n) \/ Write(t, n)
  \/ \E n \in Names : \E m \in Names \ {n} : Rename(t, n, m)

LEMMA ChangeCommon ==
  ASSUME CacheType, NEW t \in Threads, ChangeStep(t)
  PROVE  \E gone, there \in SUBSET Names :
           /\ Changed(gone, there) /\ req[t] = Idle
           /\ req' \in [Threads -> Job] /\ req'[t].pc = "expire"
           /\ req'[t].names = gone \cup there /\ req'[t].ver = vers + 1
           /\ \A u \in Threads \ {t} : req'[u] = req[u]
           /\ UNCHANGED <<fileRequests, cache, fresh, own, answer>>
           /\ ~fileRequests => Alone /\ req'[t].kind # "write"
<1>1. ASSUME NEW kind \in {"create", "remove", "rename", "write"},
             NEW gone \in SUBSET Names, NEW there \in SUBSET Names,
             Changed(gone, there), Begin(t, kind, gone \cup there),
             UNCHANGED <<fileRequests, cache, fresh, own, answer>>,
             ~fileRequests => Alone /\ kind # "write"
      PROVE  /\ Changed(gone, there) /\ req[t] = Idle
             /\ req' \in [Threads -> Job] /\ req'[t].pc = "expire"
             /\ req'[t].names = gone \cup there /\ req'[t].ver = vers + 1
             /\ \A u \in Threads \ {t} : req'[u] = req[u]
             /\ UNCHANGED <<fileRequests, cache, fresh, own, answer>>
             /\ ~fileRequests => Alone /\ req'[t].kind # "write"
  <2>1. /\ req' \in [Threads -> Job] /\ req'[t].pc = "expire" /\ req'[t].kind = kind
        /\ req'[t].names = gone \cup there /\ req'[t].ver = vers + 1
        /\ \A u \in Threads \ {t} : req'[u] = req[u]
    BY <1>1, ChangeBegins
  <2>2. req[t] = Idle
    BY <1>1, Zenon DEF Begin
  <2> QED
    BY <1>1, <2>1, <2>2, Zenon
<1>2. \E kind \in {"create", "remove", "rename", "write"}, gone, there \in SUBSET Names :
        /\ Changed(gone, there) /\ Begin(t, kind, gone \cup there)
        /\ UNCHANGED <<fileRequests, cache, fresh, own, answer>>
        /\ ~fileRequests => Alone /\ kind # "write"
  <2> DEFINE Goal ==
       \E kind \in {"create", "remove", "rename", "write"}, gone, there \in SUBSET Names :
         /\ Changed(gone, there) /\ Begin(t, kind, gone \cup there)
         /\ UNCHANGED <<fileRequests, cache, fresh, own, answer>>
         /\ ~fileRequests => Alone /\ kind # "write"
  <2>1. ASSUME NEW n \in Names, Create(t, n) PROVE Goal
    <3>1. {} \cup {n} = {n}
      BY Zenon
    <3>2. /\ Changed({}, {n}) /\ Begin(t, "create", {} \cup {n}) /\ Alone
          /\ UNCHANGED <<fileRequests, cache, fresh, own, answer>>
      BY <2>1, <3>1, Zenon DEF Create
    <3>3. {} \in SUBSET Names /\ {n} \in SUBSET Names
      BY Zenon
    <3> QED
      BY <3>2, <3>3, Zenon
  <2>2. ASSUME NEW n \in Names, Remove(t, n) PROVE Goal
    <3>1. {n} \cup {} = {n}
      BY Zenon
    <3>2. /\ Changed({n}, {}) /\ Begin(t, "remove", {n} \cup {}) /\ Alone
          /\ UNCHANGED <<fileRequests, cache, fresh, own, answer>>
      BY <2>2, <3>1, Zenon DEF Remove
    <3>3. {n} \in SUBSET Names /\ {} \in SUBSET Names
      BY Zenon
    <3> QED
      BY <3>2, <3>3, Zenon
  <2>3. ASSUME NEW n \in Names, Write(t, n) PROVE Goal
    <3>1. {} \cup {n} = {n}
      BY Zenon
    <3>2. /\ Changed({}, {n}) /\ Begin(t, "write", {} \cup {n}) /\ fileRequests
          /\ UNCHANGED <<fileRequests, cache, fresh, own, answer>>
      BY <2>3, <3>1, Zenon DEF Write
    <3>3. {} \in SUBSET Names /\ {n} \in SUBSET Names
      BY Zenon
    <3> QED
      BY <3>2, <3>3, Zenon
  <2>4. ASSUME NEW n \in Names, NEW m \in Names, Rename(t, n, m) PROVE Goal
    <3>1. {n} \cup {m} = {n, m}
      BY Zenon
    <3>2. /\ Changed({n}, {m}) /\ Begin(t, "rename", {n} \cup {m}) /\ Alone
          /\ UNCHANGED <<fileRequests, cache, fresh, own, answer>>
      BY <2>4, <3>1, Zenon DEF Rename
    <3>3. {n} \in SUBSET Names /\ {m} \in SUBSET Names
      BY Zenon
    <3> QED
      BY <3>2, <3>3, Zenon
  <2> QED
    BY <2>1, <2>2, <2>3, <2>4, Zenon DEF ChangeStep
<1>3. PICK kind \in {"create", "remove", "rename", "write"}, gone \in SUBSET Names,
           there \in SUBSET Names :
        /\ Changed(gone, there) /\ Begin(t, kind, gone \cup there)
        /\ UNCHANGED <<fileRequests, cache, fresh, own, answer>>
        /\ ~fileRequests => Alone /\ kind # "write"
  BY <1>2, Zenon
<1> WITNESS gone \in SUBSET Names, there \in SUBSET Names
<1> QED
  BY <1>1, <1>3, Zenon

\* A change returns.
LEMMA Returned ==
  ASSUME CacheType, NEW t \in Threads, req[t] \in ChangeJob, Returns(t)
  PROVE  /\ req' \in [Threads -> Job] /\ req'[t].pc = "idle"
         /\ \A u \in Threads \ {t} : req'[u] = req[u]
         /\ own' \in [Names -> Nat]
         /\ \A n \in Names : own'[n] = own[n] \/ (n \in req[t].names /\ own'[n] = req[t].ver)
<1>1. req \in [Threads -> Job] /\ own \in [Names -> Nat]
  BY Zenon DEF CacheType
<1>2. req' = [req EXCEPT ![t] = Idle]
  BY Zenon DEF Returns
<1>3. req[t].ver \in Nat
  BY Zenon DEF ChangeJob
<1>4. own' = IF fileRequests THEN own
             ELSE [n \in Names |-> IF n \in req[t].names THEN req[t].ver ELSE own[n]]
  BY Zenon DEF Returns, Recorded
<1>5. /\ own' \in [Names -> Nat]
      /\ \A n \in Names : own'[n] = own[n] \/ (n \in req[t].names /\ own'[n] = req[t].ver)
  BY <1>1, <1>3, <1>4, Zenon
<1> QED
  BY <1>1, <1>2, <1>5, IdlePc, OneJob, Zenon

\* The steps, with the read or change they belong to.
LEMMA Steps ==
  ASSUME CacheType, [Next]_vars
  PROVE  \/ UNCHANGED vars
         \/ \E t \in Threads :
              \/ ChangeStep(t)
              \/ \E n \in Names, kind \in {"lookup", "getattr"} : BeginRead(t, kind, n)
              \/ /\ req[t] \in ReadJob
                 /\ \/ Fetch(t) \/ FetchFails(t) \/ StoreCache(t) \/ StoreTTL(t)
                    \/ Lookup(t) \/ Getattr(t)
              \/ req[t] \in ChangeJob /\ (EndTTL(t) \/ LoadList(t) \/ AppendEntry(t))
         \/ TimePasses
         \/ \E n \in Names : Remote(n)
<1>1. ASSUME NEW t \in Threads PROVE req[t] \in Job
  BY Zenon DEF CacheType
<1>2. ASSUME NEW t \in Threads, Fetch(t) \/ FetchFails(t) \/ StoreCache(t) \/ StoreTTL(t)
                                \/ Lookup(t) \/ Getattr(t)
      PROVE  req[t] \in ReadJob
  <2>1. req[t].pc \in Reading
    BY <1>2, Zenon DEF Reading, Fetch, FetchFails, StoreCache, StoreTTL, Lookup, Getattr
  <2> QED
    BY <1>1, <2>1, Shape, Zenon
<1>3. ASSUME NEW t \in Threads, EndTTL(t) \/ LoadList(t) \/ AppendEntry(t)
      PROVE  req[t] \in ChangeJob
  <2>1. req[t].pc \in Changing
    BY <1>3, Zenon DEF Changing, EndTTL, LoadList, AppendEntry
  <2> QED
    BY <1>1, <2>1, Shape, Zenon
<1> QED
  BY <1>2, <1>3, Zenon DEF Next, Continue, ChangeStep

-------------------------------------------------------------------------------
(* The types.                                                               *)

LEMMA TypeInductive == CacheType /\ [Next]_vars => CacheType'
<1> SUFFICES ASSUME CacheType, [Next]_vars PROVE CacheType'
  BY Zenon
<1>0. req \in [Threads -> Job]
  BY Zenon DEF CacheType
<1>1. CASE UNCHANGED vars
  BY <1>1, Zenon DEF CacheType, vars
<1>2. ASSUME NEW t \in Threads, ChangeStep(t) PROVE CacheType'
  <2>1. PICK gone \in SUBSET Names, there \in SUBSET Names :
          /\ Changed(gone, there)
          /\ req' \in [Threads -> Job] /\ req'[t].pc = "expire"
          /\ \A u \in Threads \ {t} : req'[u] = req[u]
          /\ UNCHANGED <<fileRequests, cache, fresh, own, answer>>
    BY <1>2, ChangeCommon, Zenon
  <2>2. vers' \in Nat /\ file' \in List /\ was' \in [Names -> SUBSET State]
    BY <2>1, ServerChanges, Zenon
  <2> QED
    BY <2>1, <2>2, Zenon DEF CacheType
<1>3. ASSUME NEW t \in Threads, NEW n \in Names, NEW kind \in {"lookup", "getattr"},
             BeginRead(t, kind, n)
      PROVE  CacheType'
  <2>1. /\ req' \in [Threads -> Job] /\ req'[t].pc = FirstStep /\ FirstStep \in {"fetch", "scan"}
        /\ \A u \in Threads \ {t} : req'[u] = req[u]
    BY <1>3, ReadBegins, Zenon
  <2>2. UNCHANGED <<fileRequests, file, vers, cache, own, was>>
    BY <1>3, Zenon DEF BeginRead
  <2> QED
    BY <2>1, <2>2, Zenon DEF CacheType
<1>4. ASSUME NEW t \in Threads, Fetch(t) PROVE CacheType'
  <2>1. /\ req' \in [Threads -> Job] /\ req'[t].pc = "store" /\ req'[t].snap = file
        /\ \A u \in Threads \ {t} : req'[u] = req[u]
    BY <1>4, ReadFetches, Zenon
  <2>2. UNCHANGED <<fileRequests, file, vers, cache, own, was>>
    BY <1>4, Zenon DEF Fetch
  <2> QED
    BY <2>1, <2>2, Zenon DEF CacheType
<1>5. ASSUME NEW t \in Threads, req' = [req EXCEPT ![t] = Idle],
             UNCHANGED <<fileRequests, file, vers, cache, own, was>>
      PROVE  CacheType'
  <2>1. /\ req' \in [Threads -> Job] /\ req'[t].pc = "idle"
        /\ \A u \in Threads \ {t} : req'[u] = req[u]
    BY <1>0, <1>5, IdlePc, OneJob, Zenon
  <2> QED
    BY <1>5, <2>1, Zenon DEF CacheType
<1>6. ASSUME NEW t \in Threads, req[t] \in ReadJob, StoreCache(t) PROVE CacheType'
  <2>1. /\ req' \in [Threads -> Job] /\ req'[t].pc = "ttl"
        /\ \A u \in Threads \ {t} : req'[u] = req[u]
    <3>1. "ttl" \in Reading /\ Goes(t, "ttl")
      BY <1>6, Zenon DEF StoreCache, Reading
    <3> QED
      BY <1>0, <1>6, <3>1, GoesRead, Zenon
  <2>2. UNCHANGED <<fileRequests, file, vers, own, was>> /\ cache' \in List
    BY <1>6, Zenon DEF StoreCache, CacheType
  <2> QED
    BY <2>1, <2>2, Zenon DEF CacheType
<1>7. ASSUME NEW t \in Threads, req[t] \in ReadJob, StoreTTL(t) PROVE CacheType'
  <2>1. /\ req' \in [Threads -> Job] /\ req'[t].pc = "scan"
        /\ \A u \in Threads \ {t} : req'[u] = req[u]
    <3>1. "scan" \in Reading /\ Goes(t, "scan")
      BY <1>7, Zenon DEF StoreTTL, Reading
    <3> QED
      BY <1>0, <1>7, <3>1, GoesRead, Zenon
  <2>2. UNCHANGED <<fileRequests, file, vers, cache, own, was>>
    BY <1>7, Zenon DEF StoreTTL
  <2> QED
    BY <2>1, <2>2, Zenon DEF CacheType
<1>8. ASSUME NEW t \in Threads, req[t] \in ChangeJob, EndTTL(t) PROVE CacheType'
  <2>1. UNCHANGED <<fileRequests, file, vers, cache, was>>
    BY <1>8, Zenon DEF EndTTL
  <2>2. CASE Goes(t, "load") /\ UNCHANGED own
    <3>1. "load" \in Changing
      BY Zenon DEF Changing
    <3>2. /\ req' \in [Threads -> Job] /\ req'[t].pc = "load"
          /\ \A u \in Threads \ {t} : req'[u] = req[u]
      BY <1>0, <1>8, <2>2, <3>1, GoesChange, Zenon
    <3> QED
      BY <2>1, <2>2, <3>2, Zenon DEF CacheType
  <2>3. CASE Returns(t)
    <3>1. /\ req' \in [Threads -> Job] /\ req'[t].pc = "idle"
          /\ \A u \in Threads \ {t} : req'[u] = req[u]
          /\ own' \in [Names -> Nat]
      BY <1>8, <2>3, Returned, Zenon
    <3> QED
      BY <2>1, <3>1, Zenon DEF CacheType
  <2> QED
    BY <1>8, <2>2, <2>3, Zenon DEF EndTTL
<1>9. ASSUME NEW t \in Threads, LoadList(t) PROVE CacheType'
  <2>1. /\ req' \in [Threads -> Job] /\ req'[t].pc = "append" /\ req'[t].list \in List
        /\ \A u \in Threads \ {t} : req'[u] = req[u]
    BY <1>9, ChangeLoads, Zenon
  <2>2. UNCHANGED <<fileRequests, file, vers, cache, own, was>>
    BY <1>9, Zenon DEF LoadList
  <2> QED
    BY <2>1, <2>2, Zenon DEF CacheType
<1>10. ASSUME NEW t \in Threads, req[t] \in ChangeJob, AppendEntry(t) PROVE CacheType'
  <2>1. /\ req' \in [Threads -> Job] /\ req'[t].pc = "idle"
        /\ \A u \in Threads \ {t} : req'[u] = req[u]
        /\ own' \in [Names -> Nat]
    <3>1. Returns(t)
      BY <1>10, Zenon DEF AppendEntry, StoreList
    <3> QED
      BY <1>10, <3>1, Returned, Zenon
  <2>2. UNCHANGED <<fileRequests, file, vers, was>>
    BY <1>10, Zenon DEF AppendEntry
  <2>3. cache' \in List
    <3>1. req[t].list \in List
      BY <1>10, Zenon DEF AppendEntry, CacheType
    <3>2. req[t].ver \in Nat
      BY <1>10, Zenon DEF ChangeJob
    <3>3. [is |-> TRUE, ver |-> req[t].ver] \in State
      BY <3>2, Zenon DEF State
    <3>4. \A n : [req[t].list EXCEPT ![n] = [is |-> TRUE, ver |-> req[t].ver]] \in List
      BY <3>1, <3>3, Zenon DEF List
    <3> QED
      BY <1>10, <3>1, <3>4, Zenon DEF AppendEntry, StoreList
  <2> QED
    BY <2>1, <2>2, <2>3, Zenon DEF CacheType
<1>11. CASE TimePasses
  BY <1>11, Zenon DEF TimePasses, CacheType
<1>12. ASSUME NEW n \in Names, Remote(n) PROVE CacheType'
  <2>1. PICK gone \in SUBSET Names, there \in SUBSET Names : Changed(gone, there)
    BY <1>12, Zenon DEF Remote
  <2>2. vers' \in Nat /\ file' \in List /\ was' \in [Names -> SUBSET State]
    BY <2>1, ServerChanges, Zenon
  <2> QED
    BY <1>12, <2>2, Zenon DEF Remote, CacheType
<1> QED
  <2>1. ASSUME NEW t \in Threads, FetchFails(t) \/ Lookup(t) \/ Getattr(t)
        PROVE  /\ req' = [req EXCEPT ![t] = Idle]
               /\ UNCHANGED <<fileRequests, file, vers, cache, own, was>>
    BY <2>1, Zenon DEF FetchFails, Lookup, Getattr, Answers
  <2> QED
    BY <1>1, <1>2, <1>3, <1>4, <1>5, <1>6, <1>7, <1>8, <1>9, <1>10, <1>11, <1>12, <2>1, Steps, Zenon

-------------------------------------------------------------------------------
(* The list.                                                                *)

\* What the kernel's lock means for the places where requests are.
LEMMA Locks ==
  ASSUME CacheType, CacheInv, ~fileRequests
  PROVE  /\ Alone => \A u \in Threads : req[u].pc = "idle"
         /\ Exclusive = {} => \A u \in Threads : req[u].pc \notin Changing
<1>1. ASSUME NEW u \in Threads PROVE req[u] \in Job
  BY Zenon DEF CacheType
<1>2. ASSUME NEW u \in Threads, req[u].pc \in Reading PROVE u \in Shared
  BY <1>2, Zenon DEF CacheInv, LookupInv, Shared, Reading
<1>3. ASSUME NEW u \in Threads, req[u].pc \in Changing PROVE u \in Exclusive
  <2>1. req[u] \in ChangeJob
    BY <1>1, <1>3, Shape, Zenon
  <2>2. req[u].kind \in {"create", "remove", "rename", "write"}
    BY <2>1, Zenon DEF ChangeJob
  <2>3. req[u].kind # "write" /\ req[u].pc # "idle"
    BY <1>3, Zenon DEF CacheInv, ChangeInv, Changing
  <2> QED
    BY <2>2, <2>3, Zenon DEF Exclusive
<1>4. ASSUME NEW u \in Threads PROVE req[u].pc \in {"idle"} \cup Reading \cup Changing
  BY <1>1, Shape, Zenon
<1> QED
  BY <1>2, <1>3, <1>4, Zenon DEF Alone

LEMMA CacheInductive == CacheType /\ CacheInv /\ [Next]_vars => CacheInv'
<1> SUFFICES ASSUME CacheType, CacheInv, [Next]_vars, ~fileRequests' PROVE CacheInv'
  BY Zenon DEF CacheInv
<1>0. req \in [Threads -> Job] /\ vers \in Nat /\ file \in List /\ own \in [Names -> Nat]
  BY Zenon DEF CacheType
<1>a. ~fileRequests
  BY ZenonT(30) DEF Next, vars, Continue, Fetch, FetchFails, StoreCache, StoreTTL, Lookup, Getattr, EndTTL,
         LoadList, AppendEntry, BeginRead, Create, Remove, Write, Rename, TimePasses, Remote
<1>b. \A u \in Threads : req[u].pc \in {"idle"} \cup Reading \cup Changing
  BY <1>0, Shape, Zenon
<1>c. /\ \A n \in Names : own[n] <= file[n].ver /\ file[n].ver <= vers /\ file[n] \in was[n]
      /\ fresh => Good(cache)
      /\ \A t \in Threads : LookupInv(t) /\ ChangeInv(t)
  BY <1>a, Zenon DEF CacheInv
<1>1. CASE UNCHANGED vars
  BY <1>1, Zenon DEF CacheInv, LookupInv, ChangeInv, Good, vars
<1>2. ASSUME NEW t \in Threads, ChangeStep(t) PROVE CacheInv'
  <2>1. PICK gone \in SUBSET Names, there \in SUBSET Names :
          /\ Changed(gone, there)
          /\ req'[t].pc = "expire" /\ req'[t].names = gone \cup there /\ req'[t].ver = vers + 1
          /\ \A u \in Threads \ {t} : req'[u] = req[u]
          /\ UNCHANGED <<fileRequests, cache, fresh, own, answer>>
          /\ ~fileRequests => Alone /\ req'[t].kind # "write"
    BY <1>2, ChangeCommon, Zenon
  <2>2. /\ vers' = vers + 1
        /\ \A n \in Names : /\ was[n] \subseteq was'[n] /\ file'[n] \in was'[n]
                            /\ n \in gone \cup there => file'[n].ver = vers + 1
                            /\ n \notin gone \cup there => file'[n] = file[n]
    <3>1. /\ vers' = vers + 1
          /\ \A n \in Names : /\ was[n] \subseteq was'[n] /\ (~fileRequests => file'[n] \in was'[n])
                              /\ n \in gone \cup there => file'[n].ver = vers + 1
                              /\ n \notin gone \cup there => file'[n] = file[n]
      BY <2>1, ServerChanges, Zenon
    <3> QED
      BY <1>a, <3>1, Zenon
  <2>3. \A u \in Threads \ {t} : req'[u].pc = "idle"
    BY <1>a, <2>1, Locks, Zenon
  <2>4. \A n \in Names : own'[n] <= file'[n].ver /\ file'[n].ver <= vers'
    <3>1. \A n \in Names : file[n].ver \in Nat /\ own[n] \in Nat
      BY <1>0, Zenon DEF List, State
    <3> QED
      BY <1>0, <1>c, <2>1, <2>2, <3>1
  <2>5. fresh' => Good(cache)'
    <3>1. fresh => Good(cache)
      BY <1>c, Zenon
    <3>2. cache' = cache /\ own' = own /\ fresh' = fresh
      BY <2>1, Zenon
    <3> QED
      BY <2>2, <3>1, <3>2, Zenon DEF Good
  <2>6. \A u \in Threads : LookupInv(u)'
    BY <2>1, <2>3, Zenon DEF LookupInv, Reading
  <2>7. \A u \in Threads : ChangeInv(u)'
    <3>1. \A n \in gone \cup there : vers + 1 <= file'[n].ver
      BY <1>0, <2>2
    <3> QED
      BY <1>a, <2>1, <2>3, <3>1, Zenon DEF ChangeInv, Changing
  <2> QED
    BY <2>2, <2>4, <2>5, <2>6, <2>7, Zenon DEF CacheInv
<1>3. ASSUME NEW t \in Threads, NEW n \in Names, NEW kind \in {"lookup", "getattr"},
             BeginRead(t, kind, n)
      PROVE  CacheInv'
  <2>1. /\ req'[t].kind = kind /\ req'[t].pc = FirstStep /\ FirstStep \in {"fetch", "scan"}
        /\ req'[t].name = n /\ req'[t].need = own[n]
        /\ \A u \in Threads \ {t} : req'[u] = req[u]
    BY <1>3, ReadBegins
  <2>2. /\ kind = "lookup" /\ Exclusive = {}
        /\ UNCHANGED <<fileRequests, file, vers, cache, fresh, own, was>>
    BY <1>3, <1>a, Zenon DEF BeginRead
  <2>3. \A u \in Threads : req[u].pc \notin Changing
    BY <1>a, <2>2, Locks, Zenon
  <2>4. FirstStep = "scan" => Good(cache)
    BY <1>c, Zenon DEF FirstStep
  <2>5. LookupInv(t)'
    BY <2>1, <2>2, <2>4, Zenon DEF LookupInv, Good
  <2>6. \A u \in Threads \ {t} : LookupInv(u)'
    BY <1>c, <2>1, <2>2, Zenon DEF LookupInv, Good
  <2>7. \A u \in Threads : ChangeInv(u)'
    BY <2>1, <2>3, Zenon DEF ChangeInv, Changing
  <2>8. fresh' => Good(cache)'
    BY <1>c, <2>2, Zenon DEF Good
  <2> QED
    BY <1>c, <2>2, <2>5, <2>6, <2>7, <2>8, Zenon DEF CacheInv
<1>4. ASSUME NEW t \in Threads, req[t] \in ReadJob, Fetch(t) PROVE CacheInv'
  <2>1. /\ req'[t].pc = "store" /\ req'[t].snap = file
        /\ req'[t].kind = req[t].kind /\ req'[t].name = req[t].name
        /\ req'[t].need = req[t].need
        /\ \A u \in Threads \ {t} : req'[u] = req[u]
    BY <1>4, ReadFetches, Zenon
  <2>2. req[t].pc = "fetch" /\ UNCHANGED <<fileRequests, file, vers, cache, fresh, own, was>>
    BY <1>4, Zenon DEF Fetch
  <2>3. Good(file)
    <3>1. \A n \in Names : file[n].ver \in Nat /\ own[n] \in Nat
      BY <1>0, Zenon DEF List, State
    <3> QED
      BY <1>0, <1>c, <3>1, Zenon DEF Good
  <2>4. LookupInv(t)'
    BY <1>c, <2>1, <2>2, <2>3, Zenon DEF LookupInv, Good, Reading
  <2>5. \A u \in Threads \ {t} : LookupInv(u)'
    BY <1>c, <2>1, <2>2, SMTT(30) DEF LookupInv, Good
  <2>6. \A u \in Threads : ChangeInv(u)'
    BY <1>c, <2>1, <2>2, Zenon DEF ChangeInv, Changing
  <2>7. fresh' => Good(cache)'
    BY <1>c, <2>2, Zenon DEF Good
  <2> QED
    BY <1>c, <2>2, <2>4, <2>5, <2>6, <2>7, Zenon DEF CacheInv
<1>5. ASSUME NEW t \in Threads, FetchFails(t) \/ Lookup(t) \/ Getattr(t) PROVE CacheInv'
  <2>1. /\ req' = [req EXCEPT ![t] = Idle]
        /\ UNCHANGED <<fileRequests, file, vers, cache, fresh, own, was>>
    BY <1>5, Zenon DEF FetchFails, Lookup, Getattr, Answers
  <2>2. req'[t].pc = "idle" /\ \A u \in Threads \ {t} : req'[u] = req[u]
    BY <1>0, <2>1, IdlePc, OneJob, Zenon
  <2>3. \A u \in Threads : LookupInv(u)'
    BY <1>c, <2>1, <2>2 DEF LookupInv, Good, Reading
  <2>4. \A u \in Threads : ChangeInv(u)'
    BY <1>c, <2>1, <2>2, SMTT(30) DEF ChangeInv, Changing
  <2>5. fresh' => Good(cache)'
    BY <1>c, <2>1, Zenon DEF Good
  <2> QED
    BY <1>c, <2>1, <2>3, <2>4, <2>5, Zenon DEF CacheInv
<1>6. ASSUME NEW t \in Threads, req[t] \in ReadJob, StoreCache(t) PROVE CacheInv'
  <2>1. /\ req'[t].pc = "ttl" /\ req'[t].kind = req[t].kind /\ req'[t].name = req[t].name
        /\ req'[t].need = req[t].need
        /\ \A u \in Threads \ {t} : req'[u] = req[u]
    <3>1. "ttl" \in Reading /\ Goes(t, "ttl")
      BY <1>6, Zenon DEF StoreCache, Reading
    <3> QED
      BY <1>0, <1>6, <3>1, GoesRead, Zenon
  <2>2. /\ req[t].pc = "store" /\ cache' = req[t].snap
        /\ UNCHANGED <<fileRequests, file, vers, fresh, own, was>>
    BY <1>6, Zenon DEF StoreCache
  <2>3. Good(req[t].snap)
    BY <1>c, <2>2, Zenon DEF LookupInv, Reading
  <2>4. Good(cache)'
    BY <2>2, <2>3, Zenon DEF Good
  <2>5. LookupInv(t)'
    BY <1>c, <2>1, <2>2, <2>4, Zenon DEF LookupInv, Reading
  <2>6. \A u \in Threads \ {t} : LookupInv(u)'
    BY <1>c, <2>1, <2>2, <2>4, SMTT(30) DEF LookupInv, Good
  <2>7. \A u \in Threads : ChangeInv(u)'
    BY <1>c, <2>1, <2>2, Zenon DEF ChangeInv, Changing
  <2> QED
    BY <1>c, <2>2, <2>4, <2>5, <2>6, <2>7, Zenon DEF CacheInv
<1>7. ASSUME NEW t \in Threads, req[t] \in ReadJob, StoreTTL(t) PROVE CacheInv'
  <2>1. /\ req'[t].pc = "scan" /\ req'[t].kind = req[t].kind /\ req'[t].name = req[t].name
        /\ req'[t].need = req[t].need
        /\ \A u \in Threads \ {t} : req'[u] = req[u]
    <3>1. "scan" \in Reading /\ Goes(t, "scan")
      BY <1>7, Zenon DEF StoreTTL, Reading
    <3> QED
      BY <1>0, <1>7, <3>1, GoesRead, Zenon
  <2>2. req[t].pc = "ttl" /\ UNCHANGED <<fileRequests, file, vers, cache, own, was>>
    BY <1>7, Zenon DEF StoreTTL
  <2>3. Good(cache)'
    BY <1>c, <2>2, Zenon DEF LookupInv, Reading, Good
  <2>4. \A u \in Threads : LookupInv(u)'
    BY <1>c, <2>1, <2>2, <2>3, SMTT(30) DEF LookupInv, Good, Reading
  <2>5. \A u \in Threads : req[u].pc \notin Changing
    BY <1>c, <2>2, Zenon DEF ChangeInv, Changing
  <2>6. \A u \in Threads : ChangeInv(u)'
    BY <2>1, <2>5, Zenon DEF ChangeInv, Changing
  <2> QED
    BY <1>c, <2>2, <2>3, <2>4, <2>6, Zenon DEF CacheInv
<1>8. ASSUME NEW t \in Threads, req[t] \in ChangeJob, EndTTL(t) PROVE CacheInv'
  <2>1. /\ req[t].pc = "expire" /\ ~fresh'
        /\ UNCHANGED <<fileRequests, file, vers, cache, was>>
    BY <1>8, Zenon DEF EndTTL
  <2>2. /\ \A u \in Threads \ {t} : req[u].pc = "idle"
        /\ \A n \in req[t].names : req[t].ver <= file[n].ver
        /\ req[t].kind # "write"
    BY <1>c, <2>1, Zenon DEF ChangeInv, Changing
  <2>3. CASE Goes(t, "load") /\ UNCHANGED own
    <3>1. "load" \in Changing
      BY Zenon DEF Changing
    <3>2. /\ req'[t].pc = "load" /\ req'[t].kind = req[t].kind
          /\ req'[t].names = req[t].names /\ req'[t].ver = req[t].ver
          /\ \A u \in Threads \ {t} : req'[u] = req[u]
      BY <1>0, <1>8, <2>3, <3>1, GoesChange, Zenon
    <3>3. \A u \in Threads : LookupInv(u)'
      BY <2>2, <3>2, Zenon DEF LookupInv, Reading
    <3>4. \A u \in Threads : ChangeInv(u)'
      BY <2>1, <2>2, <3>2, SMTT(30) DEF ChangeInv, Changing
    <3> QED
      BY <1>c, <2>1, <2>3, <3>3, <3>4, Zenon DEF CacheInv
  <2>4. CASE Returns(t)
    <3>1. /\ req'[t].pc = "idle" /\ \A u \in Threads \ {t} : req'[u] = req[u]
          /\ \A n \in Names : own'[n] = own[n] \/ (n \in req[t].names /\ own'[n] = req[t].ver)
      BY <1>8, <2>4, Returned, Zenon
    <3>2. \A n \in Names : own'[n] <= file'[n].ver
      BY <1>c, <2>1, <2>2, <3>1, Zenon
    <3>3. \A u \in Threads : LookupInv(u)' /\ ChangeInv(u)'
      BY <2>2, <3>1, Zenon DEF LookupInv, ChangeInv, Reading, Changing
    <3> QED
      BY <1>c, <2>1, <3>2, <3>3, Zenon DEF CacheInv
  <2> QED
    BY <1>8, <2>3, <2>4, Zenon DEF EndTTL
<1>9. ASSUME NEW t \in Threads, req[t] \in ChangeJob, LoadList(t) PROVE CacheInv'
  <2>1. /\ req'[t].pc = "append" /\ req'[t].kind = req[t].kind
        /\ req'[t].names = req[t].names /\ req'[t].ver = req[t].ver
        /\ \A u \in Threads \ {t} : req'[u] = req[u]
    BY <1>9, ChangeLoads, Zenon
  <2>2. req[t].pc = "load" /\ UNCHANGED <<fileRequests, file, vers, cache, fresh, own, was>>
    BY <1>9, Zenon DEF LoadList
  <2>3. /\ \A u \in Threads \ {t} : req[u].pc = "idle"
        /\ \A n \in req[t].names : req[t].ver <= file[n].ver
        /\ req[t].kind # "write" /\ ~fresh
    BY <1>c, <2>2, Zenon DEF ChangeInv, Changing
  <2>4. \A u \in Threads : LookupInv(u)'
    BY <2>1, <2>3, Zenon DEF LookupInv, Reading
  <2>5. \A u \in Threads : ChangeInv(u)'
    BY <2>1, <2>2, <2>3, SMTT(30) DEF ChangeInv, Changing
  <2> QED
    BY <1>c, <2>2, <2>3, <2>4, <2>5, Zenon DEF CacheInv
<1>10. ASSUME NEW t \in Threads, req[t] \in ChangeJob, AppendEntry(t) PROVE CacheInv'
  <2>1. req[t].pc = "append" /\ UNCHANGED <<fileRequests, file, vers, fresh, was>>
    BY <1>10, Zenon DEF AppendEntry
  <2>2. /\ \A u \in Threads \ {t} : req[u].pc = "idle"
        /\ \A n \in req[t].names : req[t].ver <= file[n].ver
        /\ ~fresh
    BY <1>c, <2>1, Zenon DEF ChangeInv, Changing
  <2>3. /\ req'[t].pc = "idle" /\ \A u \in Threads \ {t} : req'[u] = req[u]
        /\ \A n \in Names : own'[n] = own[n] \/ (n \in req[t].names /\ own'[n] = req[t].ver)
    <3>1. Returns(t)
      BY <1>10, Zenon DEF AppendEntry, StoreList
    <3> QED
      BY <1>10, <3>1, Returned, Zenon
  <2>4. \A n \in Names : own'[n] <= file'[n].ver
    BY <1>c, <2>1, <2>2, <2>3, Zenon
  <2>5. \A u \in Threads : LookupInv(u)' /\ ChangeInv(u)'
    BY <2>2, <2>3, Zenon DEF LookupInv, ChangeInv, Reading, Changing
  <2> QED
    BY <1>c, <2>1, <2>2, <2>4, <2>5, Zenon DEF CacheInv
<1>11. CASE TimePasses
  <2>1. ~fresh' /\ UNCHANGED <<fileRequests, file, vers, cache, req, own, was>>
    BY <1>11, Zenon DEF TimePasses
  <2>2. \A u \in Threads : LookupInv(u)' /\ ChangeInv(u)'
    BY <1>c, <2>1, Zenon DEF LookupInv, ChangeInv, Good
  <2> QED
    BY <1>c, <2>1, <2>2, Zenon DEF CacheInv
<1>12. ASSUME NEW n \in Names, Remote(n) PROVE CacheInv'
  <2>1. PICK gone \in SUBSET Names, there \in SUBSET Names : Changed(gone, there)
    BY <1>12, Zenon DEF Remote
  <2>2. UNCHANGED <<fileRequests, cache, fresh, req, own>>
    BY <1>12, Zenon DEF Remote
  <2>3. /\ vers' = vers + 1
        /\ \A m \in Names : /\ was[m] \subseteq was'[m] /\ file'[m] \in was'[m]
                            /\ file'[m].ver = vers + 1 \/ file'[m] = file[m]
    <3>1. /\ vers' = vers + 1
          /\ \A m \in Names : /\ was[m] \subseteq was'[m] /\ (~fileRequests => file'[m] \in was'[m])
                              /\ m \in gone \cup there => file'[m].ver = vers + 1
                              /\ m \notin gone \cup there => file'[m] = file[m]
      BY <2>1, ServerChanges, ZenonT(30)
    <3> QED
      BY <1>a, <3>1, Zenon
  <2>4. \A m \in Names : own[m] <= file'[m].ver /\ file'[m].ver <= vers' /\ file[m].ver <= file'[m].ver
    <3>1. \A m \in Names : file[m].ver \in Nat /\ own[m] \in Nat
      BY <1>0, Zenon DEF List, State
    <3> QED
      BY <1>0, <1>c, <2>3, <3>1
  <2>5. \A u \in Threads : LookupInv(u)'
    BY <1>c, <2>2, <2>3, Zenon DEF LookupInv, Good
  <2>6. \A u \in Threads : ChangeInv(u)'
    <3> SUFFICES ASSUME NEW u \in Threads, req[u].pc \in Changing PROVE ChangeInv(u)'
      BY <2>2, Zenon DEF ChangeInv
    <3>1. req[u] \in ChangeJob
      BY <1>0, Shape, Zenon
    <3>2. req[u].ver \in Nat /\ req[u].names \subseteq Names
      BY <3>1, Zenon DEF ChangeJob
    <3>3. \A m \in Names : file[m].ver \in Nat /\ file'[m].ver \in Nat
      BY <1>0, <2>3, SMTT(30) DEF List, State
    <3>4. \A m \in req[u].names : req[u].ver <= file'[m].ver
      BY <1>c, <2>4, <3>2, <3>3, SMTT(30) DEF ChangeInv
    <3> QED
      BY <1>c, <2>2, <3>4, Zenon DEF ChangeInv
  <2>7. fresh' => Good(cache)'
    BY <1>c, <2>2, <2>3, Zenon DEF Good
  <2> QED
    BY <2>2, <2>3, <2>4, <2>5, <2>6, <2>7, Zenon DEF CacheInv
<1> QED
  BY <1>1, <1>2, <1>3, <1>4, <1>5, <1>6, <1>7, <1>8, <1>9, <1>10, <1>11, <1>12, Steps, Zenon

-------------------------------------------------------------------------------
(* The answers.                                                             *)

\* A Lookup answers from a good list.
LEMMA AnswerInductive == CacheType /\ CacheInv /\ AnswerInv /\ [Next]_vars => AnswerInv'
<1> SUFFICES ASSUME CacheType, CacheInv, AnswerInv, [Next]_vars PROVE AnswerInv'
  BY Zenon
<1>0. \A n \in Names : was[n] \subseteq was'[n]
  <2>1. CASE UNCHANGED was
    BY <2>1, Zenon
  <2>2. ASSUME NEW gone \in SUBSET Names, NEW there \in SUBSET Names, Changed(gone, there)
        PROVE  \A n \in Names : was[n] \subseteq was'[n]
    BY <2>2, ServerChanges, Zenon
  <2>3. ASSUME NEW n \in Names, Remote(n)
        PROVE  \E gone, there \in SUBSET Names : Changed(gone, there)
    BY <2>3, Zenon DEF Remote
  <2>4. ASSUME NEW t \in Threads, ChangeStep(t)
        PROVE  \E gone, there \in SUBSET Names : Changed(gone, there)
    BY <2>4, ChangeCommon, Zenon
  <2>5. \/ UNCHANGED was
        \/ \E n \in Names : Remote(n)
        \/ \E t \in Threads : ChangeStep(t)
    BY ZenonT(30) DEF Next, vars, Continue, Fetch, FetchFails, StoreCache, StoreTTL, Lookup, Getattr, EndTTL,
           LoadList, AppendEntry, BeginRead, ChangeStep, TimePasses
  <2> QED
    BY <2>1, <2>2, <2>3, <2>4, <2>5, Zenon
<1>1. CASE UNCHANGED <<answer, fileRequests>>
  BY <1>0, <1>1, Zenon DEF AnswerInv, OwnChangesSeen, AnswersWereTrue
<1>2. ASSUME NEW t \in Threads, req[t] \in ReadJob, Lookup(t) \/ Getattr(t) PROVE AnswerInv'
  <2>1. req[t].pc = "scan" /\ UNCHANGED <<fileRequests, was>>
    BY <1>2, Zenon DEF Lookup, Getattr
  <2>2. CASE fileRequests
    <3>1. answer' = answer
      BY <1>2, <2>2, ZenonT(30) DEF Lookup, Getattr, Answers, Recorded
    <3> QED
      BY <1>1, <2>1, <3>1, Zenon
  <2>3. CASE ~fileRequests
    <3>1. req[t].kind = "lookup" /\ req[t].need = own[req[t].name] /\ Good(cache)
      BY <2>1, <2>3, Zenon DEF CacheInv, LookupInv, Reading
    <3>2. req[t].name \in Names
      BY <1>2, Zenon DEF ReadJob
    <3>3. answer' = [name |-> req[t].name, need |-> req[t].need, got |-> cache[req[t].name]]
      BY <1>2, <2>3, <3>1, Zenon DEF Lookup, Getattr, Answers, Recorded
    <3>4. cache[req[t].name].ver >= req[t].need /\ cache[req[t].name] \in was[req[t].name]
      BY <3>1, <3>2, Zenon DEF Good
    <3> QED
      BY <2>1, <2>3, <3>2, <3>3, <3>4, Zenon DEF AnswerInv, OwnChangesSeen, AnswersWereTrue
  <2> QED
    BY <2>2, <2>3, Zenon
<1>3. \/ UNCHANGED <<answer, fileRequests>>
      \/ \E t \in Threads : req[t] \in ReadJob /\ (Lookup(t) \/ Getattr(t))
  BY Steps, ZenonT(30) DEF vars, Fetch, FetchFails, StoreCache, StoreTTL, EndTTL, LoadList, AppendEntry,
               BeginRead, ChangeStep, Create, Remove, Write, Rename, TimePasses, Remote
<1> QED
  BY <1>1, <1>2, <1>3, Zenon

LEMMA InitInv == Init => MountInv
<1> SUFFICES ASSUME Init PROVE MountInv
  BY Zenon
<1>1. req \in [Threads -> Job] /\ \A t \in Threads : req[t].pc = "idle"
  BY IdlePc, Zenon DEF Init
<1>2. file \in List /\ \A n \in Names : file[n].ver = 0
  BY DEF Init, List, State
<1>3. was = [n \in Names |-> IF fileRequests THEN {} ELSE {file[n]}]
  BY Zenon DEF Init, Recorded
<1>4. was \in [Names -> SUBSET State] /\ (~fileRequests => \A n \in Names : file[n] \in was[n])
  BY <1>2, <1>3, Zenon DEF List
<1>5. CacheType
  BY <1>1, <1>2, <1>4, Zenon DEF Init, CacheType
<1>6. CacheInv
  BY <1>1, <1>2, <1>4, SMTT(30) DEF Init, CacheInv, LookupInv, ChangeInv, Reading, Changing
<1>7. AnswerInv
  BY Zenon DEF Init, AnswerInv, OwnChangesSeen, AnswersWereTrue
<1> QED
  BY <1>5, <1>6, <1>7, Zenon DEF MountInv

LEMMA MountInvariant == Spec => []MountInv
<1>1. Init => MountInv
  BY InitInv, Zenon
<1>2. MountInv /\ [Next]_vars => MountInv'
  BY TypeInductive, CacheInductive, AnswerInductive, Zenon DEF MountInv
<1> QED
  BY <1>1, <1>2, PTL DEF Spec

\* A Lookup that is called after a Create, Unlink or Rename of the mount has
\* returned answers with its effect, for any number of requests: the TTL has been
\* ended in time.
THEOREM LookupSeesOwnChanges == Spec => []OwnChangesSeen
<1>1. MountInv => OwnChangesSeen
  BY Zenon DEF MountInv, AnswerInv
<1> QED
  BY <1>1, MountInvariant, PTL

\* A Lookup answers with a state that the server has had: the list to which Create
\* appends is not used before it was read again.
THEOREM LookupTellsNoTales == Spec => []AnswersWereTrue
<1>1. MountInv => AnswersWereTrue
  BY Zenon DEF MountInv, AnswerInv
<1> QED
  BY <1>1, MountInvariant, PTL
===============================================================================
