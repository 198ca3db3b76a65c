------------------------------ MODULE FidsProofs ------------------------------
(***************************************************************************)
(* What the handlers of fs/server.go keep up about fids and open files for *)
(* any number of workers, fids and nodes.                                  *)
(***************************************************************************)
EXTENDS Fids, TLAPS

-------------------------------------------------------------------------------
(* The inductive invariant, in parts.                                       *)

InfoType == [n : Node \cup {None}, mode : Modes \cup {"none", "Ordwr"}, uname : BOOLEAN,
             extra : {"none", "children", "created", "user", "error"}]
PCs == {"idle", "walk", "open", "setMode", "create", "store", "createOpen", "read", "write",
        "clunk", "close", "remove", "removeFile"}
JobType == [pc : PCs, fid : Fid \cup {None}, newfid : Fid \cup {None},
            mode : Modes \cup {"none"}, info : Info \cup {None}, node : Node \cup {None}]

Types ==
  /\ fids \in [Fid -> Info \cup {None}]
  /\ info \in [Info -> InfoType]
  /\ work \in [Workers -> JobType]
  /\ authing \subseteq Info

\* The handlers that have taken the fid out of the table, or have put another
\* fidInfo there, and go on with the old one.
DetachedPCs == {"close", "removeFile", "createOpen"}

\* What a handler knows of its job, of its fid and of its fidInfo.
JobOK(w) ==
  LET j == work[w]
      x == info[j.info]
  IN /\ j.pc = "idle" => j = Idle
     /\ j.pc # "idle" => j.fid \in Fid /\ j.info \in Info /\ x.n \in Node
     /\ j.pc \notin {"idle"} \cup DetachedPCs => j.info = fids[j.fid]
     /\ j.pc \in {"close", "removeFile"} => fids[j.fid] = None
     /\ j.newfid # None <=> j.pc = "walk"
     /\ j.newfid # None => fids[j.newfid] = None
     /\ j.pc \in {"open", "setMode", "create", "store", "createOpen"} => j.mode # "none"
     /\ j.pc \in {"open", "setMode"} => x.mode = "none"
     /\ j.pc = "setMode" /\ IsDir(x.n) => x.extra = "children"
     /\ j.pc \in {"create", "store"} => IsDir(x.n)
     /\ j.pc = "store" => j.node \in Dirs \cup Files
     /\ j.pc = "createOpen" =>
          /\ j.node \in Files /\ fids[j.fid] # None
          /\ info[fids[j.fid]].n = j.node /\ info[fids[j.fid]].mode # "none"
     /\ j.pc \in {"read", "write"} => ~IsDir(x.n) /\ x.mode # "none"
     /\ j.pc = "close" => ~IsDir(x.n)

\* The server means the File n to have the descriptor f open: f stands for n and is
\* open, or Open has not marked it yet, or Clunk has not closed it yet.
Means(n, f) ==
  /\ ~IsDir(n)
  /\ \/ /\ fids[f] # None /\ info[fids[f]].n = n /\ info[fids[f]].mode # "none"
        /\ <<n, f>> \notin apart
        /\ \A w \in Workers : work[w].fid = f => work[w].pc # "createOpen"
     \/ \E w \in Workers :
          /\ work[w].fid = f /\ info[work[w].info].n = n
          /\ work[w].pc = "setMode" \/ (work[w].pc = "close" /\ <<n, f>> \notin apart)

\* What the table and the Files say of a fid: Files keep the descriptors that the
\* server means to be open, and no others; and a directory that is open has its
\* list of children, or was opened by Create.
FidOK(f) ==
  /\ fids[f] # None => info[fids[f]].n \in Node
  /\ fids[f] # None /\ IsDir(info[fids[f]].n) /\ info[fids[f]].mode # "none"
       => info[fids[f]].extra \in {"children", "created"}
  /\ \A n \in Node : (<<n, f>> \in handles /\ <<n, f>> \notin apart) <=> Means(n, f)

\* A client that sends one request at a time for a fid has one handler for it.
Own(w) == {work[w].fid, work[w].newfid} \ {None}
AloneInv == \A v, w \in Workers : v # w => Own(v) \cap Own(w) = {}

\* No two fids share a fidInfo, and a fidInfo that a handler goes on with after it
\* has left the table is not in the table.
PointerInv ==
  /\ \A f, g \in Fid : fids[f] # None /\ fids[f] = fids[g] => f = g
  /\ \A w \in Workers, f \in Fid : work[w].pc \in DetachedPCs => fids[f] # work[w].info

\* What authFuncs run for is the stream file.
AuthInv == \A i \in authing : info[i].n = AuthFile

FidsInv ==
  /\ Types /\ AloneInv /\ PointerInv /\ AuthInv
  /\ (\A w \in Workers : JobOK(w)) /\ (\A f \in Fid : FidOK(f))
  /\ misuse = {} /\ panic # "no list"

\* A fidInfo can be allocated.
Room == \E i \in Info : i \notin Live \cup Fid

-------------------------------------------------------------------------------
(* What a step leaves alone.                                                *)

\* A change of extra says something only of directories.
Alike(x, y) == x.n = y.n /\ x.mode = y.mode /\ (x.extra = y.extra \/ ~IsDir(y.n))

\* Files keep the descriptors of fids that are not in F.
HandlesKept(F) ==
  \A n \in Node, g \in Fid \ F :
    /\ <<n, g>> \in handles' <=> <<n, g>> \in handles
    /\ <<n, g>> \in apart' <=> <<n, g>> \in apart

\* The step changes only the fids in F and the handlers in W, at most one, and
\* writes only to fidInfos in S, which other fids and handlers do not use; m is
\* the memory after it.
Within(W, F, m, S) ==
  /\ m \in [Info -> InfoType]
  /\ \A i \in Info : i \in Live' => info'[i] = m[i]
  /\ \A i \in Info : i \in Live => m[i].n = info[i].n /\ (i \notin S => Alike(m[i], info[i]))
  /\ \A v, w \in W : v = w
  /\ \A v \in Workers \ W : work'[v] = work[v] /\ Own(v) \cap F = {} /\ work[v].info \notin S
  /\ \A w \in W : Own(w) \subseteq F /\ Own(w)' \subseteq F
  /\ \A g \in Fid \ F : fids'[g] = fids[g] /\ fids[g] \notin S
  /\ HandlesKept(F)
  /\ authing' \subseteq Info /\ \A i \in authing' : i \in authing \/ m[i].n = AuthFile

\* None is no address.
LEMMA NoneNotInfo == None \notin Info
BY FidsAssumption DEF Info

\* What is used is live.
LEMMA Used ==
  /\ \A f \in Fid : fids[f] \in Live
  /\ \A w \in Workers : work[w].info \in Live
  /\ \A i \in authing : i \in Live
BY Zenon DEF Live

LEMMA UsedNext ==
  /\ \A f \in Fid : fids'[f] \in Live'
  /\ \A w \in Workers : work'[w].info \in Live'
  /\ \A i \in authing' : i \in Live'
BY Zenon DEF Live

\* The other handlers and fids keep what the invariant says of them.
LEMMA Frame ==
  ASSUME FidsInv, NEW W \in SUBSET Workers, NEW F \in SUBSET Fid, NEW m, NEW S,
         Within(W, F, m, S)
  PROVE  /\ AloneInv' /\ AuthInv'
         /\ \A v \in Workers \ W : JobOK(v)'
         /\ \A g \in Fid \ F : FidOK(g)'
<1> USE DEF Within
<1>0. \A i \in Info : i \in Live /\ i \in Live' /\ i \notin S => Alike(info'[i], info[i])
  BY Zenon
<1>1. AloneInv'
  <2>1. \A v \in Workers \ W : Own(v)' = Own(v)
    BY Zenon DEF Own
  <2>2. ASSUME NEW v \in Workers, NEW w \in Workers, v # w PROVE Own(v)' \cap Own(w)' = {}
    <3>1. CASE v \in W
      BY <2>1, <2>2, <3>1
    <3>2. CASE w \in W
      BY <2>1, <2>2, <3>2
    <3>3. CASE v \notin W /\ w \notin W
      BY <2>1, <2>2, <3>3, ZenonT(30) DEF FidsInv, AloneInv
    <3> QED
      BY <3>1, <3>2, <3>3, Zenon
  <2> QED
    BY <2>2, Zenon DEF AloneInv
<1>2. AuthInv'
  BY Used, UsedNext, Zenon DEF FidsInv, Types, AuthInv
<1>3. \A g \in Fid \ F : fids[g] # None =>
        /\ fids[g] \in Info /\ fids'[g] = fids[g]
        /\ info'[fids[g]].n = info[fids[g]].n
        /\ info'[fids[g]].mode = info[fids[g]].mode
        /\ info'[fids[g]].extra = info[fids[g]].extra \/ ~IsDir(info[fids[g]].n)
  <2>1. \A g \in Fid \ F : fids[g] \in Info \cup {None} /\ fids[g] \in Live /\ fids[g] \in Live'
                          /\ fids'[g] = fids[g] /\ fids[g] \notin S
    BY Used, UsedNext, Zenon DEF FidsInv, Types
  <2> QED
    BY <1>0, <2>1, Zenon DEF Alike
<1>4. \A v \in Workers \ W : work[v].info # None =>
        /\ work[v].info \in Info /\ info'[work[v].info].n = info[work[v].info].n
        /\ info'[work[v].info].mode = info[work[v].info].mode
        /\ info'[work[v].info].extra = info[work[v].info].extra \/ ~IsDir(info[work[v].info].n)
  <2>1. \A v \in Workers \ W : work[v].info \in Info \cup {None} /\ work[v].info \in Live
                              /\ work[v].info \in Live' /\ work[v].info \notin S
    <3>1. \A v \in Workers \ W : work'[v].info = work[v].info
      BY Zenon
    <3> QED
      BY <3>1, Used, UsedNext, Zenon DEF FidsInv, Types, JobType
  <2> QED
    BY <1>0, <2>1, Zenon DEF Alike
<1>5. ASSUME NEW v \in Workers \ W PROVE JobOK(v)'
  <2>1. work'[v] = work[v] /\ JobOK(v) /\ work[v] \in JobType
    BY Zenon DEF FidsInv, Types
  <2>2. work[v].pc # "idle" => work[v].info # None /\ work[v].fid \in Fid \ F
    BY <2>1, NoneNotInfo, FidsAssumption DEF JobOK, Own
  <2>3. work[v].newfid # None => work[v].newfid \in Fid \ F
    BY <2>1, Zenon DEF JobType, Own
  <2> QED
    BY <1>3, <1>4, <2>1, <2>2, <2>3, SMTT(30) DEF JobOK
<1>6. ASSUME NEW g \in Fid \ F PROVE FidOK(g)'
  <2>1. FidOK(g) /\ g # None
    BY FidsAssumption, Zenon DEF FidsInv
  <2>2. \A w \in Workers : work'[w].fid = g \/ work[w].fid = g => w \notin W
    BY <2>1, Zenon DEF Own
  <2>3. \A w \in Workers : work[w].fid = g /\ work[w].pc \in {"setMode", "close"} => work[w].info # None
    <3>1. \A w \in Workers : JobOK(w)
      BY ZenonT(30) DEF FidsInv
    <3> QED
      BY <3>1, NoneNotInfo DEF JobOK
  <2>4. ASSUME NEW n \in Node PROVE Means(n, g)' <=> Means(n, g)
    BY <1>3, <1>4, <2>2, <2>3 DEF Means, HandlesKept
  <2> QED
    BY <1>3, <2>1, <2>4, Zenon DEF FidOK, HandlesKept
<1> QED
  BY <1>1, <1>2, <1>5, <1>6, Zenon

-------------------------------------------------------------------------------
(* Memory.                                                                  *)

\* The records that stand for no fidInfo and no request.
LEMMA Empty == NoInfo \in InfoType /\ Idle \in JobType
BY Zenon DEF NoInfo, InfoType, Idle, JobType, PCs

LEMMA CollectedMemory ==
  ASSUME NEW m \in [Info -> InfoType], info' = Collected(m)
  PROVE  info' \in [Info -> InfoType] /\ \A i \in Info : i \in Live' => info'[i] = m[i]
<1>1. info' = [i \in Info |-> IF i \in Live' THEN m[i] ELSE NoInfo]
  BY Zenon DEF Collected, Live
<1> QED
  BY <1>1, Empty, Zenon

\* A new fidInfo has an address that nothing uses.
LEMMA Fresh ==
  ASSUME Room, NEW f \in Fid
  PROVE  New(f) \in Info /\ New(f) \notin Live
<1>1. \E i \in Info : i \notin Live \cup Fid
  BY Zenon DEF Room
<1>2. (CHOOSE i \in Info : i \notin Live \cup Fid) \in Info
  BY <1>1, Zenon
<1>3. (CHOOSE i \in Info : i \notin Live \cup Fid) \notin Live \cup Fid
  BY <1>1, Zenon
<1>4. f \in Info
  BY Zenon DEF Info
<1> QED
  BY <1>2, <1>3, <1>4, Zenon DEF New

\* What an open or a setMode writes to is used by no other fid and no other handler.
LEMMA NotShared ==
  ASSUME FidsInv, NEW w \in Workers, work[w].pc \in {"open", "setMode"}
  PROVE  /\ work[w].info \in Info
         /\ \A v \in Workers \ {w} : work[v].info # work[w].info
         /\ \A g \in Fid \ Own(w) : fids[g] # work[w].info
<1>1. JobOK(w) /\ work[w].info \in Info /\ work[w].fid \in Fid /\ work[w].info = fids[work[w].fid]
  BY Zenon DEF FidsInv, JobOK, DetachedPCs
<1>2. work[w].fid \in Own(w)
  BY <1>1, FidsAssumption, Zenon DEF Own
<1>3. \A g \in Fid : g # work[w].fid => fids[g] # work[w].info
  BY <1>1, NoneNotInfo, ZenonT(30) DEF FidsInv, PointerInv
<1>4. ASSUME NEW v \in Workers \ {w} PROVE work[v].info # work[w].info
  <2>1. JobOK(v)
    BY Zenon DEF FidsInv
  <2>2. CASE work[v].pc = "idle"
    BY <1>1, <2>1, <2>2, NoneNotInfo DEF JobOK, Idle
  <2>3. CASE work[v].pc \in DetachedPCs
    BY <1>1, <2>3, Zenon DEF FidsInv, PointerInv
  <2>4. CASE work[v].pc \notin {"idle"} \cup DetachedPCs
    <3>1. work[v].fid \in Fid /\ work[v].info = fids[work[v].fid]
      BY <2>1, <2>4, Zenon DEF JobOK
    <3>2. work[v].fid # work[w].fid
      BY <1>2, <3>1, FidsAssumption, Zenon DEF FidsInv, AloneInv, Own
    <3> QED
      BY <1>3, <3>1, <3>2, Zenon
  <2> QED
    BY <2>2, <2>3, <2>4, Zenon
<1> QED
  BY <1>1, <1>2, <1>3, <1>4, Zenon

\* The table changes at one fid: it loses the fidInfo or gets a new one.
LEMMA Pointers ==
  ASSUME FidsInv, NEW f \in Fid, NEW p, p = None \/ (p \in Info /\ p \notin Live),
         fids' = [fids EXCEPT ![f] = p],
         \A v \in Workers : work'[v].pc \in DetachedPCs =>
           /\ work'[v].info = work[v].info /\ work[v].info \in Info
           /\ work[v].pc \in DetachedPCs \/ work[v].info = fids[f]
  PROVE  PointerInv'
<1>1. \A g \in Fid : fids'[g] = IF g = f THEN p ELSE fids[g]
  BY Zenon DEF FidsInv, Types
<1>2. \A g \in Fid : fids[g] \in Live
  BY Used, Zenon
<1>3. \A v \in Workers : work[v].info \in Live
  BY Used, Zenon
<1>0. /\ \A g, h \in Fid : fids[g] # None /\ fids[g] = fids[h] => g = h
      /\ \A v \in Workers, g \in Fid : work[v].pc \in DetachedPCs => fids[g] # work[v].info
  BY Zenon DEF FidsInv, PointerInv
<1>4. ASSUME NEW g \in Fid, NEW h \in Fid, fids'[g] # None, fids'[g] = fids'[h]
      PROVE  g = h
  <2>1. \A e \in Fid \ {f} : fids[e] # p \/ p = None
    BY <1>2, Zenon
  <2>2. CASE g = f \/ h = f
    BY <1>1, <1>4, <2>1, <2>2, Zenon
  <2>3. CASE g # f /\ h # f
    BY <1>0, <1>1, <1>4, <2>3
  <2> QED
    BY <2>2, <2>3, Zenon
<1>5. ASSUME NEW v \in Workers, work'[v].pc \in DetachedPCs, NEW g \in Fid
      PROVE  fids'[g] # work'[v].info
  <2>1. CASE g = f
    BY <1>1, <1>3, <1>5, <2>1, NoneNotInfo, Zenon
  <2>2. CASE g # f
    BY <1>0, <1>1, <1>5, <2>2, NoneNotInfo
  <2> QED
    BY <2>1, <2>2, Zenon
<1> QED
  BY <1>4, <1>5, Zenon DEF PointerInv

\* The table does not change, and no handler leaves it.
LEMMA PointersKept ==
  ASSUME FidsInv, fids' = fids,
         \A v \in Workers : work'[v].pc \in DetachedPCs => work'[v] = work[v]
  PROVE  PointerInv'
BY Zenon DEF FidsInv, PointerInv

-------------------------------------------------------------------------------
(* Kinds of steps.                                                          *)

\* No other handler has the fids of w.
LEMMA OnlyMine ==
  ASSUME FidsInv, NEW w \in Workers, work[w].pc # "idle"
  PROVE  /\ work[w].fid \in Fid /\ work[w].fid \in Own(w) /\ Own(w) \subseteq Fid
         /\ \A v \in Workers \ {w} : Own(v) \cap Own(w) = {} /\ work[v].fid # work[w].fid
<1>0. JobOK(w) /\ None \notin Fid
  BY FidsAssumption, ZenonT(30) DEF FidsInv
<1>1. work[w].fid \in Fid /\ work[w].fid # None
  BY <1>0, Zenon DEF JobOK
<1>2. work[w].fid \in Own(w) /\ Own(w) \subseteq Fid
  BY <1>1, Zenon DEF FidsInv, Types, JobType, Own
<1>3. \A v \in Workers \ {w} : Own(v) \cap Own(w) = {}
  BY Zenon DEF FidsInv, AloneInv
<1>4. \A v \in Workers \ {w} : work[v].fid # work[w].fid
  BY <1>1, <1>2, <1>3, Zenon DEF Own
<1> QED
  BY <1>1, <1>2, <1>3, <1>4, Zenon

\* What the server means to be open under a fid that w has, before a step of w ...
LEMMA MeansNow ==
  ASSUME FidsInv, NEW w \in Workers, work[w].pc # "idle", NEW f, f = work[w].fid, NEW n
  PROVE  Means(n, f) <=>
           /\ ~IsDir(n)
           /\ \/ /\ fids[f] # None /\ info[fids[f]].n = n /\ info[fids[f]].mode # "none"
                 /\ <<n, f>> \notin apart /\ work[w].pc # "createOpen"
              \/ /\ info[work[w].info].n = n
                 /\ work[w].pc = "setMode" \/ (work[w].pc = "close" /\ <<n, f>> \notin apart)
BY OnlyMine, Zenon DEF Means

\* ... and after it.
LEMMA MeansNext ==
  ASSUME FidsInv, NEW w \in Workers, work[w].pc # "idle", NEW f, f = work[w].fid, NEW n,
         NEW job, work' = [work EXCEPT ![w] = job]
  PROVE  Means(n, f)' <=>
           /\ ~IsDir(n)
           /\ \/ /\ fids'[f] # None /\ info'[fids'[f]].n = n /\ info'[fids'[f]].mode # "none"
                 /\ <<n, f>> \notin apart' /\ ~(job.fid = f /\ job.pc = "createOpen")
              \/ /\ job.fid = f /\ info'[job.info].n = n
                 /\ job.pc = "setMode" \/ (job.pc = "close" /\ <<n, f>> \notin apart')
<1>1. /\ \A v \in Workers \ {w} : work[v].fid # f
      /\ work'[w] = job /\ \A v \in Workers \ {w} : work'[v] = work[v]
  BY OnlyMine, Zenon DEF FidsInv, Types
<1>2. \A v \in Workers : work'[v].fid = f => v = w
  BY <1>1, Zenon
<1> QED
  BY <1>1, <1>2, Zenon DEF Means

\* A handler goes on or replies: what it must see to is its own job and fids.
LEMMA HandlerStep ==
  ASSUME FidsInv, NEW w \in Workers, work[w].pc # "idle",
         NEW job \in JobType, work' = [work EXCEPT ![w] = job],
         {job.fid, job.newfid} \ {None} \subseteq Own(w),
         NEW m \in [Info -> InfoType], info' = m \/ info' = Collected(m),
         NEW S, S = {} \/ (S = {work[w].info} /\ work[w].pc \in {"open", "setMode"}),
         \A i \in Info : i \in Live => m[i].n = info[i].n /\ (i \notin S => Alike(m[i], info[i])),
         fids' \in [Fid -> Info \cup {None}], \A g \in Fid \ Own(w) : fids'[g] = fids[g],
         HandlesKept(Own(w)), authing' = authing, misuse' = {}, panic' # "no list",
         PointerInv', JobOK(w)', \A g \in Own(w) : FidOK(g)'
  PROVE  FidsInv'
<1>1. Types'
  BY CollectedMemory, Zenon DEF FidsInv, Types
<1>2. /\ work'[w] = job /\ \A v \in Workers \ {w} : work'[v] = work[v]
      /\ Own(w) \subseteq Fid
  BY OnlyMine, ZenonT(30) DEF FidsInv, Types
<1>3. Within({w}, Own(w), m, S)
  <2>1. \A i \in Info : i \in Live' => info'[i] = m[i]
    BY CollectedMemory, Zenon
  <2>2. \A v \in Workers \ {w} : work[v].info \notin S
    BY NotShared, ZenonT(30)
  <2>3. ASSUME NEW g \in Fid \ Own(w) PROVE fids[g] \notin S
    <3>1. CASE S = {}
      BY <3>1, Zenon
    <3>2. CASE S = {work[w].info} /\ work[w].pc \in {"open", "setMode"}
      BY <3>2, NotShared, Zenon
    <3> QED
      BY <3>1, <3>2, Zenon
  <2>4. Own(w)' \subseteq Own(w)
    BY <1>2, Zenon DEF Own
  <2>5. \A v \in Workers \ {w} : Own(v) \cap Own(w) = {}
    BY OnlyMine, Zenon
  <2>6. authing' \subseteq Info
    BY Zenon DEF FidsInv, Types
  <2> QED
    BY <1>2, <2>1, <2>2, <2>3, <2>4, <2>5, <2>6, Zenon DEF Within
<1>4. /\ AloneInv' /\ AuthInv'
      /\ \A v \in Workers \ {w} : JobOK(v)'
      /\ \A g \in Fid \ Own(w) : FidOK(g)'
  BY <1>2, <1>3, Frame, Zenon
<1> QED
  BY <1>1, <1>4, Zenon DEF FidsInv

\* A handler is done.
LEMMA IdleOK ==
  ASSUME NEW w \in Workers, work'[w] = Idle
  PROVE  JobOK(w)'
BY DEF JobOK, Idle, DetachedPCs

\* A worker takes a request on a fid that no handler has.
LEMMA Starts ==
  ASSUME FidsInv, NEW w \in Workers, work[w] = Idle,
         NEW job \in JobType, work' = [work EXCEPT ![w] = job],
         UNCHANGED <<fids, info, handles, apart, authing, misuse>>, panic' # "no list",
         job.fid \in Fid, ~Busy(job.fid), job.newfid # None => ~Busy(job.newfid),
         job.pc \in {"walk", "open", "create", "read", "write", "clunk", "remove"},
         JobOK(w)'
  PROVE  FidsInv'
<1> DEFINE F == {job.fid, job.newfid} \ {None}
<1>1. Types'
  BY Zenon DEF FidsInv, Types
<1>2. /\ work'[w] = job /\ \A v \in Workers \ {w} : work'[v] = work[v]
      /\ F \subseteq Fid
  BY Zenon DEF FidsInv, Types, JobType
<1>3. \A v \in Workers, g \in F : g \notin {work[v].fid, work[v].newfid}
  BY Zenon DEF Busy
<1>4. Within({w}, F, info, {})
  <2>1. \A i \in Info : Alike(info[i], info[i])
    BY Zenon DEF Alike
  <2>2. \A v \in Workers : Own(v) \cap F = {}
    BY <1>3, Zenon DEF Own
  <2>3. Own(w) = {} /\ Own(w)' \subseteq F
    <3>0. work[w].fid = None /\ work[w].newfid = None
      <4>1. Idle.fid = None /\ Idle.newfid = None
        BY Zenon DEF Idle
      <4> QED
        BY <4>1, Zenon
    <3>1. Own(w) = {}
      BY <3>0, Zenon DEF Own
    <3>2. Own(w)' = F
      BY <1>2, Zenon DEF Own
    <3> QED
      BY <3>1, <3>2, Zenon
  <2>4. authing' \subseteq Info /\ info \in [Info -> InfoType]
    BY Zenon DEF FidsInv, Types
  <2> QED
    BY <1>2, <2>1, <2>2, <2>3, <2>4, Zenon DEF Within, HandlesKept
<1>5. /\ AloneInv' /\ AuthInv'
      /\ \A v \in Workers \ {w} : JobOK(v)'
      /\ \A g \in Fid \ F : FidOK(g)'
  BY <1>2, <1>4, Frame, Zenon
<1>6. PointerInv'
  BY <1>2, ZenonT(30) DEF FidsInv, PointerInv, DetachedPCs
<1>7. ASSUME NEW g \in F PROVE FidOK(g)'
  <2>1. \A v \in Workers : work[v].fid # g /\ (work'[v].fid = g => work'[v].pc \notin {"setMode", "close", "createOpen"})
    BY <1>2, <1>3, ZenonT(30)
  <2>2. \A n : Means(n, g)' <=> Means(n, g)
    BY <2>1, Zenon DEF Means
  <2>3. FidOK(g)
    BY <1>2, Zenon DEF FidsInv
  <2> QED
    BY <2>2, <2>3, Zenon DEF FidOK
<1> QED
  BY <1>1, <1>5, <1>6, <1>7, Zenon DEF FidsInv

\* Nothing the invariant speaks of changes.
LEMMA Quiet ==
  ASSUME FidsInv, UNCHANGED <<fids, info, work, handles, apart, authing, misuse>>,
         panic' # "no list"
  PROVE  FidsInv'
<1>1. Types' /\ AloneInv' /\ PointerInv' /\ AuthInv'
  BY Zenon DEF FidsInv, Types, AloneInv, Own, PointerInv, AuthInv
<1>2. \A w \in Workers : JobOK(w)'
  BY ZenonT(30) DEF FidsInv, JobOK
<1>3. ASSUME NEW f \in Fid PROVE FidOK(f)'
  <2>1. FidOK(f)
    BY Zenon DEF FidsInv
  <2>2. \A n : Means(n, f)' <=> Means(n, f)
    BY Zenon DEF Means
  <2> QED
    BY <2>1, <2>2, Zenon DEF FidOK
<1> QED
  BY <1>1, <1>2, <1>3, Zenon DEF FidsInv

\* The descriptors of f are those that its entry in the table means to be open.
AsInTable(f) ==
  \A n \in Node : (<<n, f>> \in handles' /\ <<n, f>> \notin apart') <=>
    /\ ~IsDir(n) /\ fids'[f] # None /\ info'[fids'[f]].n = n /\ info'[fids'[f]].mode # "none"
    /\ <<n, f>> \notin apart'

\* The fid that w has, and the fids it does not have.
LEMMA OwnFid ==
  ASSUME FidsInv, NEW w \in Workers, work[w].pc # "idle", NEW f, f = work[w].fid
  PROVE  /\ f \in Fid /\ f # None /\ f \in Own(w) /\ FidOK(f)
         /\ HandlesKept({f}) => HandlesKept(Own(w))
<1>1. f \in Fid /\ f \in Own(w) /\ None \notin Fid
  BY OnlyMine, FidsAssumption, Zenon
<1> QED
  BY <1>1, Zenon DEF HandlesKept, FidsInv

\* The new fid of a walk, when the walk does not store it.
LEMMA NewFid ==
  ASSUME FidsInv, NEW w \in Workers, work[w].pc # "idle", NEW f, f = work[w].fid,
         NEW job, work' = [work EXCEPT ![w] = job], job.fid \in {None, f},
         HandlesKept({f}), NEW g \in Own(w), g # f, fids'[g] = fids[g]
  PROVE  FidOK(g)'
<1>1. work \in [Workers -> JobType] /\ JobOK(w) /\ FidOK(g) /\ g \in Fid /\ None \notin Fid
  BY OnlyMine, FidsAssumption, Zenon DEF FidsInv, Types
<1>2. g = work[w].newfid /\ g # None
  BY <1>1, Zenon DEF Own
<1>3. fids[g] = None
  BY <1>1, <1>2, Zenon DEF JobOK
<1>4. \A v \in Workers \ {w} : work[v].fid # g
  BY <1>2, OnlyMine, Zenon DEF Own
<1>5. \A v \in Workers : work[v].fid # g /\ work'[v].fid # g
  BY <1>1, <1>2, <1>4, Zenon
<1>6. \A n \in Node : ~Means(n, g) /\ ~Means(n, g)'
  BY <1>3, <1>5, Zenon DEF Means
<1> QED
  BY <1>1, <1>3, <1>6, Zenon DEF FidOK, HandlesKept

\* A handler replies and leaves the table alone, or takes its fid out of it.
LEMMA Replies ==
  ASSUME FidsInv, NEW w \in Workers, work[w].pc # "idle", NEW f, f = work[w].fid,
         Reply(w), info' = Collected(info), authing' = authing, HandlesKept({f}),
         fids' = fids \/ fids' = [fids EXCEPT ![f] = None],
         misuse' = {}, panic' # "no list", AsInTable(f)
  PROVE  FidsInv'
<1>0. /\ work' = [work EXCEPT ![w] = Idle] /\ Idle \in JobType /\ Idle.fid = None /\ Idle.newfid = None
      /\ Idle.pc = "idle"
  BY Empty, Zenon DEF Reply, Idle
<1>1. /\ info \in [Info -> InfoType] /\ fids \in [Fid -> Info \cup {None}]
      /\ work \in [Workers -> JobType] /\ fids' \in [Fid -> Info \cup {None}]
  BY Zenon DEF FidsInv, Types
<1>2. work'[w] = Idle /\ \A v \in Workers \ {w} : work'[v] = work[v]
  BY <1>0, <1>1, Zenon
<1>3. f \in Fid /\ f # None /\ f \in Own(w) /\ FidOK(f) /\ HandlesKept(Own(w))
  BY OwnFid, Zenon
<1>4. PointerInv'
  <2>1. \A v \in Workers : work'[v].pc \in DetachedPCs => work'[v] = work[v]
    BY <1>0, <1>2, Zenon DEF DetachedPCs
  <2>2. \A g \in Fid : fids'[g] \in {None, fids[g]}
    BY <1>1, Zenon
  <2>3. \A v \in Workers : JobOK(v)
    BY Zenon DEF FidsInv
  <2>4. \A v \in Workers : work[v].pc \in DetachedPCs => work[v].info # None
    BY <2>3, NoneNotInfo, Zenon DEF JobOK, DetachedPCs
  <2>5. /\ \A e, g \in Fid : fids[e] # None /\ fids[e] = fids[g] => e = g
        /\ \A v \in Workers, g \in Fid : work[v].pc \in DetachedPCs => fids[g] # work[v].info
    BY Zenon DEF FidsInv, PointerInv
  <2>6. \A e, g \in Fid : fids'[e] # None /\ fids'[e] = fids'[g] => e = g
    BY <2>2, <2>5, Zenon
  <2>7. ASSUME NEW v \in Workers, NEW g \in Fid, work'[v].pc \in DetachedPCs
        PROVE  fids'[g] # work'[v].info
    BY <2>1, <2>2, <2>4, <2>5, <2>7, Zenon
  <2> QED
    BY <2>6, <2>7, Zenon DEF PointerInv
<1>5. JobOK(w)'
  BY <1>2, IdleOK, Zenon
<1>6. FidOK(f)'
  <2>1. fids'[f] # None => fids'[f] = fids[f] /\ info'[fids[f]] = info[fids[f]]
    BY <1>1, <1>3, CollectedMemory, UsedNext, Zenon
  <2>2. ASSUME NEW n \in Node
        PROVE  Means(n, f)' <=> /\ ~IsDir(n) /\ fids'[f] # None /\ info'[fids'[f]].n = n
                               /\ info'[fids'[f]].mode # "none" /\ <<n, f>> \notin apart'
    <3>1. \A v \in Workers : work'[v].fid # f
      BY <1>0, <1>2, <1>3, OnlyMine, ZenonT(30)
    <3> QED
      BY <3>1, Zenon DEF Means
  <2> QED
    BY <1>3, <2>1, <2>2, Zenon DEF FidOK, AsInTable
<1>7. ASSUME NEW g \in Own(w), g # f PROVE FidOK(g)'
  <2>1. fids'[g] = fids[g]
    BY <1>1, <1>7, OnlyMine, Zenon
  <2> QED
    BY <1>0, <1>7, <2>1, NewFid, Zenon
<1>8. \A i \in Info : Alike(info[i], info[i])
  BY Zenon DEF Alike
<1>9. \A g \in Own(w) : FidOK(g)'
  BY <1>6, <1>7, Zenon
<1>10. /\ {Idle.fid, Idle.newfid} \ {None} \subseteq Own(w)
       /\ \A g \in Fid \ Own(w) : fids'[g] = fids[g]
  BY <1>0, <1>1, <1>3, Zenon
<1> QED
  BY <1>0, <1>1, <1>3, <1>4, <1>5, <1>8, <1>9, <1>10, HandlerStep, Zenon

-------------------------------------------------------------------------------
(* The actions.                                                             *)

\* The first step of each handler.
LEMMA StartSteps ==
  ASSUME FidsInv, ~Pipelined, NEW w \in Workers, NEW f \in Fid, Start(w, f)
  PROVE  FidsInv'
<1>0. /\ FidOK(f) /\ fids[f] \in Info \cup {None} /\ f # None
      /\ work \in [Workers -> JobType] /\ Idle \in JobType
  BY FidsAssumption, Empty, Zenon DEF FidsInv, Types
<1>1. Idle.fid = None /\ Idle.newfid = None /\ Idle.mode = "none"
  BY Zenon DEF Idle
<1>2. ASSUME NEW g \in Fid, StartWalk(w, f, g) PROVE FidsInv'
  <2> DEFINE job == [[Idle EXCEPT !.pc = "walk", !.newfid = g] EXCEPT !.fid = f, !.info = fids[f]]
  <2>1. /\ work[w] = Idle /\ fids[f] # None /\ ~Busy(f) /\ fids[g] = None /\ ~Busy(g)
        /\ work' = [work EXCEPT ![w] = job] /\ panic = "none"
        /\ UNCHANGED <<fids, info, handles, authing, misuse, apart, panic>>
    BY <1>2, Zenon DEF StartWalk, Begin, Go, Running
  <2>2. /\ job \in JobType /\ job.pc = "walk" /\ job.fid = f /\ job.newfid = g
        /\ job.info = fids[f]
    BY <1>0, <2>1, ZenonT(30) DEF JobType, PCs
  <2> HIDE DEF job
  <2>3. JobOK(w)'
    <3>1. /\ work'[w] = job /\ fids' = fids /\ info' = info
          /\ fids[f] \in Info /\ info[fids[f]].n \in Node /\ g # None
      BY <1>0, <2>1, FidsAssumption, Zenon DEF FidOK
    <3> QED
      BY <2>1, <2>2, <3>1, Zenon DEF JobOK, DetachedPCs
  <2> QED
    BY <2>1, <2>2, <2>3, Starts, Zenon
<1>3. ASSUME NEW pc \in {"open", "create"}, NEW m \in Modes,
             Begin(w, pc, f), Go(w, f, [Idle EXCEPT !.pc = pc, !.mode = m]),
             pc = "open" => info[fids[f]].mode = "none", pc = "create" => IsDir(info[fids[f]].n),
             UNCHANGED <<fids, info, handles, authing, misuse, apart, panic>>
      PROVE  FidsInv'
  <2> DEFINE job == [[Idle EXCEPT !.pc = pc, !.mode = m] EXCEPT !.fid = f, !.info = fids[f]]
  <2>1. /\ work[w] = Idle /\ fids[f] # None /\ ~Busy(f)
        /\ work' = [work EXCEPT ![w] = job] /\ panic = "none"
    BY <1>3, Zenon DEF Begin, Go, Running
  <2>2. /\ job \in JobType /\ job.pc = pc /\ job.fid = f /\ job.newfid = None
        /\ job.info = fids[f] /\ job.mode = m /\ m # "none"
    BY <1>0, <1>1, <2>1, FidsAssumption, ZenonT(30) DEF JobType, PCs
  <2> HIDE DEF job
  <2>3. JobOK(w)'
    BY <1>0, <1>3, <2>1, <2>2, Zenon DEF JobOK, FidOK, DetachedPCs
  <2> QED
    BY <1>3, <2>1, <2>2, <2>3, Starts, Zenon
<1>4. ASSUME NEW pc \in {"read", "write", "clunk", "remove"},
             Begin(w, pc, f), Go(w, f, [Idle EXCEPT !.pc = pc]),
             pc \in {"read", "write"} => info[fids[f]].mode # "none" /\ ~IsDir(info[fids[f]].n),
             UNCHANGED <<fids, info, handles, authing, misuse, apart, panic>>
      PROVE  FidsInv'
  <2> DEFINE job == [[Idle EXCEPT !.pc = pc] EXCEPT !.fid = f, !.info = fids[f]]
  <2>1. /\ work[w] = Idle /\ fids[f] # None /\ ~Busy(f)
        /\ work' = [work EXCEPT ![w] = job] /\ panic = "none"
    BY <1>4, Zenon DEF Begin, Go, Running
  <2>2. /\ job \in JobType /\ job.pc = pc /\ job.fid = f /\ job.newfid = None
        /\ job.info = fids[f]
    BY <1>0, <1>1, <2>1, ZenonT(30) DEF JobType, PCs
  <2> HIDE DEF job
  <2>3. JobOK(w)'
    BY <1>0, <1>4, <2>1, <2>2, Zenon DEF JobOK, FidOK, DetachedPCs
  <2> QED
    BY <1>4, <2>1, <2>2, <2>3, Starts, Zenon
<1>5. ASSUME NEW m \in Modes, StartOpen(w, f, m) \/ StartCreate(w, f, m) PROVE FidsInv'
  BY <1>3, <1>5, Zenon DEF StartOpen, StartCreate
<1>6. CASE ReadDir(w, f)
  <2>1. /\ fids[f] # None /\ info[fids[f]].mode \in Readable /\ IsDir(info[fids[f]].n)
        /\ info[fids[f]].extra = "children" => panic' = "none"
        /\ info[fids[f]].extra = "created" => panic' = "created directory"
        /\ UNCHANGED <<fids, info, work, handles, apart, authing, misuse>>
    BY <1>6, Zenon DEF ReadDir, Begin
  <2>2. info[fids[f]].extra \in {"children", "created"}
    BY <1>0, <2>1, Zenon DEF FidOK, Readable
  <2> QED
    BY <2>1, <2>2, Quiet, Zenon
<1>7. ASSUME NEW op \in Ops, StartIO(w, op, f) PROVE FidsInv'
  <2>1. /\ op \in {"read", "write"} /\ Begin(w, op, f) /\ Go(w, f, [Idle EXCEPT !.pc = op])
        /\ info[fids[f]].mode \in Readable \cup Writable /\ ~IsDir(info[fids[f]].n)
        /\ UNCHANGED <<fids, info, handles, authing, misuse, apart, panic>>
    BY <1>7, Zenon DEF StartIO
  <2>2. info[fids[f]].mode # "none"
    BY <2>1, Zenon DEF Readable, Writable
  <2> QED
    BY <1>4, <2>1, <2>2, Zenon
<1>8. CASE StartClunk(w, f) \/ StartRemove(w, f)
  BY <1>4, <1>8, Zenon DEF StartClunk, StartRemove
<1> QED
  BY <1>2, <1>5, <1>6, <1>7, <1>8, Zenon DEF Start

\* Steps that reply: the file of a fid is used, closed or opened, or nothing is done.
LEMMA ReplySteps ==
  ASSUME FidsInv, NEW w \in Workers,
         Refuse(w) \/ CreateOpen(w) \/ IO(w) \/ ClunkClose(w) \/ RemoveFile(w)
  PROVE  FidsInv'
<1> DEFINE f == work[w].fid
           x == info[work[w].info]
<1>1. /\ work[w].pc \in {"walk", "open", "create", "removeFile", "createOpen", "read", "write", "close"}
      /\ Reply(w) /\ info' = Collected(info) /\ authing' = authing /\ fids' = fids /\ panic' = panic
  BY Zenon DEF Refuse, CreateOpen, IO, ClunkClose, RemoveFile, At
<1>2. /\ work[w].pc # "idle" /\ JobOK(w) /\ misuse = {} /\ panic # "no list"
      /\ fids \in [Fid -> Info \cup {None}] /\ info \in [Info -> InfoType]
  BY <1>1, Zenon DEF FidsInv, Types
<1>3. f \in Fid /\ f # None /\ f \in Own(w) /\ FidOK(f)
  BY <1>2, OwnFid, Zenon
<1>4. fids[f] # None => info'[fids[f]] = info[fids[f]]
  BY <1>1, <1>2, <1>3, CollectedMemory, UsedNext, Zenon
<1>5. ASSUME NEW n \in Node
      PROVE  (<<n, f>> \in handles /\ <<n, f>> \notin apart) <=>
               /\ ~IsDir(n)
               /\ \/ /\ fids[f] # None /\ info[fids[f]].n = n /\ info[fids[f]].mode # "none"
                     /\ <<n, f>> \notin apart /\ work[w].pc # "createOpen"
                  \/ /\ x.n = n
                     /\ work[w].pc = "setMode" \/ (work[w].pc = "close" /\ <<n, f>> \notin apart)
  BY <1>2, <1>3, MeansNow, ZenonT(30) DEF FidOK
<1>6. ASSUME handles' = handles, apart' = apart, misuse' = misuse,
             work[w].pc \notin {"createOpen", "close"}
      PROVE  FidsInv'
  <2>1. HandlesKept({f})
    BY <1>6, Zenon DEF HandlesKept
  <2>2. AsInTable(f)
    BY <1>1, <1>4, <1>5, <1>6, Zenon DEF AsInTable
  <2> QED
    BY <1>1, <1>2, <1>6, <2>1, <2>2, Replies, Zenon
<1>7. CASE Refuse(w) \/ RemoveFile(w)
  BY <1>6, <1>7, Zenon DEF Refuse, RemoveFile, At
<1>8. CASE CreateOpen(w)
  <2> DEFINE n == work[w].node
  <2>1. /\ work[w].pc = "createOpen" /\ n \in Node /\ ~IsDir(n)
        /\ fids[f] # None /\ info[fids[f]].n = n /\ info[fids[f]].mode # "none"
    BY <1>2, <1>8, FidsAssumption, ZenonT(30) DEF CreateOpen, At, JobOK, Node, IsDir
  <2>2. /\ misuse' = {} /\ HandlesKept({f})
        /\ \/ handles' = handles \cup {<<n, f>>} /\ apart' = apart \ {<<n, f>>}
           \/ handles' = handles /\ apart' = apart \cup {<<n, f>>}
    <3>1. ~(<<n, f>> \in handles /\ <<n, f>> \notin apart)
      BY <1>5, <2>1, Zenon
    <3>2. \/ FileOpen(n, f)
          \/ handles' = handles /\ apart' = apart \cup {<<n, f>>} /\ misuse' = misuse
      BY <1>8, Zenon DEF CreateOpen
    <3> QED
      BY <1>2, <3>1, <3>2, Zenon DEF FileOpen, HandlesKept
  <2>3. AsInTable(f)
    <3> SUFFICES ASSUME NEW y \in Node
                 PROVE  (<<y, f>> \in handles' /\ <<y, f>> \notin apart') <=>
                          /\ ~IsDir(y) /\ fids'[f] # None /\ info'[fids'[f]].n = y
                          /\ info'[fids'[f]].mode # "none" /\ <<y, f>> \notin apart'
      BY Zenon DEF AsInTable
    <3>1. ~(<<y, f>> \in handles /\ <<y, f>> \notin apart)
      BY <1>5, <2>1, Zenon
    <3> QED
      BY <1>1, <1>4, <2>1, <2>2, <3>1, ZenonT(30)
  <2> QED
    BY <1>1, <1>2, <2>2, <2>3, Replies, Zenon
<1>9. CASE IO(w)
  <2>1. /\ work[w].pc \in {"read", "write"} /\ work[w].info = fids[f] /\ fids[f] # None
        /\ x.n \in Node /\ ~IsDir(x.n) /\ x.mode # "none"
    BY <1>2, <1>9, NoneNotInfo, Zenon DEF IO, At, JobOK, DetachedPCs
  <2>2. <<x.n, f>> \in handles \cup apart
    BY <1>5, <2>1, Zenon
  <2>3. handles' = handles /\ apart' = apart /\ misuse' = misuse
    BY <1>9, <2>1, <2>2, Zenon DEF IO, FileUse
  <2> QED
    BY <1>6, <2>1, <2>3, Zenon
<1>10. CASE ClunkClose(w)
  <2>1. /\ work[w].pc = "close" /\ fids[f] = None /\ x.n \in Node /\ ~IsDir(x.n)
    BY <1>2, <1>10, ZenonT(30) DEF ClunkClose, At, JobOK
  <2>2. <<x.n, f>> \in handles \cup apart
    BY <1>5, <2>1, Zenon
  <2>3. /\ handles' = handles \ {<<x.n, f>>} /\ apart' = apart \ {<<x.n, f>>} /\ misuse' = misuse
    BY <1>10, <2>2, Zenon DEF ClunkClose, FileUse
  <2>4. HandlesKept({f})
    BY <2>3, Zenon DEF HandlesKept
  <2>5. \A y \in Node : y # x.n => ~(<<y, f>> \in handles /\ <<y, f>> \notin apart)
    BY <1>5, <2>1, Zenon
  <2>6. AsInTable(f)
    BY <1>1, <2>1, <2>3, <2>5, Zenon DEF AsInTable
  <2> QED
    BY <1>1, <1>2, <2>3, <2>4, <2>6, Replies, Zenon
<1> QED
  BY <1>7, <1>8, <1>9, <1>10, Zenon

\* A handler of one fid goes on or replies; the entry of its fid is p after the step.
LEMMA FidStep ==
  ASSUME FidsInv, NEW w \in Workers, work[w].pc \notin {"idle", "walk"}, NEW f, f = work[w].fid,
         NEW job \in JobType, work' = [work EXCEPT ![w] = job],
         job.fid \in {None, f}, job.newfid = None,
         NEW m \in [Info -> InfoType], info' = m \/ info' = Collected(m),
         NEW S, S = {} \/ (S = {work[w].info} /\ work[w].pc \in {"open", "setMode"}),
         \A i \in Info : i \in Live => m[i].n = info[i].n /\ (i \notin S => Alike(m[i], info[i])),
         NEW p, fids' = [fids EXCEPT ![f] = p],
         \/ p = fids[f] /\ job.pc \notin DetachedPCs
         \/ /\ p = None \/ (p \in Info /\ p \notin Live)
            /\ work[w].pc \notin DetachedPCs
            /\ job.pc \in DetachedPCs => job.info = work[w].info,
         HandlesKept({f}), authing' = authing, misuse' = {}, panic' # "no list",
         JobOK(w)', FidOK(f)'
  PROVE  FidsInv'
<1>1. /\ f \in Fid /\ f # None /\ f \in Own(w) /\ HandlesKept(Own(w)) /\ JobOK(w)
      /\ fids \in [Fid -> Info \cup {None}] /\ work \in [Workers -> JobType]
  BY OwnFid, Zenon DEF FidsInv, Types
<1>2. Own(w) = {f}
  BY <1>1, ZenonT(30) DEF JobOK, Own
<1>3. /\ {job.fid, job.newfid} \ {None} \subseteq Own(w)
      /\ fids' \in [Fid -> Info \cup {None}]
      /\ \A g \in Fid \ Own(w) : fids'[g] = fids[g]
      /\ \A g \in Own(w) : FidOK(g)'
  BY <1>1, <1>2, Zenon
<1>4. work'[w] = job /\ \A v \in Workers \ {w} : work'[v] = work[v]
  BY <1>1, Zenon
<1>5. PointerInv'
  <2>1. CASE p = fids[f] /\ job.pc \notin DetachedPCs
    <3>1. fids' = fids
      BY <1>1, <2>1, Zenon
    <3>2. \A v \in Workers : work'[v].pc \in DetachedPCs => work'[v] = work[v]
      BY <1>4, <2>1, Zenon
    <3> QED
      BY <3>1, <3>2, PointersKept, Zenon
  <2>2. CASE /\ p = None \/ (p \in Info /\ p \notin Live)
             /\ work[w].pc \notin DetachedPCs
             /\ job.pc \in DetachedPCs => job.info = work[w].info
    <3>1. ASSUME NEW v \in Workers, work'[v].pc \in DetachedPCs
          PROVE  /\ work'[v].info = work[v].info /\ work[v].info \in Info
                 /\ work[v].pc \in DetachedPCs \/ work[v].info = fids[f]
      <4>1. JobOK(v)
        BY Zenon DEF FidsInv
      <4>2. CASE v = w
        BY <1>1, <1>4, <2>2, <3>1, <4>2, Zenon DEF JobOK
      <4>3. CASE v # w
        BY <1>4, <3>1, <4>1, <4>3, ZenonT(30) DEF JobOK, DetachedPCs
      <4> QED
        BY <4>2, <4>3, Zenon
    <3> QED
      BY <1>1, <2>2, <3>1, Pointers, Zenon
  <2> QED
    BY <2>1, <2>2, Zenon
<1> QED
  BY <1>1, <1>3, <1>5, HandlerStep, Zenon

\* Clunk and Remove take the fid out of the table and go on with its fidInfo.
LEMMA DeleteSteps ==
  ASSUME FidsInv, NEW w \in Workers, ClunkDelete(w) \/ RemoveDelete(w),
         NEW f, f = work[w].fid
  PROVE  FidsInv'
<1> DEFINE x == info[work[w].info]
<1>1. /\ work[w].pc \in {"clunk", "remove"} /\ panic' = panic /\ misuse' = misuse /\ handles' = handles
      /\ authing' = authing /\ info' = Collected(info) /\ fids' = [fids EXCEPT ![f] = None]
  BY Zenon DEF ClunkDelete, RemoveDelete, At
<1>2. /\ work[w].pc # "idle" /\ JobOK(w) /\ misuse = {} /\ panic # "no list"
      /\ fids \in [Fid -> Info \cup {None}] /\ info \in [Info -> InfoType]
      /\ work \in [Workers -> JobType] /\ work[w] \in JobType
  BY <1>1, Zenon DEF FidsInv, Types
<1>3. f \in Fid /\ f # None /\ FidOK(f)
  BY <1>2, OwnFid, Zenon
<1>4. work[w].info \in Info /\ x.n \in Node /\ work[w].info = fids[f] /\ work[w].newfid = None
  BY <1>1, <1>2, Zenon DEF JobOK, DetachedPCs
<1>5. ASSUME NEW n \in Node
      PROVE  (<<n, f>> \in handles /\ <<n, f>> \notin apart) <=>
               ~IsDir(n) /\ x.n = n /\ x.mode # "none" /\ <<n, f>> \notin apart
  <2>1. Means(n, f) <=> ~IsDir(n) /\ x.n = n /\ x.mode # "none" /\ <<n, f>> \notin apart
    <3>1. Means(n, f) <=>
            /\ ~IsDir(n)
            /\ \/ /\ fids[f] # None /\ info[fids[f]].n = n /\ info[fids[f]].mode # "none"
                  /\ <<n, f>> \notin apart /\ work[w].pc # "createOpen"
               \/ /\ info[work[w].info].n = n
                  /\ work[w].pc = "setMode" \/ (work[w].pc = "close" /\ <<n, f>> \notin apart)
      <4>1. work[w].pc # "idle"
        BY <1>2, ZenonT(30)
      <4> QED
        BY <4>1, MeansNow
    <3>2. fids[f] # None /\ work[w].pc \notin {"createOpen", "setMode", "close"}
      BY <1>1, <1>4, NoneNotInfo, Zenon
    <3> QED
      BY <1>4, <3>1, <3>2, Zenon
  <2> QED
    BY <1>3, <2>1, ZenonT(30) DEF FidOK
<1>6. fids'[f] = None
  BY <1>1, <1>2, <1>3, Zenon
<1>7. ASSUME NEW pc \in {"close", "removeFile"}, GoOn(w, pc), HandlesKept({f}),
             pc = "close" => ~IsDir(x.n),
             \A n \in Node : (<<n, f>> \in handles' /\ <<n, f>> \notin apart') <=>
               ~IsDir(n) /\ x.n = n /\ pc = "close" /\ <<n, f>> \notin apart'
      PROVE  FidsInv'
  <2> DEFINE job == [work[w] EXCEPT !.pc = pc]
  <2>1. /\ job \in JobType /\ work' = [work EXCEPT ![w] = job] /\ job.fid = f /\ job.newfid = None
        /\ job.info = work[w].info /\ job.pc = pc
    BY <1>2, <1>4, <1>7, ZenonT(30) DEF GoOn, JobType, PCs
  <2> HIDE DEF job
  <2>2. work'[w] = job /\ info'[work[w].info] = x
    <3>1. work'[w] = job
      BY <1>2, <2>1, Zenon
    <3> QED
      BY <1>1, <1>2, <1>4, <2>1, <3>1, CollectedMemory, UsedNext, Zenon
  <2>3. JobOK(w)'
    BY <1>3, <1>4, <1>6, <1>7, <2>1, <2>2, ZenonT(30) DEF JobOK, DetachedPCs
  <2>4. FidOK(f)'
    <3>1. ASSUME NEW n \in Node
          PROVE  Means(n, f)' <=> ~IsDir(n) /\ x.n = n /\ pc = "close" /\ <<n, f>> \notin apart'
      <4>1. Means(n, f)' <=>
              /\ ~IsDir(n)
              /\ \/ /\ fids'[f] # None /\ info'[fids'[f]].n = n /\ info'[fids'[f]].mode # "none"
                    /\ <<n, f>> \notin apart' /\ ~(job.fid = f /\ job.pc = "createOpen")
                 \/ /\ job.fid = f /\ info'[job.info].n = n
                    /\ job.pc = "setMode" \/ (job.pc = "close" /\ <<n, f>> \notin apart')
        BY <1>2, <2>1, MeansNext, Zenon
      <4> QED
        BY <1>6, <2>1, <2>2, <4>1, Zenon
    <3> QED
      BY <1>6, <1>7, <3>1, Zenon DEF FidOK
  <2>5. \A i \in Info : Alike(info[i], info[i])
    BY Zenon DEF Alike
  <2>6. work[w].pc \notin DetachedPCs /\ work[w].pc \notin {"idle", "walk"}
    BY <1>1, Zenon DEF DetachedPCs
  <2> QED
    BY <1>1, <1>2, <1>7, <2>1, <2>3, <2>4, <2>5, <2>6, FidStep, ZenonT(30)
<1>8. CASE ClunkDelete(w)
  <2>1. apart' = apart /\ HandlesKept({f})
    BY <1>1, <1>8, ZenonT(30) DEF ClunkDelete, HandlesKept
  <2>2. CASE x.mode # "none" /\ ~IsDir(x.n)
    BY <1>1, <1>5, <1>7, <1>8, <2>1, <2>2, Zenon DEF ClunkDelete
  <2>3. CASE ~(x.mode # "none" /\ ~IsDir(x.n))
    <3>1. Reply(w)
      BY <1>8, <2>3, Zenon DEF ClunkDelete
    <3>2. AsInTable(f)
      BY <1>1, <1>5, <1>6, <2>1, <2>3, Zenon DEF AsInTable
    <3> QED
      BY <1>1, <1>2, <2>1, <3>1, <3>2, Replies, ZenonT(30)
  <2> QED
    BY <2>2, <2>3, Zenon
<1>9. CASE RemoveDelete(w)
  <2>1. apart' = apart \cup (handles \cap {<<x.n, f>>}) /\ GoOn(w, "removeFile")
    BY <1>9, Zenon DEF RemoveDelete
  <2>2. HandlesKept({f})
    BY <1>1, <2>1, Zenon DEF HandlesKept
  <2>3. \A n \in Node : ~(<<n, f>> \in handles' /\ <<n, f>> \notin apart')
    BY <1>1, <1>5, <2>1, Zenon
  <2> QED
    BY <1>7, <2>1, <2>2, <2>3, Zenon
<1> QED
  BY <1>8, <1>9, Zenon

\* Create puts the new node in the place of the directory.
LEMMA CreateStoreStep ==
  ASSUME FidsInv, Room, NEW w \in Workers, CreateStore(w), NEW f, f = work[w].fid,
         NEW p, p = New(f)
  PROVE  FidsInv'
<1> DEFINE node == work[w].node
           x == newFidInfo(node, work[w].mode, info[work[w].info].uname)
           y == [x EXCEPT !.extra = IF IsDir(node) THEN "created" ELSE @]
           m == [info EXCEPT ![p] = y]
<1>1. /\ work[w].pc = "store" /\ UNCHANGED <<handles, authing, misuse, apart, panic>>
      /\ fids' = [fids EXCEPT ![f] = p] /\ info' = Collected(m)
      /\ IF IsDir(node) THEN Reply(w) ELSE GoOn(w, "createOpen")
  BY Zenon DEF CreateStore, At, Store
<1>2. /\ work[w].pc # "idle" /\ JobOK(w) /\ misuse = {} /\ panic # "no list"
      /\ fids \in [Fid -> Info \cup {None}] /\ info \in [Info -> InfoType]
      /\ work \in [Workers -> JobType] /\ work[w] \in JobType
  BY <1>1, Zenon DEF FidsInv, Types
<1>3. f \in Fid /\ f # None /\ FidOK(f)
  BY <1>2, OwnFid, Zenon
<1>4. /\ work[w].info \in Info /\ info[work[w].info].n \in Node /\ IsDir(info[work[w].info].n)
      /\ work[w].info = fids[f] /\ work[w].newfid = None /\ node \in Dirs \cup Files
      /\ work[w].mode # "none" /\ work[w].mode \in Modes
  BY <1>1, <1>2, Zenon DEF JobOK, DetachedPCs, JobType
<1>5. p \in Info /\ p \notin Live /\ p # None
  BY <1>3, Fresh, NoneNotInfo, Zenon
<1>6. /\ y \in InfoType /\ y.n = node /\ y.mode = work[w].mode
      /\ IsDir(node) => y.extra = "created"
  <2>1. info[work[w].info] \in InfoType /\ node \in Node
    BY <1>2, <1>4, ZenonT(30) DEF Node
  <2>2. info[work[w].info].uname \in BOOLEAN
    BY <2>1, Zenon DEF InfoType
  <2> QED
    BY <1>4, <2>1, <2>2, Zenon DEF newFidInfo, InfoType
<1> HIDE DEF y
<1>7. /\ m \in [Info -> InfoType] /\ m[p] = y
      /\ \A i \in Info : i \in Live => m[i] = info[i] /\ Alike(m[i], info[i])
  <2>1. p \in Info /\ p \notin Live /\ y \in InfoType
    BY <1>5, <1>6, Zenon
  <2>2. m = [info EXCEPT ![p] = y]
    BY Zenon
  <2> HIDE DEF m
  <2> QED
    BY <1>2, <2>1, <2>2, ZenonT(30) DEF Alike
<1> HIDE DEF m
<1>8. fids'[f] = p /\ info'[p] = y
  <2>1. fids'[f] = p
    BY <1>1, <1>2, <1>3, Zenon
  <2> QED
    BY <1>1, <1>3, <1>5, <1>7, <2>1, CollectedMemory, UsedNext, ZenonT(30)
<1>9. ASSUME NEW z \in Node PROVE ~(<<z, f>> \in handles' /\ <<z, f>> \notin apart')
  <2>1. work[w].pc # "idle"
    BY <1>2, ZenonT(30)
  <2>2. Means(z, f) <=>
          /\ ~IsDir(z)
          /\ \/ /\ fids[f] # None /\ info[fids[f]].n = z /\ info[fids[f]].mode # "none"
                /\ <<z, f>> \notin apart /\ work[w].pc # "createOpen"
             \/ /\ info[work[w].info].n = z
                /\ work[w].pc = "setMode" \/ (work[w].pc = "close" /\ <<z, f>> \notin apart)
    BY <2>1, MeansNow, SMTT(30)
  <2>3. ~Means(z, f)
    BY <1>4, <2>2, Zenon
  <2> QED
    BY <1>1, <1>3, <2>3, Zenon DEF FidOK
<1>10. ASSUME NEW job \in JobType, work' = [work EXCEPT ![w] = job], job.newfid = None,
              \/ job.fid = None /\ IsDir(node) /\ job.pc \notin DetachedPCs
              \/ job.fid = f /\ job.pc = "createOpen" /\ job.info = work[w].info,
              JobOK(w)'
       PROVE  FidsInv'
  <2>1. ASSUME NEW z \in Node PROVE ~Means(z, f)'
    <3>1. \A v \in Workers : work'[v].fid = f => v = w
      BY <1>2, <1>10, OnlyMine, Zenon
    <3>2. work'[w] = job
      BY <1>2, <1>10, Zenon
    <3>3. fids'[f] # None => info'[fids'[f]].n = node
      BY <1>6, <1>8, Zenon
    <3>4. CASE job.fid = None /\ IsDir(node) /\ job.pc \notin DetachedPCs
      BY <1>3, <3>1, <3>2, <3>3, <3>4, Zenon DEF Means
    <3>5. CASE job.fid = f /\ job.pc = "createOpen"
      BY <3>1, <3>2, <3>5, Zenon DEF Means
    <3> QED
      BY <1>10, <3>4, <3>5, Zenon
  <2>2. FidOK(f)'
    BY <1>4, <1>6, <1>8, <1>9, <2>1, Zenon DEF FidOK, Node
  <2>3. HandlesKept({f}) /\ work[w].pc \notin DetachedPCs /\ work[w].pc \notin {"idle", "walk"}
    BY <1>1, Zenon DEF HandlesKept, DetachedPCs
  <2>4. \A i \in Info : i \in Live => m[i].n = info[i].n /\ Alike(m[i], info[i])
    BY <1>7, Zenon
  <2>5. /\ authing' = authing /\ misuse' = {} /\ panic' # "no list"
        /\ job.fid \in {None, f} /\ (job.pc \in DetachedPCs => job.info = work[w].info)
    BY <1>1, <1>2, <1>10, Zenon
  <2> QED
    BY <1>1, <1>5, <1>7, <1>10, <2>2, <2>3, <2>4, <2>5, FidStep, ZenonT(30)
<1>11. CASE IsDir(node)
  <2>1. /\ work' = [work EXCEPT ![w] = Idle] /\ Idle \in JobType /\ Idle.fid = None
        /\ Idle.newfid = None /\ Idle.pc \notin DetachedPCs
    BY <1>1, <1>11, Empty, Zenon DEF Reply, Idle, DetachedPCs
  <2>2. JobOK(w)'
    BY <1>2, <2>1, IdleOK, Zenon
  <2> QED
    BY <1>10, <1>11, <2>1, <2>2, ZenonT(30)
<1>12. CASE ~IsDir(node)
  <2> DEFINE job == [work[w] EXCEPT !.pc = "createOpen"]
  <2>1. /\ work' = [work EXCEPT ![w] = job] /\ job \in JobType /\ job.fid = f
        /\ job.newfid = None /\ job.pc = "createOpen" /\ job.info = work[w].info
        /\ job.node = node /\ job.mode = work[w].mode
    BY <1>1, <1>2, <1>4, <1>12, ZenonT(30) DEF GoOn, JobType, PCs
  <2> HIDE DEF job
  <2>2. work'[w] = job
    BY <1>2, <2>1, Zenon
  <2>3. info'[work[w].info] = info[work[w].info]
    <3>1. work[w].info \in Live /\ work[w].info \in Live'
      BY <2>1, <2>2, Used, UsedNext, Zenon
    <3> QED
      BY <1>1, <1>4, <1>7, <3>1, CollectedMemory, Zenon
  <2>4. node \in Files
    BY <1>4, <1>12, Zenon DEF IsDir
  <2>5. JobOK(w)'
    BY <1>3, <1>4, <1>5, <1>6, <1>8, <2>1, <2>2, <2>3, <2>4, ZenonT(30) DEF JobOK, DetachedPCs
  <2> QED
    BY <1>10, <2>1, <2>5, Zenon
<1> QED
  BY <1>11, <1>12, Zenon

\* Walk stores the new fid and leaves the old one as it was.
LEMMA WalkStep ==
  ASSUME FidsInv, Room, NEW w \in Workers, NEW node \in Node, Walk(w, node),
         NEW f, f = work[w].fid, NEW g, g = work[w].newfid, NEW p, p = New(g)
  PROVE  FidsInv'
<1> DEFINE y == newFidInfo(node, "none", info[work[w].info].uname)
           m == [info EXCEPT ![p] = y]
<1>1. /\ work[w].pc = "walk" /\ UNCHANGED <<handles, authing, misuse, apart, panic>>
      /\ fids' = [fids EXCEPT ![g] = p] /\ info' = Collected(m) /\ Reply(w)
  BY Zenon DEF Walk, At, Store
<1>2. /\ work[w].pc # "idle" /\ JobOK(w) /\ misuse = {} /\ panic # "no list"
      /\ fids \in [Fid -> Info \cup {None}] /\ info \in [Info -> InfoType]
      /\ work \in [Workers -> JobType] /\ work[w] \in JobType
  BY <1>1, Zenon DEF FidsInv, Types
<1>3. f \in Fid /\ f # None /\ f \in Own(w) /\ FidOK(f)
  BY <1>2, OwnFid, Zenon
<1>4. /\ work[w].info \in Info /\ work[w].info = fids[f] /\ g # None /\ g \in Fid
      /\ fids[g] = None /\ fids[f] # None /\ f # g /\ g \in Own(w) /\ Own(w) = {f, g} /\ FidOK(g)
  <2>1. work[w].info \in Info /\ work[w].info = fids[f] /\ g # None /\ g \in Fid /\ fids[g] = None
    BY <1>1, <1>2, Zenon DEF JobOK, DetachedPCs, JobType
  <2> QED
    BY <1>3, <2>1, NoneNotInfo, Zenon DEF Own, FidsInv
<1>5. p \in Info /\ p \notin Live /\ p # None
  BY <1>4, Fresh, NoneNotInfo, Zenon
<1>6. y \in InfoType /\ y.n = node /\ y.mode = "none"
  <2>1. info[work[w].info].uname \in BOOLEAN
    BY <1>2, <1>4, Zenon DEF InfoType
  <2> QED
    BY <2>1, Zenon DEF newFidInfo, InfoType
<1> HIDE DEF y
<1>7. /\ m \in [Info -> InfoType] /\ m[p] = y
      /\ \A i \in Info : i \in Live => m[i] = info[i] /\ Alike(m[i], info[i])
  <2>1. p \in Info /\ p \notin Live /\ y \in InfoType
    BY <1>5, <1>6, Zenon
  <2>2. m = [info EXCEPT ![p] = y]
    BY Zenon
  <2> HIDE DEF m
  <2> QED
    BY <1>2, <2>1, <2>2, Zenon DEF Alike
<1> HIDE DEF m
<1>8. /\ fids'[g] = p /\ \A e \in Fid \ {g} : fids'[e] = fids[e]
      /\ fids' \in [Fid -> Info \cup {None}]
  BY <1>1, <1>2, <1>4, <1>5, Zenon
<1>9. info'[p] = y /\ info'[fids[f]] = info[fids[f]]
  <2>1. fids[f] \in Live /\ fids[f] \in Live' /\ p \in Live'
    BY <1>3, <1>4, <1>8, Used, UsedNext, Zenon
  <2> QED
    BY <1>1, <1>4, <1>5, <1>7, <2>1, CollectedMemory, ZenonT(30)
<1>10. /\ work' = [work EXCEPT ![w] = Idle] /\ Idle \in JobType /\ Idle.fid = None
       /\ Idle.newfid = None /\ Idle.pc = "idle"
  BY <1>1, Empty, Zenon DEF Reply, Idle
<1>11. work'[w] = Idle /\ \A v \in Workers \ {w} : work'[v] = work[v]
  BY <1>2, <1>10, ZenonT(30)
<1>12. /\ \A v \in Workers \ {w} : work[v].fid \notin {f, g}
       /\ \A v \in Workers : work'[v].fid \notin {f, g}
  <2>1. \A v \in Workers \ {w} : Own(v) \cap Own(w) = {}
    BY <1>2, OnlyMine, ZenonT(30)
  <2>2. \A v \in Workers \ {w} : work[v].fid \notin {f, g}
    BY <1>3, <1>4, <2>1, Zenon DEF Own
  <2> QED
    BY <1>3, <1>4, <1>10, <1>11, <2>2, Zenon
<1>13. JobOK(w)'
  BY <1>11, IdleOK, Zenon
<1>14. FidOK(f)'
  <2>1. \A v \in Workers : work[v].fid = f => work[v].pc = "walk"
    BY <1>1, <1>12, Zenon
  <2>2. \A z : Means(z, f)' <=> Means(z, f)
    <3>1. fids'[f] = fids[f] /\ info'[fids'[f]] = info[fids[f]]
      BY <1>3, <1>4, <1>8, <1>9, ZenonT(30)
    <3>2. \A v \in Workers : work'[v].fid # f
      BY <1>12, Zenon
    <3>3. apart' = apart
      BY <1>1, Zenon
    <3> QED
      BY <2>1, <3>1, <3>2, <3>3, Zenon DEF Means
  <2> QED
    BY <1>1, <1>3, <1>4, <1>8, <1>9, <2>2, Zenon DEF FidOK
<1>15. FidOK(g)'
  <2>1. \A z : ~Means(z, g)
    BY <1>4, <1>12, ZenonT(30) DEF Means
  <2>2. \A z : ~Means(z, g)'
    BY <1>6, <1>8, <1>9, <1>12, Zenon DEF Means
  <2> QED
    BY <1>1, <1>4, <1>6, <1>8, <1>9, <2>1, <2>2, Zenon DEF FidOK
<1>16. PointerInv'
  <2>1. ASSUME NEW v \in Workers, work'[v].pc \in DetachedPCs
        PROVE  work'[v].info = work[v].info /\ work[v].info \in Info /\ work[v].pc \in DetachedPCs
    <3>1. v # w /\ work'[v] = work[v] /\ JobOK(v)
      BY <1>10, <1>11, <2>1, Zenon DEF DetachedPCs, FidsInv
    <3> QED
      BY <2>1, <3>1, Zenon DEF JobOK, DetachedPCs
  <2> QED
    BY <1>1, <1>4, <1>5, <2>1, Pointers, Zenon
<1>17. /\ \A i \in Info : i \in Live => m[i].n = info[i].n /\ (i \notin {} => Alike(m[i], info[i]))
       /\ {Idle.fid, Idle.newfid} \ {None} \subseteq Own(w)
       /\ \A e \in Fid \ Own(w) : fids'[e] = fids[e]
       /\ \A e \in Own(w) : FidOK(e)'
       /\ HandlesKept(Own(w)) /\ authing' = authing /\ misuse' = {} /\ panic' # "no list"
  BY <1>1, <1>2, <1>4, <1>7, <1>8, <1>10, <1>14, <1>15, Zenon DEF HandlesKept
<1> QED
  BY <1>1, <1>2, <1>7, <1>8, <1>10, <1>13, <1>16, <1>17, HandlerStep, ZenonT(30)

\* Create makes the node.
LEMMA CreateNodeStep ==
  ASSUME FidsInv, NEW w \in Workers, NEW node \in Node, CreateNode(w, node),
         NEW f, f = work[w].fid
  PROVE  FidsInv'
<1> DEFINE job == [work[w] EXCEPT !.pc = "store", !.node = node]
<1>1. /\ work[w].pc = "create" /\ UNCHANGED <<fids, info, handles, authing, misuse, apart, panic>>
      /\ node \in Dirs \cup Files
  BY Zenon DEF CreateNode, At
<1>2. /\ JobOK(w) /\ misuse = {} /\ panic # "no list"
      /\ fids \in [Fid -> Info \cup {None}] /\ info \in [Info -> InfoType]
      /\ work \in [Workers -> JobType] /\ work[w] \in JobType
  BY Zenon DEF FidsInv, Types
<1>3. /\ work' = [work EXCEPT ![w] = job] /\ job \in JobType /\ job.fid = f /\ job.pc = "store"
      /\ job.newfid = None /\ job.info = work[w].info /\ job.node = node /\ job.mode = work[w].mode
  <2>1. work' = [work EXCEPT ![w].pc = "store", ![w].node = node] /\ work[w].newfid = None
    BY <1>1, <1>2, Zenon DEF CreateNode, JobOK
  <2> QED
    BY <1>2, <2>1, ZenonT(30) DEF JobType, PCs
<1> HIDE DEF job
<1>4. work'[w] = job /\ \A v \in Workers \ {w} : work'[v] = work[v]
  BY <1>2, <1>3, Zenon
<1>5. JobOK(w)'
  BY <1>1, <1>2, <1>3, <1>4, ZenonT(30) DEF JobOK, DetachedPCs
<1>6. FidOK(f) /\ f \in Fid /\ work[w].pc \notin {"idle", "walk"}
  BY <1>1, OwnFid, Zenon
<1>7. FidOK(f)'
  <2>1. \A v \in Workers : /\ work'[v].fid = work[v].fid /\ work'[v].info = work[v].info
                           /\ work'[v].pc = "createOpen" <=> work[v].pc = "createOpen"
                           /\ work'[v].pc = "setMode" <=> work[v].pc = "setMode"
                           /\ work'[v].pc = "close" <=> work[v].pc = "close"
    BY <1>1, <1>3, <1>4, Zenon
  <2>2. fids' = fids /\ info' = info /\ apart' = apart
    BY <1>1, Zenon
  <2>3. \A z : Means(z, f)' <=> Means(z, f)
    BY <2>1, <2>2 DEF Means
  <2> QED
    BY <1>1, <1>6, <2>3, Zenon DEF FidOK
<1>8. /\ HandlesKept({f}) /\ job.pc \notin DetachedPCs /\ fids' = [fids EXCEPT ![f] = fids[f]]
      /\ \A i \in Info : Alike(info[i], info[i])
  BY <1>1, <1>2, <1>3, <1>6, Zenon DEF HandlesKept, DetachedPCs, Alike
<1> QED
  BY <1>1, <1>2, <1>3, <1>5, <1>6, <1>7, <1>8, FidStep, Zenon

\* Open calls File.Open, or lists a directory.
LEMMA OpenNodeStep ==
  ASSUME FidsInv, NEW w \in Workers, OpenNode(w), NEW f, f = work[w].fid,
         NEW i, i = work[w].info, NEW x, x = info[i]
  PROVE  FidsInv'
<1> DEFINE job == [work[w] EXCEPT !.pc = "setMode"]
<1>1. /\ work[w].pc = "open" /\ UNCHANGED <<fids, authing, panic>> /\ GoOn(w, "setMode")
      /\ IF IsDir(x.n)
         THEN info' = [info EXCEPT ![i].extra = "children"] /\ UNCHANGED <<handles, misuse, apart>>
         ELSE FileOpen(x.n, f) /\ info' = info
  BY Zenon DEF OpenNode, At
<1>2. /\ JobOK(w) /\ misuse = {} /\ panic # "no list"
      /\ fids \in [Fid -> Info \cup {None}] /\ info \in [Info -> InfoType]
      /\ work \in [Workers -> JobType] /\ work[w] \in JobType
  BY Zenon DEF FidsInv, Types
<1>3. f \in Fid /\ f # None /\ FidOK(f) /\ work[w].pc \notin {"idle", "walk"}
  BY <1>1, OwnFid, Zenon
<1>4. /\ i \in Info /\ i = fids[f] /\ x \in InfoType /\ x.n \in Node /\ x.mode = "none"
      /\ work[w].mode # "none" /\ work[w].newfid = None
  BY <1>1, <1>2, Zenon DEF JobOK, DetachedPCs
<1>5. /\ work' = [work EXCEPT ![w] = job] /\ job \in JobType /\ job.fid = f /\ job.pc = "setMode"
      /\ job.newfid = None /\ job.info = i /\ job.mode = work[w].mode
  BY <1>1, <1>2, <1>4, ZenonT(30) DEF GoOn, JobType, PCs
<1> HIDE DEF job
<1>6. work'[w] = job /\ \A v \in Workers : work'[v].fid = f => v = w
  BY <1>2, <1>3, <1>5, OnlyMine, Zenon
<1>7. ASSUME NEW z \in Node PROVE ~(<<z, f>> \in handles /\ <<z, f>> \notin apart)
  <2>1. \A v \in Workers : work[v].fid = f => v = w
    BY <1>3, OnlyMine, Zenon
  <2>2. ~Means(z, f)
    BY <1>1, <1>4, <2>1, Zenon DEF Means
  <2> QED
    BY <1>3, <2>2, ZenonT(30) DEF FidOK
<1>8. /\ info' \in [Info -> InfoType] /\ info'[i].n = x.n /\ info'[i].mode = "none"
      /\ IsDir(x.n) => info'[i].extra = "children"
      /\ \A j \in Info : info'[j].n = info[j].n /\ (j # i => info'[j] = info[j])
  <2>1. CASE IsDir(x.n)
    <3>1. info' = [info EXCEPT ![i] = [x EXCEPT !.extra = "children"]]
      BY <1>1, <2>1, Zenon
    <3>2. /\ [x EXCEPT !.extra = "children"] \in InfoType
          /\ [x EXCEPT !.extra = "children"].n = x.n
          /\ [x EXCEPT !.extra = "children"].mode = "none"
          /\ [x EXCEPT !.extra = "children"].extra = "children"
      BY <1>4, Zenon DEF InfoType
    <3> QED
      BY <1>2, <1>4, <3>1, <3>2, Zenon
  <2>2. CASE ~IsDir(x.n)
    BY <1>1, <1>2, <1>4, <2>2, ZenonT(30)
  <2> QED
    BY <2>1, <2>2, Zenon
<1>9. JobOK(w)'
  BY <1>1, <1>3, <1>4, <1>5, <1>6, <1>8 DEF JobOK, DetachedPCs
<1>10. ASSUME NEW z \in Node PROVE Means(z, f)' <=> ~IsDir(z) /\ x.n = z
  <2>1. fids'[f] = i /\ info'[i].mode = "none"
    BY <1>1, <1>4, <1>8, Zenon
  <2>2. Means(z, f)' <=> /\ ~IsDir(z) /\ \E v \in Workers :
                           /\ work'[v].fid = f /\ info'[work'[v].info].n = z
                           /\ work'[v].pc = "setMode" \/ (work'[v].pc = "close" /\ <<z, f>> \notin apart')
    BY <2>1, Zenon DEF Means
  <2> QED
    BY <1>5, <1>6, <1>8, <2>2, ZenonT(30)
<1>11. /\ misuse' = {} /\ HandlesKept({f})
       /\ \A z \in Node : (<<z, f>> \in handles' /\ <<z, f>> \notin apart') <=> ~IsDir(z) /\ x.n = z
  <2>1. CASE IsDir(x.n)
    BY <1>1, <1>2, <1>7, <2>1, Zenon DEF HandlesKept
  <2>2. CASE ~IsDir(x.n)
    <3>1. /\ handles' = handles \cup {<<x.n, f>>} /\ apart' = apart \ {<<x.n, f>>}
          /\ misuse' = IF <<x.n, f>> \in handles \ apart THEN misuse \cup {"Open"} ELSE misuse
      BY <1>1, <2>2, Zenon DEF FileOpen
    <3>2. misuse' = {}
      BY <1>2, <1>4, <1>7, <3>1, ZenonT(30)
    <3>3. HandlesKept({f})
      BY <3>1, Zenon DEF HandlesKept
    <3>4. \A z \in Node : (<<z, f>> \in handles' /\ <<z, f>> \notin apart') <=> x.n = z
      BY <1>7, <3>1, Zenon
    <3> QED
      BY <2>2, <3>2, <3>3, <3>4, Zenon
  <2> QED
    BY <2>1, <2>2, Zenon
<1>12. FidOK(f)'
  <2>1. fids'[f] = i /\ info'[i].mode = "none" /\ info'[i].n \in Node
    BY <1>1, <1>4, <1>8, Zenon
  <2> QED
    BY <1>10, <1>11, <2>1, Zenon DEF FidOK
<1>13. /\ job.pc \notin DetachedPCs /\ fids' = [fids EXCEPT ![f] = fids[f]]
       /\ \A j \in Info : j \in Live =>
            info'[j].n = info[j].n /\ (j \notin {work[w].info} => Alike(info'[j], info[j]))
  BY <1>1, <1>2, <1>3, <1>5, <1>8, Zenon DEF DetachedPCs, Alike
<1>14. authing' = authing /\ panic' # "no list" /\ job.fid \in {None, f} /\ job.newfid = None
  BY <1>1, <1>2, <1>5, Zenon
<1> QED
  BY <1>1, <1>3, <1>5, <1>8, <1>9, <1>11, <1>12, <1>13, <1>14, FidStep, ZenonT(30)

\* Open marks the fid.
LEMMA OpenSetModeStep ==
  ASSUME FidsInv, NEW w \in Workers, OpenSetMode(w), NEW f, f = work[w].fid,
         NEW i, i = work[w].info, NEW x, x = info[i]
  PROVE  FidsInv'
<1> DEFINE y == [x EXCEPT !.mode = work[w].mode]
           m == [info EXCEPT ![i] = y]
<1>1. /\ work[w].pc = "setMode" /\ UNCHANGED <<fids, handles, misuse, apart, authing, panic>> /\ Reply(w)
      /\ info' = Collected(m)
  BY Zenon DEF OpenSetMode, At
<1>2. /\ JobOK(w) /\ misuse = {} /\ panic # "no list"
      /\ fids \in [Fid -> Info \cup {None}] /\ info \in [Info -> InfoType]
      /\ work \in [Workers -> JobType] /\ work[w] \in JobType
  BY Zenon DEF FidsInv, Types
<1>3. f \in Fid /\ f # None /\ FidOK(f) /\ work[w].pc \notin {"idle", "walk"}
  BY <1>1, OwnFid, Zenon
<1>4. /\ i \in Info /\ i = fids[f] /\ x \in InfoType /\ x.n \in Node /\ x.mode = "none"
      /\ work[w].mode \in Modes /\ work[w].mode # "none" /\ (IsDir(x.n) => x.extra = "children")
  BY <1>1, <1>2, Zenon DEF JobOK, DetachedPCs, JobType
<1>5. /\ work' = [work EXCEPT ![w] = Idle] /\ Idle \in JobType /\ Idle.fid = None
      /\ Idle.newfid = None /\ Idle.pc = "idle" /\ Idle.pc \notin DetachedPCs
  BY <1>1, Empty, Zenon DEF Reply, Idle, DetachedPCs
<1>6. work'[w] = Idle /\ \A v \in Workers : work'[v].fid # f
  BY <1>2, <1>3, <1>5, OnlyMine, ZenonT(30)
<1>7. y \in InfoType /\ y.n = x.n /\ y.mode = work[w].mode /\ y.extra = x.extra
  BY <1>4, Zenon DEF InfoType
<1> HIDE DEF y
<1>8. /\ m \in [Info -> InfoType] /\ m[i] = y
      /\ \A j \in Info : m[j].n = info[j].n /\ (j # i => m[j] = info[j])
  BY <1>2, <1>4, <1>7, ZenonT(30)
<1> HIDE DEF m
<1>9. fids'[f] = i /\ info'[i] = y /\ i # None
  <2>1. fids'[f] = i /\ i \in Live'
    BY <1>1, <1>3, <1>4, UsedNext, ZenonT(30)
  <2> QED
    BY <1>1, <1>4, <1>8, <2>1, CollectedMemory, NoneNotInfo, Zenon
<1>10. ASSUME NEW z \in Node
       PROVE  (<<z, f>> \in handles /\ <<z, f>> \notin apart) <=> ~IsDir(z) /\ x.n = z
  <2>1. \A v \in Workers : work[v].fid = f => v = w
    BY <1>3, OnlyMine, Zenon
  <2>2. Means(z, f) <=> ~IsDir(z) /\ x.n = z
    BY <1>1, <1>4, <2>1, Zenon DEF Means
  <2> QED
    BY <1>3, <2>2, Zenon DEF FidOK
<1>11. ASSUME NEW z \in Node
       PROVE  Means(z, f)' <=> ~IsDir(z) /\ x.n = z /\ <<z, f>> \notin apart
  <2>1. info'[fids'[f]].n = x.n /\ info'[fids'[f]].mode # "none" /\ fids'[f] # None /\ apart' = apart
    BY <1>1, <1>4, <1>7, <1>9, Zenon
  <2> QED
    BY <1>6, <2>1, Zenon DEF Means
<1>12. FidOK(f)'
  <2>1. /\ fids'[f] # None /\ info'[fids'[f]].n = x.n /\ x.n \in Node
        /\ IsDir(x.n) => info'[fids'[f]].extra = "children"
    BY <1>4, <1>7, <1>9, Zenon
  <2>2. handles' = handles /\ apart' = apart
    BY <1>1, Zenon
  <2> QED
    BY <1>10, <1>11, <2>1, <2>2, ZenonT(30) DEF FidOK
<1>13. JobOK(w)'
  BY <1>6, IdleOK, Zenon
<1>14. /\ HandlesKept({f}) /\ fids' = [fids EXCEPT ![f] = fids[f]]
       /\ \A j \in Info : j \in Live =>
            m[j].n = info[j].n /\ (j \notin {work[w].info} => Alike(m[j], info[j]))
       /\ authing' = authing /\ panic' # "no list" /\ misuse' = {}
  BY <1>1, <1>2, <1>3, <1>8, Zenon DEF HandlesKept, Alike
<1> QED
  BY <1>1, <1>3, <1>5, <1>8, <1>12, <1>13, <1>14, FidStep, ZenonT(30)

\* Every step of a handler but the first.
LEMMA ContinueSteps ==
  ASSUME FidsInv, Room, NEW w \in Workers, Continue(w)
  PROVE  FidsInv'
<1>1. CASE \E n \in Node : Walk(w, n)
  BY <1>1, WalkStep, Zenon
<1>2. CASE \E n \in Node : CreateNode(w, n)
  BY <1>2, CreateNodeStep, Zenon
<1>3. CASE OpenNode(w)
  BY <1>3, OpenNodeStep, Zenon
<1>4. CASE OpenSetMode(w)
  BY <1>4, OpenSetModeStep, Zenon
<1>5. CASE CreateNil(w)
  BY <1>5, Quiet, Zenon DEF CreateNil
<1>6. CASE CreateStore(w)
  BY <1>6, CreateStoreStep, Zenon
<1>7. CASE CreateOpen(w) \/ IO(w) \/ ClunkClose(w) \/ RemoveFile(w) \/ Refuse(w)
  BY <1>7, ReplySteps, Zenon
<1>8. CASE ClunkDelete(w) \/ RemoveDelete(w)
  BY <1>8, DeleteSteps, Zenon
<1> QED
  BY <1>1, <1>2, <1>3, <1>4, <1>5, <1>6, <1>7, <1>8, Zenon DEF Continue

\* A fid that no handler has gets a new fidInfo y.
LEMMA NewEntry ==
  ASSUME FidsInv, NEW f \in Fid, ~Busy(f), NEW p \in Info, p \notin Live, NEW y \in InfoType,
         fids' = [fids EXCEPT ![f] = p], info' = Collected([info EXCEPT ![p] = y]), work' = work,
         authing' = authing \/ (authing' = authing \cup {p} /\ y.n = AuthFile),
         HandlesKept({f}), misuse' = {}, panic' # "no list",
         y.n \in Node, IsDir(y.n) => y.mode = "none",
         \A n \in Node : (<<n, f>> \in handles' /\ <<n, f>> \notin apart') <=>
           ~IsDir(n) /\ y.n = n /\ y.mode # "none" /\ <<n, f>> \notin apart'
  PROVE  FidsInv'
<1> DEFINE m == [info EXCEPT ![p] = y]
<1>1. /\ fids \in [Fid -> Info \cup {None}] /\ info \in [Info -> InfoType]
      /\ work \in [Workers -> JobType] /\ authing \subseteq Info
  BY Zenon DEF FidsInv, Types
<1>2. /\ m \in [Info -> InfoType] /\ m[p] = y /\ info' = Collected(m)
      /\ \A i \in Info : i \in Live => m[i] = info[i]
  BY <1>1, Zenon
<1> HIDE DEF m
<1>3. /\ fids'[f] = p /\ \A g \in Fid \ {f} : fids'[g] = fids[g]
      /\ fids' \in [Fid -> Info \cup {None}] /\ authing' \subseteq Info /\ p # None
  BY <1>1, NoneNotInfo, Zenon
<1>4. info'[p] = y
  BY <1>2, <1>3, CollectedMemory, UsedNext, Zenon
<1>5. Types'
  BY <1>1, <1>2, <1>3, CollectedMemory, Zenon DEF Types
<1>6. \A v \in Workers : work[v].fid # f /\ work[v].newfid # f
  BY Zenon DEF Busy
<1>7. Within({}, {f}, m, {})
  <2>1. \A i \in Info : i \in Live' => info'[i] = m[i]
    BY <1>2, CollectedMemory, Zenon
  <2>2. \A i \in Info : i \in Live => m[i].n = info[i].n /\ Alike(m[i], info[i])
    BY <1>2, Zenon DEF Alike
  <2>3. \A v \in Workers : Own(v) \cap {f} = {}
    BY <1>6, Zenon DEF Own
  <2>4. \A i \in authing' : i \in authing \/ m[i].n = AuthFile
    BY <1>2, Zenon
  <2> QED
    BY <1>2, <1>3, <2>1, <2>2, <2>3, <2>4, Zenon DEF Within
<1>8. /\ AloneInv' /\ AuthInv'
      /\ \A v \in Workers : JobOK(v)'
      /\ \A g \in Fid \ {f} : FidOK(g)'
  <2>1. {} \in SUBSET Workers /\ {f} \in SUBSET Fid
    BY Zenon
  <2>2. /\ AloneInv' /\ AuthInv'
        /\ \A v \in Workers \ {} : JobOK(v)'
        /\ \A g \in Fid \ {f} : FidOK(g)'
    BY <1>7, <2>1, Frame, Zenon
  <2> QED
    BY <2>2, Zenon
<1>9. PointerInv'
  <2>1. \A v \in Workers : work'[v].pc \in DetachedPCs => work[v].info \in Info
    BY Zenon DEF FidsInv, JobOK, DetachedPCs
  <2> QED
    BY <2>1, Pointers, Zenon
<1>10. FidOK(f)'
  <2>1. ASSUME NEW n \in Node
        PROVE  Means(n, f)' <=> ~IsDir(n) /\ y.n = n /\ y.mode # "none" /\ <<n, f>> \notin apart'
    <3>1. \A v \in Workers : work'[v].fid # f
      BY <1>6, Zenon
    <3>2. fids'[f] # None /\ info'[fids'[f]] = y
      BY <1>3, <1>4, Zenon
    <3> QED
      BY <3>1, <3>2, Zenon DEF Means
  <2> QED
    BY <1>3, <1>4, <2>1, Zenon DEF FidOK
<1> QED
  BY <1>5, <1>8, <1>9, <1>10, Zenon DEF FidsInv

\* Auth and Attach.
LEMMA EntrySteps ==
  ASSUME FidsInv, Room, ~Pipelined, NEW f \in Fid, NEW p, p = New(f),
         Auth(f) \/ \E g \in Fid : Attach(f, g)
  PROVE  FidsInv'
<1>1. /\ fids[f] = None /\ ~Busy(f) /\ fids' = [fids EXCEPT ![f] = p] /\ work' = work
      /\ panic' # "no list" /\ misuse = {} /\ f # None
  BY FidsAssumption, Zenon DEF Auth, Attach, Store, Running, FidsInv
<1>2. p \in Info /\ p \notin Live
  BY Fresh, Zenon
<1>3. \A n \in Node : ~(<<n, f>> \in handles /\ <<n, f>> \notin apart)
  <2>1. \A n : ~Means(n, f)
    BY <1>1, Zenon DEF Means, Busy
  <2> QED
    BY <2>1, Zenon DEF FidsInv, FidOK
<1>4. CASE Auth(f)
  <2> DEFINE y == newFidInfo(AuthFile, "Ordwr", FALSE)
  <2>1. y \in InfoType /\ y.n = AuthFile /\ y.mode = "Ordwr"
    BY Zenon DEF newFidInfo, InfoType, Node
  <2>2. info' = Collected([info EXCEPT ![p] = y]) /\ authing' = authing \cup {p} /\ FileOpen(AuthFile, f)
    BY <1>4, Zenon DEF Auth, Store
  <2> HIDE DEF y
  <2>3. AuthFile \in Node /\ ~IsDir(AuthFile)
    BY FidsAssumption, Zenon DEF Node, IsDir
  <2>4. /\ handles' = handles \cup {<<AuthFile, f>>} /\ apart' = apart \ {<<AuthFile, f>>}
        /\ misuse' = {}
    BY <1>1, <1>3, <2>2, <2>3, Zenon DEF FileOpen
  <2>5. HandlesKept({f})
    BY <2>4, Zenon DEF HandlesKept
  <2>6. \A n \in Node : (<<n, f>> \in handles' /\ <<n, f>> \notin apart') <=>
          ~IsDir(n) /\ y.n = n /\ y.mode # "none" /\ <<n, f>> \notin apart'
    BY <1>3, <2>1, <2>3, <2>4, Zenon
  <2> QED
    BY <1>1, <1>2, <2>1, <2>2, <2>3, <2>4, <2>5, <2>6, NewEntry, ZenonT(30)
<1>5. CASE \E g \in Fid : Attach(f, g)
  <2> DEFINE y == newFidInfo(Root, "none", TRUE)
  <2>1. y \in InfoType /\ y.n = Root /\ y.mode = "none"
    BY Zenon DEF newFidInfo, InfoType, Node
  <2>2. info' = Collected([info EXCEPT ![p] = y]) /\ UNCHANGED <<authing, handles, misuse, apart>>
    BY <1>5, Zenon DEF Attach, Store
  <2> HIDE DEF y
  <2>3. Root \in Node /\ HandlesKept({f}) /\ misuse' = {}
    BY <1>1, <2>2, Zenon DEF Node, HandlesKept
  <2>4. \A n \in Node : (<<n, f>> \in handles' /\ <<n, f>> \notin apart') <=>
          ~IsDir(n) /\ y.n = n /\ y.mode # "none" /\ <<n, f>> \notin apart'
    BY <1>3, <2>1, <2>2, Zenon
  <2> QED
    BY <1>1, <1>2, <2>1, <2>2, <2>3, <2>4, NewEntry, ZenonT(30)
<1> QED
  BY <1>4, <1>5, Zenon

\* An authFunc returns: the extra of its stream file is set.
LEMMA AuthDoneStep ==
  ASSUME FidsInv, NEW i \in Info, AuthDone(i)
  PROVE  FidsInv'
<1>1. /\ i \in authing /\ authing' = authing \ {i} /\ UNCHANGED <<fids, handles, work, misuse, apart, panic>>
      /\ misuse = {} /\ panic # "no list"
  BY Zenon DEF AuthDone, FidsInv
<1>2. PICK e \in {"user", "error"} : info' = Collected([info EXCEPT ![i].extra = e])
  BY Zenon DEF AuthDone
<1> DEFINE y == [info[i] EXCEPT !.extra = e]
           m == [info EXCEPT ![i] = y]
<1>3. /\ fids \in [Fid -> Info \cup {None}] /\ info \in [Info -> InfoType]
      /\ work \in [Workers -> JobType] /\ authing \subseteq Info
      /\ info[i].n = AuthFile /\ ~IsDir(AuthFile)
  BY <1>1, FidsAssumption, Zenon DEF FidsInv, Types, AuthInv, IsDir
<1>4. y \in InfoType /\ y.n = AuthFile /\ y.mode = info[i].mode
  BY <1>3, Zenon DEF InfoType
<1>5. info' = Collected(m)
  BY <1>2, <1>3, Zenon
<1> HIDE DEF y
<1>6. /\ m \in [Info -> InfoType]
      /\ \A j \in Info : m[j].n = info[j].n /\ Alike(m[j], info[j])
  BY <1>3, <1>4, Zenon DEF Alike
<1> HIDE DEF m
<1>7. Types'
  BY <1>1, <1>3, <1>5, <1>6, CollectedMemory, Zenon DEF Types
<1>8. Within({}, {}, m, {})
  <2>1. \A j \in Info : j \in Live' => info'[j] = m[j]
    BY <1>5, <1>6, CollectedMemory, Zenon
  <2>2. HandlesKept({}) /\ authing' \subseteq Info
    BY <1>1, <1>3, Zenon DEF HandlesKept
  <2> QED
    BY <1>1, <1>6, <2>1, <2>2, ZenonT(30) DEF Within
<1>9. /\ AloneInv' /\ AuthInv'
      /\ \A v \in Workers : JobOK(v)'
      /\ \A g \in Fid : FidOK(g)'
  BY <1>8, Frame
<1>10. PointerInv'
  BY <1>1, PointersKept, Zenon
<1> QED
  BY <1>1, <1>7, <1>9, <1>10, Zenon DEF FidsInv

\* The invariant holds at first, every step keeps it, and it is what is wanted.
LEMMA FidsInvInit == Init => FidsInv
<1> SUFFICES ASSUME Init PROVE FidsInv
  BY Zenon
<1> USE DEF Init
<1>1. Idle.fid = None /\ Idle.newfid = None /\ Idle.pc = "idle"
  BY Zenon DEF Idle
<1>2. Types
  BY Empty, Zenon DEF Types
<1>3. AloneInv /\ AuthInv
  BY <1>1, Zenon DEF AloneInv, AuthInv, Own
<1>4. PointerInv
  BY <1>1, Zenon DEF PointerInv, DetachedPCs
<1>5. \A w \in Workers : JobOK(w)
  <2> SUFFICES ASSUME NEW w \in Workers PROVE JobOK(w)
    BY Zenon
  <2>1. work[w] = Idle
    BY Zenon
  <2> QED
    BY <1>1, <2>1, Zenon DEF JobOK, DetachedPCs
<1>6. \A f \in Fid : FidOK(f)
  <2> SUFFICES ASSUME NEW f \in Fid PROVE FidOK(f)
    BY Zenon
  <2>1. fids[f] = None /\ handles = {} /\ \A w \in Workers : work[w].pc = "idle"
    BY <1>1, Zenon
  <2>2. \A n : ~Means(n, f)
    BY <2>1, Zenon DEF Means
  <2> QED
    BY <2>1, <2>2, Zenon DEF FidOK
<1> QED
  BY <1>2, <1>3, <1>4, <1>5, <1>6, Zenon DEF FidsInv

LEMMA FidsInvNext == ~Pipelined /\ Room /\ FidsInv /\ [Next]_vars => FidsInv'
<1> SUFFICES ASSUME ~Pipelined, Room, FidsInv, [Next]_vars PROVE FidsInv'
  BY Zenon
<1>1. CASE UNCHANGED vars
  BY <1>1, Quiet, Zenon DEF vars, FidsInv
<1>2. ASSUME NEW f \in Fid, Auth(f) \/ \E g \in Fid : Attach(f, g) PROVE FidsInv'
  BY <1>2, EntrySteps, Zenon
<1>3. ASSUME NEW i \in Info, AuthDone(i) PROVE FidsInv'
  BY <1>3, AuthDoneStep, Zenon
<1>4. ASSUME NEW w \in Workers, Continue(w) PROVE FidsInv'
  BY <1>4, ContinueSteps, Zenon
<1>5. ASSUME NEW w \in Workers, NEW f \in Fid, Start(w, f) PROVE FidsInv'
  BY <1>5, StartSteps, Zenon
<1> QED
  BY <1>1, <1>2, <1>3, <1>4, <1>5, Zenon DEF Next

LEMMA FidsInvGood == FidsInv => FileContract /\ HandlesMatch /\ NoPanic
<1> SUFFICES ASSUME FidsInv PROVE FileContract /\ HandlesMatch /\ NoPanic
  BY Zenon
<1>1. ASSUME NEW f \in Fid, ~Busy(f)
      PROVE  {n \in Node : <<n, f>> \in handles \ apart} =
               (IF fids[f] = None \/ info[fids[f]].mode = "none" \/ IsDir(info[fids[f]].n)
                THEN {} ELSE {n \in {info[fids[f]].n} : <<n, f>> \notin apart})
  <2>1. FidOK(f) /\ \A w \in Workers : work[w].fid # f
    BY <1>1, ZenonT(30) DEF FidsInv, Busy
  <2>2. ASSUME NEW n \in Node
        PROVE  <<n, f>> \in handles \ apart <=>
                 /\ ~IsDir(n) /\ fids[f] # None /\ info[fids[f]].n = n
                 /\ info[fids[f]].mode # "none" /\ <<n, f>> \notin apart
    <3>1. Means(n, f) <=> /\ ~IsDir(n) /\ fids[f] # None /\ info[fids[f]].n = n
                          /\ info[fids[f]].mode # "none" /\ <<n, f>> \notin apart
      BY <2>1, ZenonT(30) DEF Means
    <3> QED
      BY <2>1, <3>1, Zenon DEF FidOK
  <2>3. fids[f] # None => info[fids[f]].n \in Node
    BY <2>1, Zenon DEF FidOK
  <2> QED
    BY <2>2, <2>3, Zenon
<1>2. HandlesMatch
  BY <1>1, Zenon DEF HandlesMatch
<1> QED
  BY <1>2, Zenon DEF FidsInv, FileContract, NoPanic

-------------------------------------------------------------------------------
(* Authentication.  This part holds however the client uses its fids.        *)

\* A handler at work has its fids and its fidInfo.
Fit(job) ==
  job.pc # "idle" =>
    /\ job.fid \in Fid /\ job.info \in Info
    /\ (job.pc = "walk" => job.newfid \in Fid) /\ (job.pc = "store" => job.node \in Node)

\* As long as nobody is authenticated no handler creates ...
WorkOK(jobs, a) ==
  /\ jobs \in [Workers -> JobType]
  /\ \A w \in Workers : Fit(jobs[w]) /\ (AuthRequired /\ ~a => jobs[w].pc \notin {"create", "store"})

\* ... no fidInfo stands for a node of the tree, and none has a user name.
MemoryOK(m, a) ==
  /\ m \in [Info -> InfoType]
  /\ \A i \in Info : /\ m[i].extra = "user" => a
                     /\ AuthRequired /\ ~a => m[i].n \in {None, AuthFile}

\* A fid stands for a node.
TableOK(table, m) ==
  /\ table \in [Fid -> Info \cup {None}]
  /\ \A f \in Fid : table[f] # None => m[table[f]].n \in Node

AuthedInv ==
  /\ WorkOK(work, authed) /\ MemoryOK(info, authed) /\ TableOK(fids, info)
  /\ authing \subseteq Info /\ exists \subseteq Dirs \cup Files

LEMMA AuthedStep ==
  ASSUME NEW m, info' = m \/ info' = Collected(m), MemoryOK(m, authed'), TableOK(fids', m),
         WorkOK(work', authed'), authing' \subseteq Info, exists' \subseteq Dirs \cup Files
  PROVE  AuthedInv'
<1>1. /\ info' \in [Info -> InfoType] /\ \A i \in Info : i \in Live' => info'[i] = m[i]
      /\ \A i \in Info : info'[i] = m[i] \/ info'[i] = NoInfo
  <2>1. CASE info' = m
    BY <2>1, Zenon DEF MemoryOK
  <2>2. CASE info' = Collected(m)
    BY <2>2, CollectedMemory, Zenon DEF MemoryOK, Collected
  <2> QED
    BY <2>1, <2>2, Zenon
<1>2. MemoryOK(info', authed')
  BY <1>1, SMTT(30) DEF MemoryOK, NoInfo
<1>3. TableOK(fids', info')
  BY <1>1, UsedNext, Zenon DEF TableOK
<1> QED
  BY <1>2, <1>3, Zenon DEF AuthedInv

\* A handler w goes on with job.
LEMMA WorkStep ==
  ASSUME AuthedInv, authed => authed', NEW w \in Workers, NEW job \in JobType,
         work' = [work EXCEPT ![w] = job], Fit(job),
         AuthRequired /\ ~authed' => job.pc \notin {"create", "store"}
  PROVE  WorkOK(work', authed')
BY Zenon DEF AuthedInv, WorkOK

\* A new fidInfo y is stored under f.
LEMMA StoreStep ==
  ASSUME AuthedInv, Room, authed => authed', NEW f \in Fid, NEW y \in InfoType, NEW p, p = New(f), NEW m,
         m = [info EXCEPT ![p] = y], y.extra # "user", y.n \in Node,
         AuthRequired /\ ~authed' => y.n = AuthFile
  PROVE  MemoryOK(m, authed') /\ TableOK([fids EXCEPT ![f] = p], m) /\ p \in Info
<1>1. p \in Info /\ p # None
  BY Fresh, NoneNotInfo, Zenon
<1>2. m \in [Info -> InfoType] /\ \A i \in Info : m[i] = IF i = p THEN y ELSE info[i]
  BY <1>1, Zenon DEF AuthedInv, MemoryOK
<1>3. MemoryOK(m, authed')
  BY <1>2, Zenon DEF AuthedInv, MemoryOK
<1>4. TableOK([fids EXCEPT ![f] = p], m)
  <2>1. /\ fids \in [Fid -> Info \cup {None}]
        /\ \A g \in Fid : fids[g] # None => info[fids[g]].n \in Node
    BY Zenon DEF AuthedInv, TableOK
  <2> QED
    BY <1>1, <1>2, <2>1, Zenon DEF TableOK
<1> QED
  BY <1>1, <1>3, <1>4, Zenon

\* A request is taken.
LEMMA AuthedStart ==
  ASSUME AuthedInv, NEW w \in Workers, NEW f \in Fid, Start(w, f)
  PROVE  AuthedInv'
<1>0. Idle \in JobType /\ Idle.mode = "none" /\ Idle.newfid = None
  BY Empty, Zenon DEF Idle
<1>1. fids[f] # None => fids[f] \in Info
  BY Zenon DEF AuthedInv, TableOK
<1>2. AuthRequired /\ ~authed /\ fids[f] # None => ~IsDir(info[fids[f]].n)
  BY <1>1, FidsAssumption, Zenon DEF AuthedInv, MemoryOK, IsDir
<1>3. ASSUME UNCHANGED <<info, fids, authing, exists, authed>>, WorkOK(work', authed') PROVE AuthedInv'
  <2>1. MemoryOK(info, authed') /\ TableOK(fids', info)
    BY <1>3, Zenon DEF AuthedInv
  <2> QED
    BY <1>3, <2>1, AuthedStep, Zenon DEF AuthedInv
<1>4. ASSUME UNCHANGED <<info, fids, authing, exists, authed>>, NEW job \in JobType,
             work' = [work EXCEPT ![w] = job], Fit(job), job.pc # "store",
             job.pc = "create" => fids[f] # None /\ IsDir(info[fids[f]].n)
      PROVE  AuthedInv'
  BY <1>2, <1>3, <1>4, WorkStep, Zenon
<1>5. ASSUME NEW g \in Fid, StartWalk(w, f, g) PROVE AuthedInv'
  <2> DEFINE job == [[Idle EXCEPT !.pc = "walk", !.newfid = g] EXCEPT !.fid = f, !.info = fids[f]]
  <2>1. fids[f] # None /\ work' = [work EXCEPT ![w] = job]
    BY <1>5, Zenon DEF StartWalk, Begin, Go
  <2>2. job \in JobType /\ job.pc = "walk" /\ job.newfid = g /\ job.fid = f /\ job.info = fids[f]
    BY <1>0, <1>1, <2>1, ZenonT(30) DEF JobType, PCs
  <2> HIDE DEF job
  <2>3. Fit(job)
    BY <1>1, <2>1, <2>2, Zenon DEF Fit
  <2> QED
    BY <1>4, <1>5, <2>1, <2>2, <2>3, Zenon DEF StartWalk
<1>6. ASSUME NEW pc \in {"open", "create"}, NEW m \in Modes, Begin(w, pc, f),
             Go(w, f, [Idle EXCEPT !.pc = pc, !.mode = m]),
             UNCHANGED <<info, fids, authing, exists, authed>>,
             pc = "create" => IsDir(info[fids[f]].n)
      PROVE  AuthedInv'
  <2> DEFINE job == [[Idle EXCEPT !.pc = pc, !.mode = m] EXCEPT !.fid = f, !.info = fids[f]]
  <2>1. fids[f] # None /\ work' = [work EXCEPT ![w] = job]
    BY <1>6, Zenon DEF Begin, Go
  <2>2. job \in JobType /\ job.pc = pc /\ job.fid = f /\ job.info = fids[f]
    BY <1>0, <1>1, <2>1, ZenonT(30) DEF JobType, PCs
  <2> HIDE DEF job
  <2>3. Fit(job)
    BY <1>1, <2>1, <2>2, Zenon DEF Fit
  <2> QED
    BY <1>4, <1>6, <2>1, <2>2, <2>3, Zenon
<1>7. ASSUME NEW pc \in {"read", "write", "clunk", "remove"}, Begin(w, pc, f),
             Go(w, f, [Idle EXCEPT !.pc = pc]),
             UNCHANGED <<info, fids, authing, exists, authed>>
      PROVE  AuthedInv'
  <2> DEFINE job == [[Idle EXCEPT !.pc = pc] EXCEPT !.fid = f, !.info = fids[f]]
  <2>1. fids[f] # None /\ work' = [work EXCEPT ![w] = job]
    BY <1>7, Zenon DEF Begin, Go
  <2>2. job \in JobType /\ job.pc = pc /\ job.fid = f /\ job.info = fids[f]
    BY <1>0, <1>1, <2>1, ZenonT(30) DEF JobType, PCs
  <2> HIDE DEF job
  <2>3. Fit(job)
    BY <1>1, <2>1, <2>2, Zenon DEF Fit
  <2> QED
    BY <1>4, <1>7, <2>1, <2>2, <2>3, Zenon
<1>8. CASE ReadDir(w, f)
  BY <1>3, <1>8, Zenon DEF ReadDir, AuthedInv
<1>9. ASSUME NEW m \in Modes, StartOpen(w, f, m) PROVE AuthedInv'
  BY <1>6, <1>9, Zenon DEF StartOpen
<1>10. ASSUME NEW m \in Modes, StartCreate(w, f, m) PROVE AuthedInv'
  BY <1>6, <1>10, Zenon DEF StartCreate
<1>11. ASSUME NEW op \in Ops, StartIO(w, op, f) PROVE AuthedInv'
  BY <1>7, <1>11, Zenon DEF StartIO
<1>12. CASE StartClunk(w, f) \/ StartRemove(w, f)
  BY <1>7, <1>12, Zenon DEF StartClunk, StartRemove
<1> QED
  BY <1>5, <1>8, <1>9, <1>10, <1>11, <1>12, Zenon DEF Start

\* A handler goes on.
LEMMA AuthedContinue ==
  ASSUME AuthedInv, Room, NEW w \in Workers, Continue(w)
  PROVE  AuthedInv'
<1>0. /\ work \in [Workers -> JobType] /\ work[w] \in JobType /\ Fit(work[w])
      /\ info \in [Info -> InfoType] /\ fids \in [Fid -> Info \cup {None}]
      /\ authed' = authed /\ authing' = authing
  BY Zenon DEF AuthedInv, WorkOK, MemoryOK, TableOK, Continue, Walk, CreateNode, OpenNode, OpenSetMode,
         CreateNil, CreateStore, CreateOpen, IO, ClunkDelete, ClunkClose, RemoveDelete, RemoveFile, Refuse
<1>1. ASSUME Reply(w) PROVE WorkOK(work', authed')
  <2>1. work' = [work EXCEPT ![w] = Idle] /\ Idle \in JobType /\ Idle.pc = "idle"
    BY <1>1, Empty, Zenon DEF Reply, Idle
  <2>2. Fit(Idle)
    BY <2>1, Zenon DEF Fit
  <2> QED
    BY <1>0, <2>1, <2>2, WorkStep, ZenonT(30)
<1>2. ASSUME NEW pc \in PCs \ {"idle", "walk", "create", "store"}, GoOn(w, pc), work[w].pc # "idle"
      PROVE  WorkOK(work', authed')
  <2> DEFINE job == [work[w] EXCEPT !.pc = pc]
  <2>1. /\ work' = [work EXCEPT ![w] = job] /\ job \in JobType /\ job.pc = pc
        /\ job.fid = work[w].fid /\ job.info = work[w].info
    BY <1>0, <1>2, Zenon DEF GoOn, JobType
  <2> HIDE DEF job
  <2>2. Fit(job)
    BY <1>0, <1>2, <2>1, Zenon DEF Fit
  <2> QED
    BY <1>0, <1>2, <2>1, <2>2, WorkStep, Zenon
<1>3. ASSUME NEW f \in Fid, fids' = fids \/ fids' = [fids EXCEPT ![f] = None], info' = Collected(info),
             exists' \subseteq Dirs \cup Files, WorkOK(work', authed')
      PROVE  AuthedInv'
  <2>1. MemoryOK(info, authed') /\ TableOK(fids', info)
    BY <1>0, <1>3, Zenon DEF AuthedInv, TableOK
  <2> QED
    BY <1>0, <1>3, <2>1, AuthedStep, Zenon DEF AuthedInv
<1>4. CASE Refuse(w) \/ CreateOpen(w) \/ IO(w) \/ ClunkClose(w) \/ RemoveFile(w)
  <2>1. /\ work[w].pc # "idle" /\ Reply(w) /\ fids' = fids /\ info' = Collected(info)
        /\ exists' \subseteq Dirs \cup Files
    BY <1>4, ZenonT(30) DEF AuthedInv, Refuse, CreateOpen, IO, ClunkClose, RemoveFile, At
  <2>2. work[w].fid \in Fid
    BY <1>0, <2>1, Zenon DEF Fit
  <2> QED
    BY <1>1, <1>3, <2>1, <2>2, Zenon
<1>5. CASE ClunkDelete(w) \/ RemoveDelete(w)
  <2>1. /\ work[w].pc # "idle" /\ (Reply(w) \/ GoOn(w, "close") \/ GoOn(w, "removeFile"))
        /\ fids' = [fids EXCEPT ![work[w].fid] = None] /\ info' = Collected(info)
        /\ exists' \subseteq Dirs \cup Files
    BY <1>5, Zenon DEF AuthedInv, ClunkDelete, RemoveDelete, At
  <2>2. work[w].fid \in Fid
    BY <1>0, <2>1, ZenonT(30) DEF Fit
  <2>3. WorkOK(work', authed')
    BY <1>1, <1>2, <2>1, Zenon DEF PCs
  <2> QED
    BY <1>3, <2>1, <2>2, <2>3, Zenon
<1>6. ASSUME NEW m \in [Info -> InfoType], info' = m \/ info' = Collected(m),
             \A i \in Info : m[i].n = info[i].n /\ m[i].extra \in {info[i].extra, "children"},
             WorkOK(work', authed'), fids' = fids, exists' \subseteq Dirs \cup Files
      PROVE  AuthedInv'
  <2>1. MemoryOK(m, authed')
    BY <1>0, <1>6, Zenon DEF AuthedInv, MemoryOK
  <2>2. TableOK(fids', m)
    BY <1>0, <1>6, Zenon DEF AuthedInv, TableOK
  <2> QED
    BY <1>0, <1>6, <2>1, <2>2, AuthedStep, Zenon DEF AuthedInv
<1>7. CASE OpenNode(w) \/ OpenSetMode(w)
  <2>1. /\ work[w].pc \in {"open", "setMode"} /\ fids' = fids /\ exists' \subseteq Dirs \cup Files
        /\ GoOn(w, "setMode") \/ Reply(w)
    BY <1>7, Zenon DEF OpenNode, OpenSetMode, At, AuthedInv
  <2>2. WorkOK(work', authed')
    BY <1>1, <1>2, <2>1, ZenonT(30) DEF PCs
  <2> DEFINE i == work[w].info
             x == info[i]
  <2>3. i \in Info /\ x \in InfoType /\ work[w].mode \in Modes \cup {"none"}
    BY <1>0, <2>1, Zenon DEF Fit, JobType
  <2>4. \/ info' = info
        \/ info' = [info EXCEPT ![i] = [x EXCEPT !.extra = "children"]]
        \/ info' = Collected([info EXCEPT ![i] = [x EXCEPT !.mode = work[w].mode]])
    BY <1>7, Zenon DEF OpenNode, OpenSetMode
  <2>5. CASE info' = info
    BY <1>0, <1>6, <2>1, <2>2, <2>5, Zenon
  <2>6. ASSUME NEW y \in InfoType, y.n = x.n, y.extra \in {x.extra, "children"},
               info' = [info EXCEPT ![i] = y] \/ info' = Collected([info EXCEPT ![i] = y])
        PROVE  AuthedInv'
    <3>1. /\ [info EXCEPT ![i] = y] \in [Info -> InfoType]
          /\ \A j \in Info : /\ [info EXCEPT ![i] = y][j].n = info[j].n
                             /\ [info EXCEPT ![i] = y][j].extra \in {info[j].extra, "children"}
      BY <1>0, <2>3, <2>6, Zenon
    <3> QED
      BY <1>6, <2>1, <2>2, <2>6, <3>1, ZenonT(30)
  <2>7. /\ [x EXCEPT !.extra = "children"] \in InfoType
        /\ [x EXCEPT !.extra = "children"].n = x.n
        /\ [x EXCEPT !.extra = "children"].extra = "children"
        /\ [x EXCEPT !.mode = work[w].mode] \in InfoType
        /\ [x EXCEPT !.mode = work[w].mode].n = x.n
        /\ [x EXCEPT !.mode = work[w].mode].extra = x.extra
    BY <2>3, Zenon DEF InfoType
  <2> QED
    BY <2>4, <2>5, <2>6, <2>7, ZenonT(30)
<1>8. ASSUME NEW n \in Node, CreateNode(w, n) PROVE AuthedInv'
  <2> DEFINE job == [work[w] EXCEPT !.pc = "store", !.node = n]
  <2>1. /\ work[w].pc = "create" /\ fids' = fids /\ info' = info /\ exists' \subseteq Dirs \cup Files
        /\ work' = [work EXCEPT ![w].pc = "store", ![w].node = n]
    BY <1>8, Zenon DEF CreateNode, At, AuthedInv
  <2>2. /\ work' = [work EXCEPT ![w] = job] /\ job \in JobType /\ job.pc = "store"
        /\ job.fid = work[w].fid /\ job.info = work[w].info /\ job.node = n
    BY <1>0, <2>1, Zenon DEF JobType, PCs
  <2> HIDE DEF job
  <2>3. Fit(job)
    BY <1>0, <2>1, <2>2, Zenon DEF Fit
  <2>4. ~(AuthRequired /\ ~authed)
    BY <2>1, Zenon DEF AuthedInv, WorkOK
  <2>5. WorkOK(work', authed')
    BY <1>0, <2>2, <2>3, <2>4, WorkStep, ZenonT(30)
  <2> QED
    BY <1>0, <1>6, <2>1, <2>5, Zenon
<1>9. CASE CreateNil(w)
  <2>1. UNCHANGED <<fids, info, exists, work>>
    BY <1>9, Zenon DEF CreateNil
  <2> QED
    BY <1>0, <1>6, <2>1, Zenon DEF AuthedInv
<1>10. ASSUME NEW f \in Fid, NEW y \in InfoType, y.extra # "user", y.n \in Node,
              AuthRequired /\ ~authed => y.n = AuthFile, Store(f, y),
              WorkOK(work', authed'), exists' = exists
       PROVE  AuthedInv'
  <2> DEFINE m == [info EXCEPT ![New(f)] = y]
  <2>1. MemoryOK(m, authed') /\ TableOK([fids EXCEPT ![f] = New(f)], m)
    BY <1>0, <1>10, StoreStep, Zenon
  <2> HIDE DEF m
  <2>2. fids' = [fids EXCEPT ![f] = New(f)] /\ info' = Collected(m)
    BY <1>10, Zenon DEF Store, m
  <2> QED
    BY <1>0, <1>10, <2>1, <2>2, AuthedStep, Zenon DEF AuthedInv
<1>11. ASSUME NEW n \in Node, Walk(w, n) PROVE AuthedInv'
  <2> DEFINE x == info[work[w].info]
             y == newFidInfo(n, "none", x.uname)
  <2>1. /\ work[w].pc = "walk" /\ Reply(w) /\ exists' = exists /\ Store(work[w].newfid, y)
        /\ n = x.n \/ IsDir(x.n) \/ x.n \in exists
    BY <1>11, Zenon DEF Walk, At
  <2>2. work[w].newfid \in Fid /\ work[w].info \in Info /\ x \in InfoType
    BY <1>0, <2>1, Zenon DEF Fit
  <2>3. AuthRequired /\ ~authed => n = AuthFile
    <3>1. AuthRequired /\ ~authed => x.n \in {None, AuthFile}
      BY <2>2, Zenon DEF AuthedInv, MemoryOK
    <3>2. ~IsDir(AuthFile) /\ ~IsDir(None) /\ {None, AuthFile} \cap exists = {} /\ None \notin Node
      BY FidsAssumption, Zenon DEF IsDir, AuthedInv, Node
    <3> QED
      BY <1>11, <2>1, <3>1, <3>2, ZenonT(30)
  <2>4. y \in InfoType /\ y.n = n /\ y.extra = "none"
    <3>1. x.uname \in BOOLEAN
      BY <2>2, Zenon DEF InfoType
    <3> QED
      BY <3>1, Zenon DEF newFidInfo, InfoType
  <2> HIDE DEF y
  <2> QED
    BY <1>1, <1>10, <2>1, <2>2, <2>3, <2>4, Zenon
<1>12. CASE CreateStore(w)
  <2> DEFINE n == work[w].node
             x == newFidInfo(n, work[w].mode, info[work[w].info].uname)
             y == [x EXCEPT !.extra = IF IsDir(n) THEN "created" ELSE @]
  <2>1. /\ work[w].pc = "store" /\ (Reply(w) \/ GoOn(w, "createOpen"))
        /\ exists' = exists /\ Store(work[w].fid, y)
    BY <1>12, Zenon DEF CreateStore, At
  <2>2. work[w].fid \in Fid /\ work[w].info \in Info /\ n \in Node /\ work[w].mode \in Modes \cup {"none"}
    BY <1>0, <2>1, Zenon DEF Fit, JobType
  <2>3. WorkOK(work', authed')
    BY <1>1, <1>2, <2>1, Zenon DEF PCs
  <2>4. ~(AuthRequired /\ ~authed)
    BY <2>1, Zenon DEF AuthedInv, WorkOK
  <2>5. y \in InfoType /\ y.n = n /\ y.extra # "user"
    <3>1. info[work[w].info].uname \in BOOLEAN
      BY <1>0, <2>2, Zenon DEF InfoType
    <3> QED
      BY <2>2, <3>1, Zenon DEF newFidInfo, InfoType
  <2> HIDE DEF y
  <2> QED
    BY <1>10, <2>1, <2>2, <2>3, <2>4, <2>5, Zenon
<1> QED
  BY <1>4, <1>5, <1>7, <1>8, <1>9, <1>11, <1>12, Zenon DEF Continue

\* Auth, Attach, and the end of an authFunc.
LEMMA AuthedEntry ==
  ASSUME AuthedInv, Room, NEW f \in Fid, Auth(f) \/ \E g \in Fid : Attach(f, g)
  PROVE  AuthedInv'
<1>1. work' = work /\ authed' = authed /\ exists' = exists
  BY Zenon DEF Auth, Attach
<1>2. ASSUME NEW y \in InfoType, y.extra # "user", y.n \in Node,
             AuthRequired /\ ~authed => y.n = AuthFile, Store(f, y),
             authing' = authing \/ authing' = authing \cup {New(f)}
      PROVE  AuthedInv'
  <2> DEFINE m == [info EXCEPT ![New(f)] = y]
  <2>1. MemoryOK(m, authed') /\ TableOK([fids EXCEPT ![f] = New(f)], m) /\ New(f) \in Info
    BY <1>1, <1>2, StoreStep, Zenon
  <2> HIDE DEF m
  <2>2. fids' = [fids EXCEPT ![f] = New(f)] /\ info' = Collected(m)
    BY <1>2, Zenon DEF Store, m
  <2>3. WorkOK(work', authed') /\ authing' \subseteq Info /\ exists' \subseteq Dirs \cup Files
    BY <1>1, <1>2, <2>1, Zenon DEF AuthedInv
  <2> QED
    BY <2>1, <2>2, <2>3, AuthedStep, ZenonT(30)
<1>3. CASE Auth(f)
  <2> DEFINE y == newFidInfo(AuthFile, "Ordwr", FALSE)
  <2>1. y \in InfoType /\ y.n = AuthFile /\ y.extra = "none" /\ AuthFile \in Node
    BY Zenon DEF newFidInfo, InfoType, Node
  <2>2. Store(f, y) /\ authing' = authing \cup {New(f)}
    BY <1>3, ZenonT(30) DEF Auth
  <2> HIDE DEF y
  <2> QED
    BY <1>2, <2>1, <2>2, Zenon
<1>4. ASSUME NEW g \in Fid, Attach(f, g) PROVE AuthedInv'
  <2> DEFINE y == newFidInfo(Root, "none", TRUE)
  <2>1. y \in InfoType /\ y.n = Root /\ y.extra = "none" /\ Root \in Node
    BY Zenon DEF newFidInfo, InfoType, Node
  <2>2. Store(f, y) /\ authing' = authing
        /\ (AuthRequired => fids[g] # None /\ info[fids[g]].extra = "user")
    BY <1>4, ZenonT(30) DEF Attach
  <2>3. AuthRequired => authed
    BY <2>2, Zenon DEF AuthedInv, MemoryOK, TableOK
  <2> HIDE DEF y
  <2> QED
    BY <1>2, <2>1, <2>2, <2>3, Zenon
<1> QED
  BY <1>3, <1>4, Zenon

LEMMA AuthedDone ==
  ASSUME AuthedInv, NEW i \in Info, AuthDone(i)
  PROVE  AuthedInv'
<1>1. UNCHANGED <<fids, exists, work>> /\ authing' = authing \ {i}
  BY Zenon DEF AuthDone
<1>2. PICK e \in {"user", "error"} :
        info' = Collected([info EXCEPT ![i].extra = e]) /\ authed' = (authed \/ e = "user")
  BY Zenon DEF AuthDone
<1> DEFINE y == [info[i] EXCEPT !.extra = e]
           m == [info EXCEPT ![i] = y]
<1>3. info \in [Info -> InfoType] /\ info' = Collected(m)
  BY <1>2, Zenon DEF AuthedInv, MemoryOK
<1>4. y \in InfoType /\ y.n = info[i].n /\ y.extra = e
  BY <1>3, Zenon DEF InfoType
<1> HIDE DEF y
<1>5. m \in [Info -> InfoType] /\ \A j \in Info : m[j] = IF j = i THEN y ELSE info[j]
  BY <1>3, <1>4, Zenon
<1> HIDE DEF m
<1>6. MemoryOK(m, authed')
  BY <1>2, <1>4, <1>5, ZenonT(30) DEF AuthedInv, MemoryOK
<1>7. TableOK(fids', m)
  BY <1>1, <1>4, <1>5, Zenon DEF AuthedInv, TableOK
<1>8. WorkOK(work', authed')
  BY <1>1, <1>2, ZenonT(30) DEF AuthedInv, WorkOK
<1> QED
  BY <1>1, <1>3, <1>6, <1>7, <1>8, AuthedStep, Zenon DEF AuthedInv

LEMMA AuthedInvInit == Init => AuthedInv
<1> SUFFICES ASSUME Init PROVE AuthedInv
  BY Zenon
<1>1. Idle.pc = "idle" /\ NoInfo.n = None /\ NoInfo.extra = "none"
  BY Zenon DEF Idle, NoInfo
<1>2. WorkOK(work, authed)
  BY <1>1, Empty, ZenonT(30) DEF Init, WorkOK, Fit
<1>3. MemoryOK(info, authed)
  BY <1>1, Empty, Zenon DEF Init, MemoryOK
<1>4. TableOK(fids, info)
  BY Zenon DEF Init, TableOK
<1> QED
  BY <1>2, <1>3, <1>4, Zenon DEF Init, AuthedInv

LEMMA AuthedInvNext == Room /\ AuthedInv /\ [Next]_vars => AuthedInv'
<1> SUFFICES ASSUME Room, AuthedInv, [Next]_vars PROVE AuthedInv'
  BY Zenon
<1>1. CASE UNCHANGED vars
  BY <1>1, Zenon DEF vars, AuthedInv
<1>2. ASSUME NEW f \in Fid, Auth(f) \/ \E g \in Fid : Attach(f, g) PROVE AuthedInv'
  BY <1>2, AuthedEntry, Zenon
<1>3. ASSUME NEW i \in Info, AuthDone(i) PROVE AuthedInv'
  BY <1>3, AuthedDone, Zenon
<1>4. ASSUME NEW w \in Workers, Continue(w) PROVE AuthedInv'
  BY <1>4, AuthedContinue, Zenon
<1>5. ASSUME NEW w \in Workers, NEW f \in Fid, Start(w, f) PROVE AuthedInv'
  BY <1>5, AuthedStart, Zenon
<1> QED
  BY <1>1, <1>2, <1>3, <1>4, <1>5, Zenon DEF Next

LEMMA AuthedInvGood == AuthedInv => OnlyAuthenticated
<1>1. None \notin Node
  BY FidsAssumption, Zenon DEF Node
<1> QED
  BY <1>1, Zenon DEF AuthedInv, MemoryOK, TableOK, OnlyAuthenticated

-------------------------------------------------------------------------------
(* There is room for another fidInfo: those in use are fewer than the spare  *)
(* addresses, as the authFuncs that run are bounded.                         *)

INSTANCE FiniteSetTheorems

AuthsBounded == IsFiniteSet(authing) /\ Cardinality(authing) <= MaxAuths

LEMMA AuthsBoundedInit == Init => AuthsBounded
BY FS_EmptySet, FidsAssumption, SMTT(30) DEF Init, AuthsBounded

\* Only Auth starts an authFunc.
LEMMA AuthsBoundedNext == AuthsBounded /\ [Next]_vars => AuthsBounded'
<1> SUFFICES ASSUME AuthsBounded, [Next]_vars PROVE AuthsBounded'
  BY Zenon
<1>0. IsFiniteSet(authing) /\ Cardinality(authing) \in Nat /\ MaxAuths \in Nat
  BY FS_CardinalityType, FidsAssumption, Zenon DEF AuthsBounded
<1>1. \/ authing' = authing
      \/ \E i : authing' = authing \ {i}
      \/ Cardinality(authing) < MaxAuths /\ \E i : authing' = authing \cup {i}
  <2>1. CASE UNCHANGED vars
    BY <2>1, Zenon DEF vars
  <2>2. ASSUME NEW f \in Fid, Auth(f) \/ \E g \in Fid : Attach(f, g)
        PROVE  \/ authing' = authing
               \/ Cardinality(authing) < MaxAuths /\ \E i : authing' = authing \cup {i}
    BY <2>2, ZenonT(30) DEF Auth, Attach
  <2>3. ASSUME NEW i \in Info, AuthDone(i) PROVE authing' = authing \ {i}
    BY <2>3, Zenon DEF AuthDone
  <2>4. ASSUME NEW w \in Workers, Continue(w) PROVE authing' = authing
    BY <2>4, ZenonT(30) DEF Continue, Walk, CreateNode, OpenNode, OpenSetMode, CreateNil, CreateStore, CreateOpen, IO,
                ClunkDelete, ClunkClose, RemoveDelete, RemoveFile, Refuse
  <2>5. ASSUME NEW w \in Workers, NEW f \in Fid, Start(w, f) PROVE authing' = authing
    BY <2>5, ZenonT(30) DEF Start, StartWalk, StartOpen, StartCreate, ReadDir, StartIO, StartClunk, StartRemove
  <2> QED
    BY <2>1, <2>2, <2>3, <2>4, <2>5, Zenon DEF Next
<1>2. CASE authing' = authing
  BY <1>2, Zenon DEF AuthsBounded
<1>3. ASSUME NEW i, authing' = authing \ {i} PROVE AuthsBounded'
  <2>1. authing \ {i} \in SUBSET authing
    BY Zenon
  <2>2. IsFiniteSet(authing \ {i}) /\ Cardinality(authing \ {i}) <= Cardinality(authing)
    BY <1>0, <2>1, FS_Subset, ZenonT(30)
  <2>3. Cardinality(authing \ {i}) \in Nat /\ Cardinality(authing) <= MaxAuths
    BY <2>2, FS_CardinalityType, ZenonT(30) DEF AuthsBounded
  <2>4. Cardinality(authing \ {i}) <= MaxAuths
    BY <1>0, <2>2, <2>3, SMTT(30)
  <2> QED
    BY <1>3, <2>2, <2>4, ZenonT(30) DEF AuthsBounded
<1>4. ASSUME NEW i, authing' = authing \cup {i}, Cardinality(authing) < MaxAuths PROVE AuthsBounded'
  <2>1. /\ IsFiniteSet(authing \cup {i})
        /\ Cardinality(authing \cup {i}) =
             IF i \in authing THEN Cardinality(authing) ELSE Cardinality(authing) + 1
    BY <1>0, FS_AddElement, ZenonT(30)
  <2>2. Cardinality(authing \cup {i}) <= MaxAuths
    BY <1>0, <1>4, <2>1, SMTT(30)
  <2> QED
    BY <1>4, <2>1, <2>2, ZenonT(30) DEF AuthsBounded
<1> QED
  BY <1>1, <1>2, <1>3, <1>4, ZenonT(30)

LEMMA ImageCount ==
  ASSUME NEW S, IsFiniteSet(S), NEW T, NEW g \in [S -> T], T = {g[x] : x \in S}
  PROVE  IsFiniteSet(T) /\ Cardinality(T) <= Cardinality(S)
<1>1. g \in Surjection(S, T)
  BY Zenon DEF Surjection
<1> QED
  BY <1>1, FS_Surjection, Zenon

LEMMA UnionCount ==
  ASSUME NEW S, NEW T, IsFiniteSet(S), IsFiniteSet(T), NEW m \in Nat, NEW n \in Nat,
         Cardinality(S) <= m, Cardinality(T) <= n
  PROVE  IsFiniteSet(S \cup T) /\ Cardinality(S \cup T) <= m + n
<1>1. IsFiniteSet(S \cap T)
  BY FS_Subset, Zenon
<1>2. Cardinality(S) \in Nat /\ Cardinality(T) \in Nat /\ Cardinality(S \cap T) \in Nat
  BY <1>1, FS_CardinalityType, Zenon
<1>3. /\ IsFiniteSet(S \cup T)
      /\ Cardinality(S \cup T) = Cardinality(S) + Cardinality(T) - Cardinality(S \cap T)
  BY FS_Union, Zenon
<1> QED
  BY <1>2, <1>3, SMTT(30)

LEMMA RoomAlways == AuthsBounded => Room
<1> SUFFICES ASSUME AuthsBounded PROVE Room
  BY Zenon
<1> DEFINE A == {fids[f] : f \in Fid}
           B == {work[w].info : w \in Workers}
           c == Cardinality(Fid) + Cardinality(Workers)
           k == c + MaxAuths
<1>1. /\ IsFiniteSet(Fid) /\ IsFiniteSet(Workers) /\ IsFiniteSet(authing)
      /\ Cardinality(Fid) \in Nat /\ Cardinality(Workers) \in Nat /\ Cardinality(authing) \in Nat
      /\ MaxAuths \in Nat /\ Cardinality(authing) <= MaxAuths
  BY FidsAssumption, FS_CardinalityType, Zenon DEF AuthsBounded
<1>2. IsFiniteSet(A) /\ Cardinality(A) <= Cardinality(Fid)
  <2> DEFINE g == [f \in Fid |-> fids[f]]
  <2>1. g \in [Fid -> A] /\ A = {g[f] : f \in Fid}
    BY Zenon
  <2> HIDE DEF g, A
  <2> QED
    BY <1>1, <2>1, ImageCount, Zenon
<1>3. IsFiniteSet(B) /\ Cardinality(B) <= Cardinality(Workers)
  <2> DEFINE g == [w \in Workers |-> work[w].info]
  <2>1. g \in [Workers -> B] /\ B = {g[w] : w \in Workers}
    BY Zenon
  <2> HIDE DEF g, B
  <2> QED
    BY <1>1, <2>1, ImageCount, Zenon
<1>4. Live = (A \cup B) \cup authing
  BY Zenon DEF Live
<1> HIDE DEF A, B
<1>5. IsFiniteSet(A \cup B) /\ Cardinality(A \cup B) <= c /\ c \in Nat
  <2>1. IsFiniteSet(A \cup B) /\ Cardinality(A \cup B) <= Cardinality(Fid) + Cardinality(Workers)
    BY <1>1, <1>2, <1>3, UnionCount, ZenonT(30)
  <2> QED
    BY <1>1, <2>1, SMTT(30)
<1>6. IsFiniteSet(Live) /\ Cardinality(Live) <= k /\ k \in Nat
  <2> HIDE DEF c
  <2>1. IsFiniteSet((A \cup B) \cup authing) /\ Cardinality((A \cup B) \cup authing) <= c + MaxAuths
    BY <1>1, <1>5, UnionCount, ZenonT(30)
  <2> QED
    BY <1>1, <1>4, <1>5, <2>1, SMTT(30)
<1>7. Info = Fid \cup 1..(k + 1)
  BY Zenon DEF Info
<1> HIDE DEF c, k
<1>8. ~(1..(k + 1) \subseteq Live)
  <2> SUFFICES ASSUME 1..(k + 1) \subseteq Live PROVE FALSE
    BY Zenon
  <2>1. Cardinality(1..(k + 1)) = k + 1
    BY <1>6, FS_Interval, SMTT(30)
  <2>2. Cardinality(1..(k + 1)) <= Cardinality(Live) /\ Cardinality(Live) \in Nat
    BY <1>6, FS_Subset, FS_CardinalityType, Zenon
  <2> QED
    BY <1>6, <2>1, <2>2, SMTT(30)
<1>9. PICK i \in 1..(k + 1) : i \notin Live
  BY <1>8, Zenon
<1>10. i \in Info /\ i \notin Fid
  BY <1>6, <1>7, FidsAssumption, SMTT(30)
<1> QED
  BY <1>9, <1>10, Zenon DEF Room

-------------------------------------------------------------------------------
(* The theorems.  The first three are about a client that does not send a    *)
(* request on a fid that has one pending, nor walks to a fid in use.         *)

\* The contract of File: Files are used and closed only under descriptors that were
\* opened on them, and not opened twice, whatever handlers of other fids do.
THEOREM FileContractAlways == ASSUME ~Pipelined PROVE Spec => []FileContract
<1>1. Init => FidsInv /\ AuthsBounded
  BY FidsInvInit, AuthsBoundedInit, Zenon
<1>2. FidsInv /\ AuthsBounded /\ [Next]_vars => FidsInv' /\ AuthsBounded'
  BY FidsInvNext, AuthsBoundedNext, RoomAlways, Zenon
<1>3. FidsInv => FileContract
  BY FidsInvGood, Zenon
<1> QED
  BY <1>1, <1>2, <1>3, PTL DEF Spec

\* Files and the table agree on what is open while no handler is at work on the fid:
\* Clunk leaves no descriptor behind.  Those set apart (see apart) are excepted.
THEOREM HandlesMatchAlways == ASSUME ~Pipelined PROVE Spec => []HandlesMatch
<1>1. Init => FidsInv /\ AuthsBounded
  BY FidsInvInit, AuthsBoundedInit, Zenon
<1>2. FidsInv /\ AuthsBounded /\ [Next]_vars => FidsInv' /\ AuthsBounded'
  BY FidsInvNext, AuthsBoundedNext, RoomAlways, Zenon
<1>3. FidsInv => HandlesMatch
  BY FidsInvGood, Zenon
<1> QED
  BY <1>1, <1>2, <1>3, PTL DEF Spec

\* readDir finds the list of children in every directory that Open has opened.
THEOREM NoPanicAlways == ASSUME ~Pipelined PROVE Spec => []NoPanic
<1>1. Init => FidsInv /\ AuthsBounded
  BY FidsInvInit, AuthsBoundedInit, Zenon
<1>2. FidsInv /\ AuthsBounded /\ [Next]_vars => FidsInv' /\ AuthsBounded'
  BY FidsInvNext, AuthsBoundedNext, RoomAlways, Zenon
<1>3. FidsInv => NoPanic
  BY FidsInvGood, Zenon
<1> QED
  BY <1>1, <1>2, <1>3, PTL DEF Spec

\* With authentication no fid stands for a node of the tree before authFunc has
\* accepted a user, whichever way the client uses its fids.
THEOREM OnlyAuthenticatedAlways == Spec => []OnlyAuthenticated
<1>1. Init => AuthedInv /\ AuthsBounded
  BY AuthedInvInit, AuthsBoundedInit, Zenon
<1>2. AuthedInv /\ AuthsBounded /\ [Next]_vars => AuthedInv' /\ AuthsBounded'
  BY AuthedInvNext, AuthsBoundedNext, RoomAlways, Zenon
<1>3. AuthedInv => OnlyAuthenticated
  BY AuthedInvGood, Zenon
<1> QED
  BY <1>1, <1>2, <1>3, PTL DEF Spec
===============================================================================
