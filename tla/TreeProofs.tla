------------------------------ MODULE TreeProofs ------------------------------
(***************************************************************************)
(* What Tree guarantees for any number of workers, nodes, names and        *)
(* permissions.                                                            *)
(***************************************************************************)
EXTENDS Tree, TLAPS

-------------------------------------------------------------------------------
(* The inductive invariant, in parts.                                       *)

Dir == Dirs \cup {Root}

\* A node that was not made is nowhere; what a handler works on was made.
MadeInv ==
  /\ \A x \in Node \ made : parent[x] = None
  /\ \A w \in Workers : work[w].pc # "idle" => work[w].node \in made
  /\ \A w \in Workers : work[w].pc \in {"name", "delete"} => work[w].dir \in Dir

\* While no other handler has touched the node of a Remove, the node is where the
\* Remove found it, under the name it read.
RemoveInv ==
  \A w \in Workers : work[w].alone =>
    /\ work[w].pc \in {"name", "delete"} => parent[work[w].node] = work[w].dir
    /\ work[w].pc = "delete" => work[w].name = stat[work[w].node].name

\* What a Wstat leaves alone is in the Stat it is going to write as it was read,
\* and still is, unless another Wstat of the node came between.
WstatInv ==
  \A w \in Workers : work[w].pc = "write" =>
    LET x   == work[w].node
        req == work[w].req
        new == work[w].new
    IN  /\ new \in Stats
        /\ req.name = Keep /\ x \notin renamed => new.name = stat[x].name
        /\ work[w].alone =>
             /\ req.name = Keep => new.name = stat[x].name
             /\ req.mode = Keep => new.mode = stat[x].mode
             /\ req.length = Keep /\ x \notin Files => new.length = stat[x].length

TreeInv == TypeOK /\ MadeInv /\ ParentChild /\ UniqueNames /\ RemoveInv /\ WstatInv

-------------------------------------------------------------------------------
(* The types.                                                               *)

Job == [pc : {"idle", "name", "delete", "write"}, node : Node \cup {None},
        dir : Dir \cup {None}, name : Names \cup {None},
        req : Requests, new : Stats \cup {None}, alone : BOOLEAN]

LEMMA IdleJob == Idle \in Job
BY Zenon DEF Idle, Job, NoRequest, Requests

\* What EndChanging leaves of the work of a worker.
LEMMA Ended ==
  ASSUME work \in [Workers -> Job], NEW w \in Workers, NEW xs, EndChanging(w, xs)
  PROVE  /\ work' \in [Workers -> Job]
         /\ work'[w] = Idle
         /\ \A v \in Workers \ {w} :
              /\ work'[v].pc = work[v].pc /\ work'[v].node = work[v].node
              /\ work'[v].dir = work[v].dir /\ work'[v].name = work[v].name
              /\ work'[v].req = work[v].req /\ work'[v].new = work[v].new
              /\ (work'[v].alone => work[v].alone /\ work[v].node \notin xs)
<1>1. \A v \in Workers \ {w} : work'[v] = [work[v] EXCEPT !.alone = @ /\ work[v].node \notin xs]
  BY Zenon DEF EndChanging
<1>2. work'[w] = Idle
  BY Zenon DEF EndChanging
<1>3. \A v \in Workers \ {w} :
        /\ work'[v] \in Job
        /\ work'[v].pc = work[v].pc /\ work'[v].node = work[v].node
        /\ work'[v].dir = work[v].dir /\ work'[v].name = work[v].name
        /\ work'[v].req = work[v].req /\ work'[v].new = work[v].new
        /\ (work'[v].alone => work[v].alone /\ work[v].node \notin xs)
  <2> TAKE v \in Workers \ {w}
  <2> DEFINE b == work[v].alone /\ work[v].node \notin xs
  <2>1. work[v] \in Job /\ b \in BOOLEAN
    BY Zenon
  <2>2. work'[v] = [work[v] EXCEPT !.alone = b]
    BY <1>1, Zenon
  <2> HIDE DEF b
  <2>3. /\ work'[v] \in Job
        /\ work'[v].pc = work[v].pc /\ work'[v].node = work[v].node
        /\ work'[v].dir = work[v].dir /\ work'[v].name = work[v].name
        /\ work'[v].req = work[v].req /\ work'[v].new = work[v].new
        /\ work'[v].alone = b
    BY <2>1, <2>2, Zenon DEF Job
  <2> QED
    BY <2>3, Zenon DEF b
<1>4. work' \in [Workers -> Job]
  BY <1>2, <1>3, IdleJob, Zenon DEF EndChanging
<1> QED
  BY <1>2, <1>3, <1>4, Zenon

\* The Stat of a node is a Stat.
LEMMA StatType ==
  ASSUME stat \in [Node -> Stats], size \in [Node -> Length], NEW x \in Node
  PROVE  /\ Stat(x) \in Stats
         /\ Stat(x).name = stat[x].name /\ Stat(x).mode = stat[x].mode
         /\ x \notin Files => Stat(x) = stat[x]
         /\ x \in Files => Stat(x).length = size[x]
BY Zenon DEF Stat, Stats

\* The steps of Remove and Wstat that begin and go on.
LEMMA Started ==
  ASSUME TypeOK, NEW w \in Workers, NEW x \in Node,
         NEW j \in Job, work' = [work EXCEPT ![w] = j]
  PROVE  /\ work' \in [Workers -> Job] /\ work'[w] = j
         /\ \A v \in Workers \ {w} : work'[v] = work[v]
BY Zenon DEF TypeOK, Job, Dir

LEMMA RemoveJob ==
  ASSUME TypeOK, NEW w \in Workers, NEW x \in Node, StartRemove(w, x)
  PROVE  /\ work' \in [Workers -> Job]
         /\ work'[w].pc = "name" /\ work'[w].node = x /\ work'[w].dir = parent[x]
         /\ work'[w].alone
         /\ \A v \in Workers \ {w} : work'[v] = work[v]
<1> DEFINE j == [Idle EXCEPT !.pc = "name", !.node = x, !.dir = parent[x]]
<1>1. /\ j \in Job /\ j.pc = "name" /\ j.node = x /\ j.dir = parent[x] /\ j.alone
  BY ZenonT(30) DEF Idle, Job, NoRequest, Requests, TypeOK, Dir
<1> QED
  BY <1>1, Started, ZenonT(30) DEF StartRemove

LEMMA NamedJob ==
  ASSUME TypeOK, NEW w \in Workers, RemoveName(w), work[w].node \in Node
  PROVE  /\ work' \in [Workers -> Job]
         /\ work'[w].pc = "delete" /\ work'[w].node = work[w].node
         /\ work'[w].dir = work[w].dir /\ work'[w].alone = work[w].alone
         /\ work'[w].name = stat[work[w].node].name
         /\ \A v \in Workers \ {w} : work'[v] = work[v]
<1> DEFINE nm == Stat(work[w].node).name
           j  == [work[w] EXCEPT !.pc = "delete", !.name = nm]
<1>1. nm = stat[work[w].node].name /\ nm \in Names
  BY StatType, Zenon DEF TypeOK, Stats
<1>2. work[w] \in Job
  BY Zenon DEF TypeOK, Job, Dir
<1>3. /\ j \in Job /\ j.pc = "delete" /\ j.node = work[w].node /\ j.dir = work[w].dir
      /\ j.alone = work[w].alone /\ j.name = nm
  BY <1>1, <1>2, Zenon DEF Job
<1>4. work' = [work EXCEPT ![w] = j]
  BY Zenon DEF RemoveName
<1> QED
  BY <1>1, <1>3, <1>4, Started, ZenonT(30) DEF RemoveName

LEMMA WstatJob ==
  ASSUME TypeOK, NEW w \in Workers, NEW x \in Node, NEW req \in Requests,
         StartWstat(w, x, req)
  PROVE  /\ work' \in [Workers -> Job]
         /\ work'[w].pc = "write" /\ work'[w].node = x /\ work'[w].req = req
         /\ work'[w].new = Changed(Stat(x), req) /\ work'[w].new \in Stats
         /\ \A v \in Workers \ {w} : work'[v] = work[v]
<1> DEFINE new == Changed(Stat(x), req)
           j   == [Idle EXCEPT !.pc = "write", !.node = x, !.req = req, !.new = new]
<1>1. Stat(x) \in Stats
  BY StatType, Zenon DEF TypeOK
<1>2. new \in Stats
  <2>1. req.name \in Names \cup {Keep} /\ req.mode \in Perms \cup {Keep}
        /\ req.length \in Length \cup {Keep}
    BY Zenon DEF Requests
  <2> QED
    BY <1>1, <2>1, Zenon DEF Changed, Stats
<1>3. /\ j \in Job /\ j.pc = "write" /\ j.node = x /\ j.req = req /\ j.new = new
  BY <1>2, ZenonT(30) DEF Idle, Job, NoRequest, Requests
<1> QED
  BY <1>2, <1>3, Started, Zenon DEF StartWstat

\* Every step keeps the types.
LEMMA TypeInductive == TypeOK /\ MadeInv /\ WstatInv /\ [Next]_vars => TypeOK'
<1> SUFFICES ASSUME TypeOK, MadeInv, WstatInv, [Next]_vars PROVE TypeOK'
  BY Zenon
<1> USE TreeAssumption
<1>0. TypeOK <=> /\ made \subseteq Node /\ Root \in made
                 /\ kids \in [Dir -> SUBSET (Dirs \cup Files)]
                 /\ parent \in [Node -> Dir \cup {None}]
                 /\ stat \in [Node -> Stats] /\ size \in [Node -> Length]
                 /\ work \in [Workers -> Job] /\ renamed \subseteq made
  BY Zenon DEF TypeOK, Job, Dir
<1>1. CASE UNCHANGED vars
  BY <1>1, Zenon DEF TypeOK, vars
<1>2. ASSUME NEW d \in Dir, NEW x \in Dirs \cup Files, NEW nm \in Names, NEW m \in Perms,
             Create(d, x, nm, m)
      PROVE  TypeOK'
  <2>1. [name |-> nm, mode |-> m, length |-> 0] \in Stats
    BY DEF Stats, Length
  <2> QED
    BY <1>0, <1>2, <2>1 DEF TypeOK, Create, AddChild, Node, Dir, Job
<1>3. ASSUME NEW w \in Workers, NEW x \in Node, StartRemove(w, x) PROVE TypeOK'
  <2>1. work' \in [Workers -> Job]
    BY <1>3, RemoveJob, Zenon
  <2> QED
    BY <1>0, <1>3, <2>1, Zenon DEF TypeOK, StartRemove, Job, Dir
<1>4. ASSUME NEW w \in Workers, RemoveName(w) PROVE TypeOK'
  <2>1. work[w].node \in Node
    BY <1>4, Zenon DEF RemoveName, MadeInv, TypeOK
  <2>2. work' \in [Workers -> Job]
    BY <1>4, <2>1, NamedJob, Zenon
  <2> QED
    BY <1>0, <1>4, <2>2, Zenon DEF TypeOK, RemoveName, Job, Dir
<1>5. ASSUME NEW w \in Workers, DeleteChild(w) PROVE TypeOK'
  <2>1. work' \in [Workers -> Job]
    BY <1>0, <1>5, Ended, Zenon DEF DeleteChild
  <2>2. parent' \in [Node -> Dir \cup {None}]
    BY <1>0, <1>5, Zenon DEF DeleteChild
  <2>3. kids' \in [Dir -> SUBSET (Dirs \cup Files)]
    BY <1>0, <1>5, Zenon DEF DeleteChild
  <2> QED
    BY <1>0, <1>5, <2>1, <2>2, <2>3 DEF TypeOK, DeleteChild, Job, Dir
<1>6. ASSUME NEW w \in Workers, NEW x \in Node, NEW req \in Requests, StartWstat(w, x, req)
      PROVE  TypeOK'
  <2>1. work' \in [Workers -> Job]
    BY <1>6, WstatJob, Zenon
  <2> QED
    BY <1>0, <1>6, <2>1, Zenon DEF TypeOK, StartWstat, Job, Dir
<1>7. ASSUME NEW w \in Workers, WriteStat(w) PROVE TypeOK'
  <2>1. work' \in [Workers -> Job]
    BY <1>0, <1>7, Ended, Zenon DEF WriteStat
  <2>2. work[w].node \in made /\ work[w].new \in Stats
    BY <1>7, Zenon DEF WriteStat, MadeInv, WstatInv
  <2>3. Stored(work[w].node, work[w].new) \in Stats
    BY <2>2 DEF Stored, Stats, Length
  <2>4. stat' \in [Node -> Stats]
    BY <1>0, <1>7, <2>2, <2>3, Zenon DEF WriteStat
  <2> QED
    BY <1>0, <1>7, <2>1, <2>2, <2>4 DEF TypeOK, WriteStat, Job, Dir
<1>8. ASSUME NEW x \in Files, NEW n \in Length, Write(x, n) PROVE TypeOK'
  BY <1>8, Zenon DEF TypeOK, Write
<1>9. ASSUME NEW x \in Files, OpenTrunc(x) PROVE TypeOK'
  BY <1>9 DEF TypeOK, OpenTrunc, Length
<1> QED
  BY <1>1, <1>2, <1>3, <1>4, <1>5, <1>6, <1>7, <1>8, <1>9, Zenon DEF Next, Dir

-------------------------------------------------------------------------------
(* The tree and the handlers.                                               *)

LEMMA MadeInductive == TypeOK /\ MadeInv /\ [Next]_vars => MadeInv'
<1> SUFFICES ASSUME TypeOK, MadeInv, [Next]_vars PROVE MadeInv'
  BY Zenon
<1> USE TreeAssumption
<1>0. work \in [Workers -> Job]
  BY Zenon DEF TypeOK, Job, Dir
<1>1. CASE UNCHANGED vars
  BY <1>1, Zenon DEF MadeInv, vars
<1>2. ASSUME NEW d \in Dir, NEW x \in Dirs \cup Files, NEW nm \in Names, NEW m \in Perms,
             Create(d, x, nm, m)
      PROVE  MadeInv'
  BY <1>2, Zenon DEF MadeInv, TypeOK, Create, AddChild, Node
<1>3. ASSUME NEW w \in Workers, NEW x \in Node, StartRemove(w, x) PROVE MadeInv'
  <2>1. /\ work'[w].node = x /\ work'[w].dir = parent[x]
        /\ \A v \in Workers \ {w} : work'[v] = work[v]
    BY <1>3, RemoveJob, Zenon
  <2>2. x \in made /\ parent[x] \in Dir /\ made' = made /\ parent' = parent
    BY <1>3, Zenon DEF TypeOK, StartRemove, Begin, Dir
  <2> QED
    BY <2>1, <2>2, Zenon DEF MadeInv
<1>4. ASSUME NEW w \in Workers, RemoveName(w) PROVE MadeInv'
  <2>1. work[w].node \in Node
    BY <1>4, Zenon DEF RemoveName, MadeInv, TypeOK
  <2>2. /\ work'[w].node = work[w].node /\ work'[w].dir = work[w].dir
        /\ \A v \in Workers \ {w} : work'[v] = work[v]
    BY <1>4, <2>1, NamedJob, Zenon
  <2>3. work[w].pc = "name" /\ made' = made /\ parent' = parent
    BY <1>4, Zenon DEF RemoveName
  <2> QED
    BY <2>2, <2>3, Zenon DEF MadeInv
<1>5. ASSUME NEW w \in Workers, DeleteChild(w) PROVE MadeInv'
  <2>1. \A v \in Workers : work'[v].pc # "idle" =>
          v # w /\ work[v].pc = work'[v].pc /\ work[v].node = work'[v].node /\ work[v].dir = work'[v].dir
    BY <1>0, <1>5, Ended DEF DeleteChild, Idle
  <2> QED
    BY <1>5, <2>1, Zenon DEF MadeInv, DeleteChild
<1>6. ASSUME NEW w \in Workers, NEW x \in Node, NEW req \in Requests, StartWstat(w, x, req)
      PROVE  MadeInv'
  <2>1. /\ work'[w].pc = "write" /\ work'[w].node = x
        /\ \A v \in Workers \ {w} : work'[v] = work[v]
    BY <1>6, WstatJob, Zenon
  <2> QED
    BY <1>6, <2>1 DEF MadeInv, StartWstat, Begin
<1>7. ASSUME NEW w \in Workers, WriteStat(w) PROVE MadeInv'
  <2>1. \A v \in Workers : work'[v].pc # "idle" =>
          v # w /\ work[v].pc = work'[v].pc /\ work[v].node = work'[v].node /\ work[v].dir = work'[v].dir
    BY <1>0, <1>7, Ended DEF WriteStat, Idle
  <2> QED
    BY <1>7, <2>1, Zenon DEF MadeInv, WriteStat
<1>8. ASSUME NEW x \in Files, NEW n \in Length, Write(x, n) PROVE MadeInv'
  BY <1>8, Zenon DEF MadeInv, Write
<1>9. ASSUME NEW x \in Files, OpenTrunc(x) PROVE MadeInv'
  BY <1>9, Zenon DEF MadeInv, OpenTrunc
<1> QED
  BY <1>1, <1>2, <1>3, <1>4, <1>5, <1>6, <1>7, <1>8, <1>9, Zenon DEF Next, Dir

\* Only AddChild and DeleteChild change the tree, each in both directions.
LEMMA ParentChildInductive == TypeOK /\ MadeInv /\ ParentChild /\ [Next]_vars => ParentChild'
<1> SUFFICES ASSUME TypeOK, MadeInv, ParentChild, [Next]_vars PROVE ParentChild'
  BY Zenon
<1> USE TreeAssumption
<1>1. CASE UNCHANGED <<kids, parent>>
  BY <1>1, Zenon DEF ParentChild
<1>2. ASSUME NEW d \in Dir, NEW x \in Dirs \cup Files, NEW nm \in Names, NEW m \in Perms,
             Create(d, x, nm, m)
      PROVE  ParentChild'
  <2>1. x \in Node /\ parent[x] = None
    BY <1>2, Zenon DEF Create, MadeInv, Node
  <2>2. \A e \in Dir : x \notin kids[e]
    BY <2>1 DEF ParentChild, Dir, Node
  <2> QED
    BY <1>2, <2>1, <2>2 DEF ParentChild, TypeOK, Create, AddChild, Dir
<1>3. ASSUME NEW w \in Workers, DeleteChild(w) PROVE ParentChild'
  <2> DEFINE d    == work[w].dir
             gone == Named(d, work[w].name)
  <2>1. d \in Dir
    BY <1>3, Zenon DEF DeleteChild, MadeInv
  <2>2. gone \subseteq kids[d] /\ \A x \in gone : x \in Node /\ parent[x] = d
    BY <2>1, Zenon DEF Named, ParentChild, TypeOK, Node, Dir
  <2> QED
    BY <1>3, <2>1, <2>2 DEF DeleteChild, ParentChild, TypeOK, Dir, Node
<1>4. [Next]_vars => \/ UNCHANGED <<kids, parent>>
                     \/ \E d \in Dir, x \in Dirs \cup Files, nm \in Names, m \in Perms :
                          Create(d, x, nm, m)
                     \/ \E w \in Workers : DeleteChild(w)
  BY Zenon DEF Next, Dir, vars, StartRemove, RemoveName, StartWstat, WriteStat, Write, OpenTrunc
<1> QED
  BY <1>1, <1>2, <1>3, <1>4, Zenon

\* AddChild refuses the name of a sibling, and a name only changes in a Wstat that
\* asks for it.
LEMMA UniqueInductive ==
  TypeOK /\ MadeInv /\ ParentChild /\ WstatInv /\ UniqueNames /\ [Next]_vars => UniqueNames'
<1> SUFFICES ASSUME TypeOK, MadeInv, ParentChild, WstatInv, UniqueNames, [Next]_vars
             PROVE  UniqueNames'
  BY Zenon
<1> USE TreeAssumption
<1>1. CASE UNCHANGED <<kids, stat, renamed>>
  BY <1>1 DEF UniqueNames
<1>2. ASSUME NEW d \in Dir, NEW x \in Dirs \cup Files, NEW nm \in Names, NEW m \in Perms,
             Create(d, x, nm, m)
      PROVE  UniqueNames'
  <2>1. x \in Node /\ parent[x] = None
    BY <1>2, Zenon DEF Create, MadeInv, Node
  <2>2. \A e \in Dir : x \notin kids[e]
    BY <2>1 DEF ParentChild, Dir, Node
  <2>3. \A c \in kids[d] : c \in Node /\ stat[c].name # nm
    <3>1. \A c \in kids[d] : c \in Node /\ Stat(c).name # stat'[x].name
      BY <1>2, Zenon DEF Create, AddChild, TypeOK, Node, Dir
    <3>2. stat'[x].name = nm
      BY <1>2, <2>1, Zenon DEF Create, TypeOK
    <3> QED
      BY <3>1, <3>2, StatType DEF TypeOK
  <2>4. /\ renamed' = renamed
        /\ \A e \in Dir : kids'[e] = IF e = d THEN kids[d] \cup {x} ELSE kids[e]
        /\ \A y \in Node \ {x} : stat'[y] = stat[y]
        /\ stat'[x].name = nm
    BY <1>2, <2>1, Zenon DEF Create, AddChild, TypeOK, Dir
  <2>5. ASSUME NEW e \in Dir, NEW y \in kids'[e] \ renamed', NEW z \in kids'[e] \ renamed',
               stat'[y].name = stat'[z].name
        PROVE  y = z
    <3>1. \A u \in kids[e] : u \in Node \ {x}
      BY <2>2 DEF TypeOK, Node, Dir
    <3>2. CASE y = x
      BY <2>3, <2>4, <2>5, <3>1, <3>2
    <3>3. CASE z = x
      BY <2>3, <2>4, <2>5, <3>1, <3>3
    <3>4. CASE y # x /\ z # x
      BY <2>4, <2>5, <3>1, <3>4 DEF UniqueNames, Dir
    <3> QED
      BY <3>2, <3>3, <3>4, Zenon
  <2> QED
    BY <2>5, Zenon DEF UniqueNames, Dir
<1>3. ASSUME NEW w \in Workers, DeleteChild(w) PROVE UniqueNames'
  <2>1. stat' = stat /\ renamed' = renamed /\ \A d \in Dir : kids'[d] \subseteq kids[d]
    BY <1>3, Zenon DEF DeleteChild, TypeOK, Dir
  <2> QED
    BY <2>1, Zenon DEF UniqueNames, Dir
<1>4. ASSUME NEW w \in Workers, WriteStat(w) PROVE UniqueNames'
  <2> DEFINE x == work[w].node
  <2>1. x \in Node /\ kids' = kids
    BY <1>4, Zenon DEF WriteStat, MadeInv, TypeOK
  <2>2. work[w].new \in Stats /\ Stored(x, work[w].new).name = work[w].new.name
    BY <1>4, Zenon DEF WriteStat, WstatInv, Stored, Stats
  <2>3. \A y \in Node \ {x} : stat'[y] = stat[y]
    BY <1>4, <2>1, Zenon DEF WriteStat, TypeOK
  <2>4. renamed \subseteq renamed' /\ (x \notin renamed' => stat'[x].name = stat[x].name)
    <3>1. stat'[x].name = work[w].new.name
      BY <1>4, <2>1, <2>2, Zenon DEF WriteStat, TypeOK
    <3>2. x \notin renamed' => work[w].req.name = Keep /\ x \notin renamed
      BY <1>4, Zenon DEF WriteStat
    <3> QED
      BY <1>4, <3>1, <3>2, Zenon DEF WriteStat, WstatInv
  <2>5. \A d \in Dir : kids[d] \subseteq Node
    BY Zenon DEF TypeOK, Dir, Node
  <2>6. \A y \in Node \ renamed' : stat'[y].name = stat[y].name
    BY <2>3, <2>4, Zenon
  <2> QED
    BY <2>1, <2>4, <2>5, <2>6, Zenon DEF UniqueNames, Dir
<1>5. [Next]_vars => \/ UNCHANGED <<kids, stat, renamed>>
                     \/ \E d \in Dir, x \in Dirs \cup Files, nm \in Names, m \in Perms :
                          Create(d, x, nm, m)
                     \/ \E w \in Workers : DeleteChild(w) \/ WriteStat(w)
  BY ZenonT(30) DEF Next, Dir, vars, StartRemove, RemoveName, StartWstat, Write, OpenTrunc
<1> QED
  BY <1>1, <1>2, <1>3, <1>4, <1>5, Zenon

-------------------------------------------------------------------------------
(* What the handlers know.                                                  *)

\* Between the reading of the parent and of the name, and the deletion, a node
\* moves or gets a name only in a step that says so to the handler's history.
LEMMA RemoveInductive == TypeOK /\ MadeInv /\ WstatInv /\ RemoveInv /\ [Next]_vars => RemoveInv'
<1> SUFFICES ASSUME TypeOK, MadeInv, WstatInv, RemoveInv, [Next]_vars PROVE RemoveInv'
  BY Zenon
<1> USE TreeAssumption
<1>0. work \in [Workers -> Job]
  BY Zenon DEF TypeOK, Job, Dir
<1>1. CASE UNCHANGED <<parent, stat, work>>
  BY <1>1, Zenon DEF RemoveInv
<1>2. ASSUME NEW d \in Dir, NEW x \in Dirs \cup Files, NEW nm \in Names, NEW m \in Perms,
             Create(d, x, nm, m)
      PROVE  RemoveInv'
  <2>1. work' = work /\ \A y \in made : parent'[y] = parent[y] /\ stat'[y] = stat[y]
    BY <1>2, Zenon DEF Create, AddChild, TypeOK
  <2> QED
    BY <2>1, SMTT(30) DEF RemoveInv, MadeInv
<1>3. ASSUME NEW w \in Workers, NEW x \in Node, StartRemove(w, x) PROVE RemoveInv'
  <2>1. /\ work'[w].pc = "name" /\ work'[w].node = x /\ work'[w].dir = parent[x]
        /\ \A v \in Workers \ {w} : work'[v] = work[v]
    BY <1>3, RemoveJob, Zenon
  <2>2. parent' = parent /\ stat' = stat
    BY <1>3, Zenon DEF StartRemove
  <2> QED
    BY <2>1, <2>2 DEF RemoveInv
<1>4. ASSUME NEW w \in Workers, RemoveName(w) PROVE RemoveInv'
  <2>1. work[w].pc = "name" /\ work[w].node \in Node /\ parent' = parent /\ stat' = stat
    BY <1>4, Zenon DEF RemoveName, MadeInv, TypeOK
  <2>2. /\ work'[w].node = work[w].node /\ work'[w].dir = work[w].dir
        /\ work'[w].alone = work[w].alone /\ work'[w].name = stat[work[w].node].name
        /\ \A v \in Workers \ {w} : work'[v] = work[v]
    BY <1>4, <2>1, NamedJob, Zenon
  <2> QED
    BY <2>1, <2>2 DEF RemoveInv
<1>5. ASSUME NEW w \in Workers, DeleteChild(w) PROVE RemoveInv'
  <2> DEFINE gone == Named(work[w].dir, work[w].name)
  <2>1. EndChanging(w, gone) /\ stat' = stat
    BY <1>5, Zenon DEF DeleteChild
  <2>2. /\ work'[w] = Idle
        /\ \A v \in Workers \ {w} :
             /\ work'[v].pc = work[v].pc /\ work'[v].node = work[v].node
             /\ work'[v].dir = work[v].dir /\ work'[v].name = work[v].name
             /\ (work'[v].alone => work[v].alone /\ work[v].node \notin gone)
    BY <1>0, <2>1, Ended, SMTT(30)
  <2>3. \A y \in Node \ gone : parent'[y] = parent[y]
    BY <1>5, Zenon DEF DeleteChild
  <2>4. \A v \in Workers : work[v].pc # "idle" => work[v].node \in Node
    BY Zenon DEF MadeInv, TypeOK
  <2>5. Idle.pc = "idle"
    BY Zenon DEF Idle
  <2> HIDE DEF gone
  <2> QED
    BY <2>1, <2>2, <2>3, <2>4, <2>5, SMTT(30) DEF RemoveInv
<1>6. ASSUME NEW w \in Workers, NEW x \in Node, NEW req \in Requests, StartWstat(w, x, req)
      PROVE  RemoveInv'
  <2>1. work'[w].pc = "write" /\ \A v \in Workers \ {w} : work'[v] = work[v]
    BY <1>6, WstatJob, Zenon
  <2>2. parent' = parent /\ stat' = stat
    BY <1>6, Zenon DEF StartWstat
  <2> QED
    BY <2>1, <2>2, SMTT(30) DEF RemoveInv
<1>7. ASSUME NEW w \in Workers, WriteStat(w) PROVE RemoveInv'
  <2> DEFINE x == work[w].node
  <2>1. EndChanging(w, {x}) /\ parent' = parent
    BY <1>7, Zenon DEF WriteStat
  <2>2. /\ work'[w] = Idle
        /\ \A v \in Workers \ {w} :
             /\ work'[v].pc = work[v].pc /\ work'[v].node = work[v].node
             /\ work'[v].dir = work[v].dir /\ work'[v].name = work[v].name
             /\ (work'[v].alone => work[v].alone /\ work[v].node \notin {x})
    BY <1>0, <2>1, Ended, SMTT(30)
  <2>3. \A y \in Node \ {x} : stat'[y] = stat[y]
    BY <1>7, Zenon DEF WriteStat, TypeOK
  <2>4. \A v \in Workers : work[v].pc # "idle" => work[v].node \in Node
    BY Zenon DEF MadeInv, TypeOK
  <2>5. Idle.pc = "idle"
    BY Zenon DEF Idle
  <2> QED
    BY <2>1, <2>2, <2>3, <2>4, <2>5, SMTT(30) DEF RemoveInv
<1>8. [Next]_vars => \/ UNCHANGED <<parent, stat, work>>
                     \/ \E d \in Dir, x \in Dirs \cup Files, nm \in Names, m \in Perms :
                          Create(d, x, nm, m)
                     \/ \E w \in Workers :
                          \/ \E x \in Node : StartRemove(w, x) \/ \E req \in Requests : StartWstat(w, x, req)
                          \/ RemoveName(w) \/ DeleteChild(w) \/ WriteStat(w)
  BY Zenon DEF Next, Dir, vars, Write, OpenTrunc
<1> QED
  BY <1>1, <1>2, <1>3, <1>4, <1>5, <1>6, <1>7, <1>8, Zenon

\* What Changed makes of the Stat that Wstat reads.
LEMMA ChangedKeeps ==
  ASSUME TypeOK, NEW x \in Node, NEW req \in Requests
  PROVE  LET new == Changed(Stat(x), req)
         IN  /\ req.name = Keep => new.name = stat[x].name
             /\ req.mode = Keep => new.mode = stat[x].mode
             /\ req.length = Keep /\ x \notin Files => new.length = stat[x].length
<1>1. /\ Stat(x).name = stat[x].name /\ Stat(x).mode = stat[x].mode
      /\ x \notin Files => Stat(x) = stat[x]
  BY StatType, Zenon DEF TypeOK
<1> QED
  BY <1>1, Zenon DEF Changed

LEMMA WstatInductive == TypeOK /\ MadeInv /\ WstatInv /\ [Next]_vars => WstatInv'
<1> SUFFICES ASSUME TypeOK, MadeInv, WstatInv, [Next]_vars PROVE WstatInv'
  BY Zenon
<1> USE TreeAssumption
<1>0. work \in [Workers -> Job]
  BY Zenon DEF TypeOK, Job, Dir
<1>1. CASE UNCHANGED <<stat, work, renamed>>
  BY <1>1, Zenon DEF WstatInv
<1>2. ASSUME NEW d \in Dir, NEW x \in Dirs \cup Files, NEW nm \in Names, NEW m \in Perms,
             Create(d, x, nm, m)
      PROVE  WstatInv'
  <2>1. work' = work /\ renamed' = renamed /\ \A y \in made : stat'[y] = stat[y]
    BY <1>2, Zenon DEF Create, TypeOK
  <2> QED
    BY <2>1, SMTT(30) DEF WstatInv, MadeInv
<1>3. ASSUME NEW w \in Workers, NEW x \in Node, StartRemove(w, x) PROVE WstatInv'
  <2>1. work'[w].pc = "name" /\ \A v \in Workers \ {w} : work'[v] = work[v]
    BY <1>3, RemoveJob, Zenon
  <2>2. stat' = stat /\ renamed' = renamed
    BY <1>3, Zenon DEF StartRemove
  <2> QED
    BY <2>1, <2>2, SMTT(30) DEF WstatInv
<1>4. ASSUME NEW w \in Workers, RemoveName(w) PROVE WstatInv'
  <2>1. work[w].node \in Node /\ stat' = stat /\ renamed' = renamed
    BY <1>4, Zenon DEF RemoveName, MadeInv, TypeOK
  <2>2. work'[w].pc = "delete" /\ \A v \in Workers \ {w} : work'[v] = work[v]
    BY <1>4, <2>1, NamedJob, Zenon
  <2> QED
    BY <2>1, <2>2, SMTT(30) DEF WstatInv
<1>5. ASSUME NEW w \in Workers, DeleteChild(w) PROVE WstatInv'
  <2> DEFINE gone == Named(work[w].dir, work[w].name)
  <2>1. EndChanging(w, gone) /\ stat' = stat /\ renamed' = renamed
    BY <1>5, Zenon DEF DeleteChild
  <2>2. /\ work'[w] = Idle
        /\ \A v \in Workers \ {w} :
             /\ work'[v].pc = work[v].pc /\ work'[v].node = work[v].node
             /\ work'[v].req = work[v].req /\ work'[v].new = work[v].new
             /\ (work'[v].alone => work[v].alone /\ work[v].node \notin gone)
    BY <1>0, <2>1, Ended
  <2>3. Idle.pc = "idle"
    BY Zenon DEF Idle
  <2> HIDE DEF gone
  <2> QED
    BY <2>1, <2>2, <2>3, SMTT(30) DEF WstatInv
<1>6. ASSUME NEW w \in Workers, NEW x \in Node, NEW req \in Requests, StartWstat(w, x, req)
      PROVE  WstatInv'
  <2>1. /\ work'[w].node = x /\ work'[w].req = req
        /\ work'[w].new = Changed(Stat(x), req) /\ work'[w].new \in Stats
        /\ \A v \in Workers \ {w} : work'[v] = work[v]
    BY <1>6, WstatJob
  <2>2. stat' = stat /\ renamed' = renamed
    BY <1>6, Zenon DEF StartWstat
  <2>3. /\ req.name = Keep => work'[w].new.name = stat[x].name
        /\ req.mode = Keep => work'[w].new.mode = stat[x].mode
        /\ req.length = Keep /\ x \notin Files => work'[w].new.length = stat[x].length
    BY <2>1, ChangedKeeps, SMTT(30)
  <2> QED
    BY <2>1, <2>2, <2>3, SMTT(30) DEF WstatInv
<1>7. ASSUME NEW w \in Workers, WriteStat(w) PROVE WstatInv'
  <2> DEFINE x == work[w].node
  <2>1. EndChanging(w, {x}) /\ x \in Node
    BY <1>7, Zenon DEF WriteStat, MadeInv, TypeOK
  <2>2. /\ work'[w] = Idle
        /\ \A v \in Workers \ {w} :
             /\ work'[v].pc = work[v].pc /\ work'[v].node = work[v].node
             /\ work'[v].req = work[v].req /\ work'[v].new = work[v].new
             /\ (work'[v].alone => work[v].alone /\ work[v].node \notin {x})
    BY <1>0, <2>1, Ended, SMTT(30)
  <2>3. \A y \in Node \ {x} : stat'[y] = stat[y]
    BY <1>7, Zenon DEF WriteStat, TypeOK
  <2>4. renamed \subseteq renamed' /\ (x \notin renamed' => stat'[x].name = stat[x].name)
    <3>1. work[w].new \in Stats /\ Stored(x, work[w].new).name = work[w].new.name
      BY <1>7, SMTT(30) DEF WriteStat, WstatInv, Stored, Stats
    <3>2. stat'[x].name = work[w].new.name
      BY <1>7, <2>1, <3>1, Zenon DEF WriteStat, TypeOK
    <3>3. x \notin renamed' => work[w].req.name = Keep /\ x \notin renamed
      BY <1>7, Zenon DEF WriteStat
    <3> QED
      BY <1>7, <3>2, <3>3, Zenon DEF WriteStat, WstatInv
  <2>5. \A v \in Workers : work[v].pc # "idle" => work[v].node \in Node
    BY Zenon DEF MadeInv, TypeOK
  <2>6. Idle.pc = "idle"
    BY Zenon DEF Idle
  <2> HIDE DEF x
  <2> QED
    BY <2>1, <2>2, <2>3, <2>4, <2>5, <2>6, SMTT(30) DEF WstatInv
<1>8. [Next]_vars => \/ UNCHANGED <<stat, work, renamed>>
                     \/ \E d \in Dir, x \in Dirs \cup Files, nm \in Names, m \in Perms :
                          Create(d, x, nm, m)
                     \/ \E w \in Workers :
                          \/ \E x \in Node : StartRemove(w, x) \/ \E req \in Requests : StartWstat(w, x, req)
                          \/ RemoveName(w) \/ DeleteChild(w) \/ WriteStat(w)
  BY Zenon DEF Next, Dir, vars, Write, OpenTrunc
<1> QED
  BY <1>1, <1>2, <1>3, <1>4, <1>5, <1>6, <1>7, <1>8, Zenon

-------------------------------------------------------------------------------
(* The theorems.                                                            *)

LEMMA InitInv == Init => TreeInv
<1> SUFFICES ASSUME Init PROVE TreeInv
  BY Zenon
<1> USE TreeAssumption
<1>1. work \in [Workers -> Job] /\ \A w \in Workers : work[w].pc = "idle"
  <2>1. Idle.pc = "idle"
    BY Zenon DEF Idle
  <2> QED
    BY <2>1, IdleJob, Zenon DEF Init
<1>2. TypeOK
  BY <1>1, SMTT(30) DEF Init, TypeOK, Job, Dir, Node, Length
<1>3. MadeInv /\ RemoveInv /\ WstatInv
  BY <1>1, Zenon DEF Init, MadeInv, RemoveInv, WstatInv
<1>4. ParentChild /\ UniqueNames
  BY Zenon DEF Init, ParentChild, UniqueNames
<1> QED
  BY <1>2, <1>3, <1>4, Zenon DEF TreeInv

LEMMA TreeInductive == TreeInv /\ [Next]_vars => TreeInv'
BY TypeInductive, MadeInductive, ParentChildInductive, UniqueInductive,
   RemoveInductive, WstatInductive DEF TreeInv

\* The inductive invariant holds in every state: the types, the tree, and what the
\* handlers know of their nodes.
THEOREM TreeInvariant == Spec => []TreeInv
<1>1. Init => TreeInv
  BY InitInv, Zenon
<1>2. TreeInv /\ [Next]_vars => TreeInv'
  BY TreeInductive, Zenon
<1> QED
  BY <1>1, <1>2, PTL DEF Spec

\* Children and parents agree, however AddChild and DeleteChild of any number of
\* handlers interleave.
THEOREM TreeConsistent == Spec => []ParentChild
<1>1. TreeInv => ParentChild
  BY Zenon DEF TreeInv
<1> QED
  BY <1>1, TreeInvariant, PTL

\* AddChild keeps the names in a directory apart; only a Wstat of the name can
\* make two of them equal.
THEOREM NamesUnique == Spec => []UniqueNames
<1>1. TreeInv => UniqueNames
  BY Zenon DEF TreeInv
<1> QED
  BY <1>1, TreeInvariant, PTL

\* A handler that is about to delete or to write ends by its own step.
LEMMA OwnStep ==
  ASSUME TypeOK, MadeInv, [Next]_vars, NEW w \in Workers, work'[w] = Idle,
         work[w].pc \in {"delete", "write"}
  PROVE  \/ work[w].pc = "delete" /\ DeleteChild(w)
         \/ work[w].pc = "write" /\ WriteStat(w)
<1> SUFFICES ASSUME work'[w].pc = work[w].pc PROVE FALSE
  <2>1. CASE work' = work
    BY <2>1, Zenon
  <2>2. ASSUME NEW v \in Workers, NEW x \in Node, StartRemove(v, x)
        PROVE  work'[w].pc = work[w].pc
    <3>1. \A u \in Workers \ {v} : work'[u] = work[u]
      BY <2>2, RemoveJob, Zenon
    <3>2. work[v].pc = "idle"
      BY <2>2 DEF StartRemove, Begin, Idle
    <3> QED
      BY <3>1, <3>2, Zenon
  <2>3. ASSUME NEW v \in Workers, NEW x \in Node, NEW req \in Requests, StartWstat(v, x, req)
        PROVE  work'[w].pc = work[w].pc
    <3>1. \A u \in Workers \ {v} : work'[u] = work[u]
      BY <2>3, WstatJob, Zenon
    <3>2. work[v].pc = "idle"
      BY <2>3 DEF StartWstat, Begin, Idle
    <3> QED
      BY <3>1, <3>2, Zenon
  <2>4. ASSUME NEW v \in Workers, RemoveName(v) PROVE work'[w].pc = work[w].pc
    <3>1. work[v].pc = "name" /\ work[v].node \in Node
      BY <2>4, Zenon DEF RemoveName, MadeInv, TypeOK
    <3>2. \A u \in Workers \ {v} : work'[u] = work[u]
      BY <2>4, <3>1, NamedJob, Zenon
    <3> QED
      BY <3>1, <3>2, Zenon
  <2>5. ASSUME NEW v \in Workers, v # w, DeleteChild(v) \/ WriteStat(v)
        PROVE  work'[w].pc = work[w].pc
    <3>1. work \in [Workers -> Job]
      BY Zenon DEF TypeOK, Job, Dir
    <3>2. PICK xs : EndChanging(v, xs)
      BY <2>5, Zenon DEF DeleteChild, WriteStat
    <3> QED
      BY <2>5, <3>1, <3>2, Ended, SMTT(30)
  <2>6. ASSUME DeleteChild(w) \/ WriteStat(w)
        PROVE  \/ work[w].pc = "delete" /\ DeleteChild(w)
               \/ work[w].pc = "write" /\ WriteStat(w)
    BY <2>6, Zenon DEF DeleteChild, WriteStat
  <2>7. \/ work' = work
        \/ \E v \in Workers :
             \/ \E x \in Node : StartRemove(v, x) \/ \E req \in Requests : StartWstat(v, x, req)
             \/ RemoveName(v) \/ DeleteChild(v) \/ WriteStat(v)
    BY Zenon DEF Next, vars, Create, Write, OpenTrunc
  <2> QED
    BY <2>1, <2>2, <2>3, <2>4, <2>5, <2>6, <2>7, Zenon
<1> QED
  BY SMTT(30) DEF Idle

\* RMFile, although it goes by the name, takes its own node out of the tree and no
\* other, as long as no other handler has changed or removed the node meanwhile and
\* no rename has given the two the same name.
THEOREM RemoveTakesItsNode == Spec => RemoveExact
<1>1. ASSUME TreeInv, [Next]_vars, NEW w \in Workers,
             work[w].pc = "delete", work'[w] = Idle, work[w].alone
      PROVE  /\ work[w].node \in Leaving(w)
             /\ \A x \in Leaving(w) \ {work[w].node} : {x, work[w].node} \cap renamed # {}
  <2> DEFINE d == work[w].dir
             n == work[w].node
  <2> USE TreeAssumption
  <2>1. DeleteChild(w)
    BY <1>1, OwnStep, Zenon DEF TreeInv
  <2>2. n \in Node /\ d \in Dir /\ parent[n] = d /\ work[w].name = stat[n].name
    BY <1>1, Zenon DEF TreeInv, TypeOK, MadeInv, RemoveInv
  <2>3. \A x \in Node : parent'[x] = IF x \in Named(d, work[w].name) THEN None ELSE parent[x]
    BY <2>1, Zenon DEF DeleteChild
  <2>4. \A x \in Node : x \in Named(d, work[w].name) <=> x \in kids[d] /\ stat[x].name = stat[n].name
    BY <1>1, <2>2, StatType, Zenon DEF Named, TreeInv, TypeOK
  <2>5. n \in Leaving(w)
    BY <1>1, <2>2, <2>3, <2>4, SMTT(30) DEF Leaving, TreeInv, ParentChild, Dir
  <2>6. ASSUME NEW x \in Leaving(w), x # n, x \notin renamed, n \notin renamed PROVE FALSE
    <3>1. x \in kids[d] /\ stat[x].name = stat[n].name
      BY <2>3, <2>4, Zenon DEF Leaving
    <3>2. n \in kids[d]
      BY <1>1, <2>2, Zenon DEF TreeInv, ParentChild, Dir
    <3> QED
      BY <1>1, <2>2, <2>6, <3>1, <3>2, Zenon DEF TreeInv, UniqueNames, Dir
  <2> QED
    BY <2>5, <2>6, Zenon
<1>2. TreeInv /\ [Next]_vars =>
        [\A w \in Workers : work[w].pc = "delete" /\ work'[w] = Idle /\ work[w].alone =>
           /\ work[w].node \in Leaving(w)
           /\ \A x \in Leaving(w) \ {work[w].node} : {x, work[w].node} \cap renamed # {}]_vars
  BY <1>1, Zenon
<1> QED
  BY <1>2, TreeInvariant, PTL DEF Spec, RemoveExact

\* The handler of Wstat writes the whole Stat back and still leaves what the request
\* does not name as it is, as long as no other Wstat and no Remove of the node came
\* between; writing and truncating the file may.
THEOREM WstatLeavesTheRest == Spec => DontTouch
<1>1. ASSUME TreeInv, [Next]_vars, NEW w \in Workers, NEW x \in Node,
             Answers(w, x), work[w].alone
      PROVE  \A a \in {"name", "mode", "length"} :
               work[w].req[a] = Keep => Stat(x)'[a] = Stat(x)[a]
  <2> USE TreeAssumption
  <2> DEFINE new == work[w].new
  <2>1. WriteStat(w) /\ work[w].node = x
    BY <1>1, OwnStep, Zenon DEF TreeInv, Answers
  <2>2. /\ new \in Stats
        /\ work[w].req.name = Keep => new.name = stat[x].name
        /\ work[w].req.mode = Keep => new.mode = stat[x].mode
        /\ work[w].req.length = Keep /\ x \notin Files => new.length = stat[x].length
    BY <1>1, <2>1, Zenon DEF TreeInv, WstatInv, WriteStat
  <2>3. /\ Stored(x, new) \in Stats
        /\ Stored(x, new).name = new.name /\ Stored(x, new).mode = new.mode
        /\ x \notin Files => Stored(x, new) = new
    BY <2>2, SMTT(30) DEF Stored, Stats, Length
  <2>4. stat'[x] = Stored(x, new) /\ size' = size
    BY <1>1, <2>1, Zenon DEF WriteStat, TreeInv, TypeOK
  <2>5. TypeOK /\ TypeOK'
    BY <1>1, TreeInductive, Zenon DEF TreeInv
  <2>6. /\ Stat(x).name = stat[x].name /\ Stat(x).mode = stat[x].mode
        /\ x \notin Files => Stat(x) = stat[x]
        /\ x \in Files => Stat(x).length = size[x]
    BY <2>5, StatType, Zenon DEF TypeOK
  <2>7. /\ Stat(x)'.name = stat'[x].name /\ Stat(x)'.mode = stat'[x].mode
        /\ x \notin Files => Stat(x)' = stat'[x]
        /\ x \in Files => Stat(x)'.length = size'[x]
    <3>1. stat' \in [Node -> Stats] /\ size' \in [Node -> Length]
      BY <2>5, Zenon DEF TypeOK
    <3> QED
      BY <3>1, Zenon DEF Stat, Stats
  <2>8. CASE x \in Files
    BY <2>2, <2>3, <2>4, <2>6, <2>7, <2>8, Zenon
  <2>9. CASE x \notin Files
    BY <2>2, <2>3, <2>4, <2>6, <2>7, <2>9, Zenon
  <2> QED
    BY <2>8, <2>9, Zenon
<1>2. TreeInv /\ [Next]_vars =>
        [\A w \in Workers, x \in Node : Answers(w, x) /\ work[w].alone =>
           \A a \in {"name", "mode", "length"} :
             work[w].req[a] = Keep => Stat(x)'[a] = Stat(x)[a]]_vars
  BY <1>1, Zenon
<1> QED
  BY <1>2, TreeInvariant, PTL DEF Spec, DontTouch
===============================================================================
