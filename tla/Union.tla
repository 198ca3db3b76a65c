--------------------------------- MODULE Union ---------------------------------
(***************************************************************************)
(* The union file system of union/union.go: a mount table at the root that *)
(* Mount, Bind and the Unmount operations change, and directories made on  *)
(* demand by Children, each with a copy of the table it was made from.     *)
(* Fids of the 9P server walk these directories while the table changes.   *)
(*                                                                         *)
(* A path is a sequence of names; a client (external: client.Client and    *)
(* the server behind it) is a tree of paths.  src is a history field: the  *)
(* client file a node was listed from.  A client is mounted at one place   *)
(* at a time, and the root itself is not bound: these are bounds.          *)
(***************************************************************************)
EXTENDS Integers, Sequences, SequencesExt, TLC

CONSTANTS
  Clients,      \* the 9P clients that can be mounted
  Fids,         \* the fids of the server of the union
  None,         \* nil
  Tree,         \* what each client serves: [path -> "dir" or "file"]
  MountPoints,  \* the old paths given to Mount and Bind
  BindPaths,    \* the paths given to Bind, none of them the root
  Options,      \* the MountOptions in use
  Creates,      \* the create flags in use
  NewNames,     \* names that CreateFile and CreateDir are called with
  MaxDepth,     \* bound on the length of the path of a created file
  MaxEntries,   \* bound on the length of the mount table
  MaxCalls      \* bound on the number of calls that change the mount table

ASSUME UnionAssumption ==
  /\ Options \subseteq {"REPLACE", "BEFORE", "AFTER"}
  /\ Creates \subseteq BOOLEAN
  /\ \A c \in Clients : <<>> \in DOMAIN Tree[c] /\ Tree[c][<<>>] = "dir"
  /\ <<>> \notin BindPaths
  /\ MaxDepth \in Nat /\ MaxEntries \in Nat /\ MaxCalls \in Nat

VARIABLES
  table,     \* root.mountTable
  content,   \* the files of each client
  node,      \* the node each fid stands for: "root", None or a union node
  base,      \* history: the root's table when the fid left the root
  handle,    \* the client file each open fid reads and writes
  made,      \* history: the last file created, where, and in which client
  given,     \* history: the clients passed to Mount and not returned since
  binding,   \* the Bind that has found its directory and waits for the lock
  calls,     \* the number of Mount, Bind and Unmount calls; identifies what a Bind binds
  panicked   \* has the process panicked?

vars == <<table, content, node, base, handle, made, given, binding, calls, panicked>>

NoMount == [id |-> None, c |-> None, d |-> None, mp |-> <<>>,
            replace |-> FALSE, create |-> FALSE]

-------------------------------------------------------------------------------
(* Lookup.                                                                  *)

Rel(mp, path) == SubSeq(path, Len(mp) + 1, Len(path))
Root(mt) == [dir |-> TRUE, path |-> <<>>, mount |-> NoMount, table |-> mt,
             parent |-> None, src |-> None]

\* What client.Readdir lists of the directory rel: the names under it.
Readdir(ct, c, rel) ==
  {p[Len(p)] : p \in {q \in DOMAIN ct[c] : Len(q) = Len(rel) + 1 /\ Front(q) = rel}}
IsDir(ct, c, rel) == rel \in DOMAIN ct[c] /\ ct[c][rel] = "dir"

\* Mutant of Listed: the subdirectories get the root's table of the moment.
ListedLive(ct, ud, me, rel) ==
  [n \in Readdir(ct, me.c, rel) |->
     LET p == Append(rel, n)
         d == ct[me.c][p] = "dir"
     IN  [dir |-> d, path |-> Append(ud.path, n), mount |-> me,
          table |-> IF d THEN table ELSE <<>>,
          parent |-> None, src |-> <<me.c, p>>]]

\* The nodes made for the directory rel of the client of me, seen at ud.path.
Listed(ct, ud, me, rel) ==
  [n \in Readdir(ct, me.c, rel) |->
     LET p == Append(rel, n)
         d == ct[me.c][p] = "dir"
     IN  [dir |-> d, path |-> Append(ud.path, n), mount |-> me,
          table |-> IF d THEN ud.table ELSE <<>>,
          parent |-> None, src |-> <<me.c, p>>]]

\* Mutant of Moved: the nodes keep the mount they were listed with.
MovedKeepsMount(ud, me, sub) ==
  [n \in DOMAIN sub |->
     [sub[n] EXCEPT !.path = Append(ud.path, n),
                    !.table = IF sub[n].dir THEN ud.table ELSE <<>>]]

\* The nodes of a bound directory, moved to ud.path.
Moved(ud, me, sub) ==
  [n \in DOMAIN sub |->
     [sub[n] EXCEPT !.path = Append(ud.path, n), !.mount = me,
                    !.table = IF sub[n].dir THEN ud.table ELSE <<>>]]

Current(ud, me) == ud.mount.id = me.id

RECURSIVE Children(_, _), FindDir(_, _, _), FindFile(_, _, _, _),
          OpenTarget(_, _), StatTarget(_, _)

\* What the mount table entry me adds to ud; None if it is passed over.
Offer(ct, ud, me) ==
  LET rel == Rel(me.mp, ud.path)
      on  == FindDir(ct, me.d, rel)
  IN  CASE ud.path # me.mp /\ ~Current(ud, me) -> None
        [] OTHER -> IF me.c # None
                    THEN IF IsDir(ct, me.c, rel) THEN Listed(ct, ud, me, rel) ELSE None
                    ELSE IF on # None THEN Moved(ud, me, Children(ct, on)) ELSE None

\* A later entry overwrites the names of an earlier one, and an entry that replaces
\* is the last.
Children(ct, ud) ==
  FoldLeft(LAMBDA all, me :
             LET offer == Offer(ct, ud, me)
             IN  IF all.done \/ offer = None THEN all
                 ELSE [names |-> offer @@ all.names, done |-> me.replace /\ ~Current(ud, me)],
           [names |-> <<>>, done |-> FALSE], ud.table).names

FindDir(ct, ud, rel) ==
  IF rel = <<>> THEN ud ELSE
  LET children == Children(ct, ud)
  IN  IF Head(rel) \in DOMAIN children /\ children[Head(rel)].dir
      THEN FindDir(ct, children[Head(rel)], Tail(rel))
      ELSE None

\* findFile stays in the directory when a name before the last is a file.
FindFile(ct, ud, rel, n) ==
  IF rel = <<>> THEN IF n = None \/ n.dir THEN None ELSE n ELSE
  LET children == Children(ct, ud)
      child    == children[Head(rel)]
  IN  IF Head(rel) \in DOMAIN children
      THEN FindFile(ct, IF child.dir THEN child ELSE ud, Tail(rel), child)
      ELSE None

\* The client file that unionFile.Open opens: nil if it is gone.
OpenTarget(ct, uf) ==
  LET rel == Rel(uf.mount.mp, uf.path)
      on  == FindFile(ct, uf.mount.d, rel, None)
  IN  IF uf.mount.c # None
      THEN IF rel \in DOMAIN ct[uf.mount.c] THEN <<uf.mount.c, rel>> ELSE None
      ELSE IF on # None THEN OpenTarget(ct, on) ELSE None

\* The client file whose Stat a node reports.
StatTarget(ct, n) ==
  IF n.mount.c # None THEN <<n.mount.c, Rel(n.mount.mp, n.path)>>
                      ELSE StatTarget(ct, n.mount.d)

\* Mutant of CreateMount: only the first member is asked.
CreateMountFirst(ud) ==
  LET hits == {i \in DOMAIN ud.table : i = 1 /\ ud.table[i].create /\ ud.table[i].mp = ud.path}
  IN  IF ud.mount.create \/ hits = {} THEN ud.mount ELSE ud.table[Min(hits)]

\* The mount that CreateFile and CreateDir create in.
CreateMount(ud) ==
  LET hits == {i \in DOMAIN ud.table :
                 /\ ud.table[i].create /\ ud.table[i].mp = ud.path
                 /\ \A j \in 1..(i - 1) : ~ud.table[j].replace}
  IN  IF ud.mount.create \/ hits = {} THEN ud.mount ELSE ud.table[Min(hits)]

-------------------------------------------------------------------------------
(* The mount table.                                                         *)

Init ==
  /\ table = <<>> /\ content = Tree
  /\ node = [f \in Fids |-> None] /\ base = [f \in Fids |-> <<>>]
  /\ handle = [f \in Fids |-> None] /\ made = None
  /\ given = {} /\ binding = None /\ calls = 0 /\ panicked = FALSE

\* The calls are numbered up to a bound.
Counted == calls < MaxCalls /\ calls' = calls + 1

Placed(entry, option) ==
  IF option = "AFTER" THEN Append(table, entry) ELSE <<entry>> \o table

Mount(c, old, option, create) ==
  /\ ~panicked /\ c \notin given /\ Len(table) < MaxEntries /\ Counted
  /\ table' = Placed([id |-> c, c |-> c, d |-> None, mp |-> old,
                      replace |-> option = "REPLACE", create |-> create], option)
  /\ given' = given \cup {c}
  /\ UNCHANGED <<content, node, base, handle, made, binding, panicked>>

\* Bind looks its directory up before it takes the lock of the root.
Bind(path, old, option, create) ==
  LET pathdir == FindDir(content, Root(table), path)
  IN  /\ ~panicked /\ binding = None /\ Counted /\ pathdir # None
      /\ binding' = [entry |-> [id |-> calls + 1, c |-> None, d |-> pathdir, mp |-> old,
                                replace |-> option = "REPLACE", create |-> create],
                     option |-> option]
      /\ UNCHANGED <<table, content, node, base, handle, made, given, panicked>>

PlaceBind ==
  /\ ~panicked /\ binding # None /\ Len(table) < MaxEntries
  /\ table' = Placed(binding.entry, binding.option)
  /\ binding' = None
  /\ UNCHANGED <<content, node, base, handle, made, given, calls, panicked>>

\* Mutant of UnmountPoint: only the first client is returned.
UnmountPointOne(old) ==
  LET gone == {i \in DOMAIN table : table[i].mp = old /\ table[i].c # None}
  IN  /\ ~panicked /\ Counted
      /\ table' = SelectSeq(table, LAMBDA me : me.mp # old)
      /\ given' = given \ {table[i].c : i \in {j \in gone : j = Min(gone)}}
      /\ UNCHANGED <<content, node, base, handle, made, binding, panicked>>

UnmountPoint(old) ==
  /\ ~panicked /\ Counted
  /\ table' = SelectSeq(table, LAMBDA me : me.mp # old)
  /\ given' = given \ {table[i].c : i \in {j \in DOMAIN table : table[j].mp = old}}
  /\ UNCHANGED <<content, node, base, handle, made, binding, panicked>>

UnmountClient(c, old) ==
  /\ ~panicked /\ Counted
  /\ table' = SelectSeq(table, LAMBDA me : me.mp # old \/ me.c # c)
  /\ given' = IF table' # table THEN given \ {c} ELSE given
  /\ UNCHANGED <<content, node, base, handle, made, binding, panicked>>

UnmountBind(path, old) ==
  /\ ~panicked /\ Counted
  /\ table' = SelectSeq(table, LAMBDA me : \/ me.mp # old \/ me.d = None
                                           \/ me.d.path # path)
  /\ UNCHANGED <<content, node, base, handle, made, given, binding, panicked>>

-------------------------------------------------------------------------------
(* The nodes, as the fids of a server use them.                             *)

At(f) == IF node[f].path = <<>> THEN Root(table) ELSE node[f]

\* The process ends, and its state with it; the clients' servers go on.
Panic ==
  /\ panicked' = TRUE
  /\ table' = <<>> /\ given' = {} /\ binding' = None /\ made' = None
  /\ node' = [g \in Fids |-> None] /\ base' = [g \in Fids |-> <<>>]
  /\ handle' = [g \in Fids |-> None]
  /\ UNCHANGED <<content, calls>>

Attach(f) ==
  /\ ~panicked /\ node[f] = None
  /\ node' = [node EXCEPT ![f] = Root(<<>>)]
  /\ UNCHANGED <<table, content, base, handle, made, given, binding, calls, panicked>>

Walk(f) ==
  LET children == Children(content, At(f))
  IN  /\ ~panicked /\ node[f] # None /\ handle[f] = None /\ node[f].dir
      /\ \E n \in DOMAIN children : node' = [node EXCEPT ![f] = children[n]]
      /\ base' = IF node[f].path = <<>> THEN [base EXCEPT ![f] = table] ELSE base
      /\ UNCHANGED <<table, content, handle, made, given, binding, calls, panicked>>

OpenFid(f) ==
  LET target == OpenTarget(content, node[f])
  IN  /\ ~panicked /\ node[f] # None /\ ~node[f].dir /\ handle[f] = None
      /\ target # None
      /\ handle' = [handle EXCEPT ![f] = target]
      /\ UNCHANGED <<table, content, node, base, made, given, binding, calls, panicked>>

CloseFid(f) ==
  /\ ~panicked /\ node[f] # None
  /\ handle' = [handle EXCEPT ![f] = None]
  /\ node' = [node EXCEPT ![f] = None] /\ base' = [base EXCEPT ![f] = <<>>]
  /\ UNCHANGED <<table, content, made, given, binding, calls, panicked>>

\* unionDir.CreateFile and CreateDir.  Through a bind, find gives nil for a
\* name that is not there and fails its type assertion for one that is.
Create(f, name, kind) ==
  LET ud   == At(f)
      mte  == CreateMount(ud)
      rel  == Rel(mte.mp, Append(ud.path, name))
      res  == CASE ~mte.create -> "denied"
                [] mte.create /\ mte.c # None ->
                     IF IsDir(content, mte.c, Front(rel)) /\ rel \notin DOMAIN content[mte.c]
                     THEN "made" ELSE "failed"
                [] OTHER -> IF Head(rel) \in DOMAIN Children(content, mte.d)
                            THEN "panic" ELSE "stale"
      new  == [dir |-> kind = "dir", path |-> Append(ud.path, name), mount |-> mte,
               table |-> IF kind = "dir" THEN ud.table ELSE <<>>,
               parent |-> None, src |-> <<mte.c, rel>>]
  IN  /\ ~panicked /\ node[f] # None /\ node[f].dir /\ handle[f] = None
      /\ Len(ud.path) < MaxDepth
      /\ \/ res = "panic" /\ Panic
         \/ /\ res # "panic"
            /\ made' = [res |-> res, dir |-> ud, name |-> name, src |-> <<mte.c, rel>>,
                        fresh |-> name \notin DOMAIN Children(content, ud)]
            /\ IF res = "made"
               THEN /\ content' = [content EXCEPT ![mte.c] = (rel :> kind) @@ @]
                    /\ node' = [node EXCEPT ![f] = new]
                    /\ base' = IF ud.path = <<>> THEN [base EXCEPT ![f] = table] ELSE base
               ELSE UNCHANGED <<content, node, base>>
            /\ UNCHANGED <<table, handle, given, binding, calls, panicked>>

\* Neither Children nor the Create operations set a parent: Parent returns a
\* nil *unionDir, which removeUnionFile and a walk to ".." use.
UseParent(f) ==
  /\ ~panicked /\ node[f] # None
  /\ node[f].parent = None
  /\ Panic

Next ==
  \/ \E old \in MountPoints, option \in Options, create \in Creates :
       \/ \E c \in Clients : Mount(c, old, option, create)
       \/ \E path \in BindPaths : Bind(path, old, option, create)
  \/ PlaceBind
  \/ \E old \in MountPoints :
       \/ UnmountPoint(old)
       \/ \E c \in Clients : UnmountClient(c, old)
       \/ \E path \in BindPaths : UnmountBind(path, old)
  \/ \E f \in Fids :
       \/ Attach(f) \/ Walk(f) \/ OpenFid(f) \/ CloseFid(f) \/ UseParent(f)
       \/ \E n \in NewNames, kind \in {"dir", "file"} : Create(f, n, kind)

Spec == Init /\ [][Next]_vars

-------------------------------------------------------------------------------
(* Properties.                                                              *)

\* The table stays within its bound, only nodes that are files have an open
\* client file, and every directory below the root has a table to list from.
TypeOK ==
  /\ Len(table) <= MaxEntries /\ given \subseteq Clients /\ panicked \in BOOLEAN
  /\ \A f \in Fids : handle[f] # None => node[f] # None /\ ~node[f].dir
  /\ \A f \in Fids : node[f] # None /\ node[f].dir /\ node[f].path # <<>>
                       => node[f].table # <<>>

\* Whatever Mount, Bind and the Unmount operations do while a fid walks down
\* one name at a time, the node it reaches is the one a single lookup finds in
\* the mount table that was in force when the fid left the root: Children
\* hands its copy of the table on to the directories it makes.
WalkSeesOneTable ==
  \A f \in Fids : node[f] # None /\ node[f].path # <<>> /\ made = None =>
    node[f] = IF node[f].dir
              THEN FindDir(content, Root(base[f]), node[f].path)
              ELSE FindFile(content, Root(base[f]), node[f].path, None)

\* Open opens the client file that Children listed under the name, through any
\* number of binds: the relative path is taken from the mount point of each.
OpenedAsListed ==
  \A f \in Fids : handle[f] # None => handle[f] = node[f].src

\* A client passed to Mount is in the mount table until an UnmountClient names
\* it or an UnmountPoint returns it: no client is dropped without a trace.
ClientsAccounted == {me.c : me \in Range(table)} \ {None} = given

\* The table of the directory that the last creation was asked of has no binds, and
\* no other mount point than that directory's.
OnePoint == \A x, y \in Range(made.dir.table) : x.d = None /\ x.mp = y.mp

\* When all mounts are at one mount point: a file that CreateFile or CreateDir
\* made under a name its directory did not list is the one the directory lists
\* under that name from then on, and a creation is denied only where no mount
\* with the create flag is at the path, or one that replaces it comes before.
CreateHonoured ==
  made # None /\ OnePoint =>
    LET mt       == made.dir.table
        children == Children(content, made.dir)
    IN  /\ made.res = "made" /\ made.fresh =>
             made.name \in DOMAIN children /\ children[made.name].src = made.src
        /\ made.res = "denied" =>
             \A i \in DOMAIN mt : mt[i].create /\ mt[i].mp = made.dir.path =>
               \E j \in 1..(i - 1) : mt[j].replace /\ mt[j].mp = made.dir.path

-------------------------------------------------------------------------------
(* Statements that the code does not keep.                                  *)

\* The two halves of CreateHonoured whatever is mounted elsewhere.
CreatedVisibleAlways ==
  made # None /\ made.res = "made" /\ made.fresh =>
    made.name \in DOMAIN Children(content, made.dir)
CreateHonouredAlways ==
  made # None /\ made.res = "denied" =>
    LET mt == made.dir.table
    IN  \A i \in DOMAIN mt : mt[i].create /\ mt[i].mp = made.dir.path =>
          \E j \in 1..(i - 1) : mt[j].replace /\ mt[j].mp = made.dir.path

\* A creation in a directory bound with the create flag is made.
BindCreates == made # None => made.res # "stale"

\* Removing a file or walking to the parent does not panic.
NoPanic == ~panicked

\* The Stat of a node is that of the client file it was listed from.
StatIsOwn ==
  \A f \in Fids : node[f] # None /\ node[f].path # <<>> =>
    StatTarget(content, node[f]) = node[f].src

\* Of two members that offer a name, the one nearer to the beginning of the
\* union gives it.
FirstWins ==
  LET root     == Root(table)
      children == Children(content, root)
  IN  \A n \in DOMAIN children, i \in DOMAIN table :
        /\ table[i].mp = <<>> /\ table[i].c # None
        /\ n \in Readdir(content, table[i].c, <<>>)
        => \E j \in 1..i : children[n].mount.id = table[j].id
===============================================================================
