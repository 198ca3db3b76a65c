---------------------------------- MODULE Tree ----------------------------------
(***************************************************************************)
(* The tree of StaticDirs and StaticFiles (fs/static.go, fs/filesystem.go) *)
(* and the handlers Create, Remove and Wstat of fs/server.go that change   *)
(* it, run by concurrent workers.  A method of a node holds the node's     *)
(* lock and is one step; a handler calls several, so that other workers    *)
(* get in between.  A handler may be given any node that was ever made:    *)
(* fids keep nodes that have left the tree.                                *)
(***************************************************************************)
EXTENDS Integers, FiniteSets

CONSTANTS
  Workers,      \* the goroutines that handle requests
  Root,         \* FS.Root
  Dirs, Files,  \* the other nodes that may be made
  Names,        \* the names they may have
  Perms,        \* permission bits
  MaxLen,       \* bound on the length of a file
  Keep,         \* the "don't touch" value of Twstat
  None,         \* nil
  Attrs         \* the attributes the client changes with Twstat

ASSUME TreeAssumption ==
  /\ Root \notin Dirs \cup Files /\ Dirs \cap Files = {}
  /\ None \notin Dirs \cup Files \cup {Root}
  /\ MaxLen \in Nat /\ Keep \notin Names \cup Perms \cup Int
  /\ Attrs \subseteq {"name", "mode", "length"}

Node == Dirs \cup Files \cup {Root}
Length == 0..MaxLen
Stats == [name : Names, mode : Perms, length : Length]

\* What a Twstat asks for.
Requests == [name   : {Keep} \cup (IF "name" \in Attrs THEN Names ELSE {}),
             mode   : {Keep} \cup (IF "mode" \in Attrs THEN Perms ELSE {}),
             length : {Keep} \cup (IF "length" \in Attrs THEN Length ELSE {})]
NoRequest == [name |-> Keep, mode |-> Keep, length |-> Keep]

VARIABLES
  made,     \* the nodes made so far, with the root
  kids,     \* StaticDir.children
  parent,   \* StaticDir.parent, BaseFile.parent
  stat,     \* StaticDir.dStat, BaseFile.fStat
  size,     \* len(StaticFile.Data)
  work,     \* what each worker is doing; alone is a history: has no other worker
            \* changed or removed the node meanwhile?
  renamed   \* history: the nodes that a Wstat has given a name

vars == <<made, kids, parent, stat, size, work, renamed>>

Idle == [pc |-> "idle", node |-> None, dir |-> None, name |-> None,
         req |-> NoRequest, new |-> None, alone |-> TRUE]

Init ==
  /\ made = {Root}
  /\ kids = [d \in Dirs \cup {Root} |-> {}]
  /\ parent = [x \in Node |-> None]
  /\ stat \in [Node -> {s \in Stats : s.length = 0}]
  /\ \A x, y \in Node : stat[x] = stat[y]   \* of no meaning before a node is made
  /\ size = [x \in Node |-> 0]
  /\ work = [w \in Workers |-> Idle]
  /\ renamed = {}

\* Stat of a StaticFile takes the length from the data.  The one it overwrites is
\* never read, and is 0 in the model.
Stored(x, s) == IF x \in Files THEN [s EXCEPT !.length = 0] ELSE s
Stat(x) == IF x \in Files THEN [stat[x] EXCEPT !.length = size[x]] ELSE stat[x]

Begin(w, x) == work[w] = Idle /\ x \in made

\* The handler of w ends with a change of the nodes in xs.
EndChanging(w, xs) ==
  work' = [v \in Workers |-> IF v = w THEN Idle
                             ELSE [work[v] EXCEPT !.alone = @ /\ work[v].node \notin xs]]

-------------------------------------------------------------------------------
(* Create: CreateStaticFile and CreateStaticDir make a node with the given  *)
(* name; AddChild refuses a name the directory has.                         *)

AddChild(d, x) ==
  /\ \A c \in kids[d] : Stat(c).name # stat'[x].name
  /\ kids' = [kids EXCEPT ![d] = @ \cup {x}]
  /\ parent' = [parent EXCEPT ![x] = d]

Create(d, x, nm, m) ==
  /\ d \in made \ Files
  /\ x \notin made
  /\ made' = made \cup {x}
  /\ stat' = [stat EXCEPT ![x] = [name |-> nm, mode |-> m, length |-> 0]]
  /\ AddChild(d, x)
  /\ UNCHANGED <<size, work, renamed>>

-------------------------------------------------------------------------------
(* Remove: RMFile asks the node for its parent, then for its name, then     *)
(* tells the parent to delete the children of that name.                    *)

StartRemove(w, x) ==
  /\ Begin(w, x)
  /\ parent[x] # None
  /\ work' = [work EXCEPT ![w] = [Idle EXCEPT !.pc = "name", !.node = x, !.dir = parent[x]]]
  /\ UNCHANGED <<made, kids, parent, stat, size, renamed>>

RemoveName(w) ==
  /\ work[w].pc = "name"
  /\ work' = [work EXCEPT ![w].pc = "delete", ![w].name = Stat(work[w].node).name]
  /\ UNCHANGED <<made, kids, parent, stat, size, renamed>>

Named(d, nm) == {c \in kids[d] : Stat(c).name = nm}

\* Mutant of DeleteChild: the child keeps its parent.
DeleteChildKeepsParent(w) ==
  LET d == work[w].dir
  IN /\ work[w].pc = "delete"
     /\ kids' = [kids EXCEPT ![d] = @ \ Named(d, work[w].name)]
     /\ EndChanging(w, Named(d, work[w].name))
     /\ UNCHANGED <<made, parent, stat, size, renamed>>

\* Mutant of DeleteChild: the comparison of names is inverted.
DeleteChildInverted(w) ==
  LET d    == work[w].dir
      gone == kids[d] \ Named(d, work[w].name)
  IN /\ work[w].pc = "delete"
     /\ kids' = [kids EXCEPT ![d] = @ \ gone]
     /\ parent' = [x \in Node |-> IF x \in gone THEN None ELSE parent[x]]
     /\ EndChanging(w, gone)
     /\ UNCHANGED <<made, stat, size, renamed>>

DeleteChild(w) ==
  LET d    == work[w].dir
      gone == Named(d, work[w].name)
  IN /\ work[w].pc = "delete"
     /\ kids' = [kids EXCEPT ![d] = @ \ gone]
     /\ parent' = [x \in Node |-> IF x \in gone THEN None ELSE parent[x]]
     /\ EndChanging(w, gone)
     /\ UNCHANGED <<made, stat, size, renamed>>

-------------------------------------------------------------------------------
(* Wstat: read the whole stat, change what was asked for, write it back.    *)

\* Mutant of Changed: the "don't touch" values are not recognised.
ChangedBlindly(s, req) == req

Changed(s, req) ==
  [name   |-> IF req.name = Keep THEN s.name ELSE req.name,
   mode   |-> IF req.mode = Keep THEN s.mode ELSE req.mode,
   length |-> IF req.length = Keep THEN s.length ELSE req.length]

StartWstat(w, x, req) ==
  /\ Begin(w, x)
  /\ work' = [work EXCEPT ![w] = [Idle EXCEPT !.pc = "write", !.node = x, !.req = req,
                                              !.new = Changed(Stat(x), req)]]
  /\ UNCHANGED <<made, kids, parent, stat, size, renamed>>

WriteStat(w) ==
  /\ work[w].pc = "write"
  /\ stat' = [stat EXCEPT ![work[w].node] = Stored(work[w].node, work[w].new)]
  /\ renamed' = IF work[w].req.name = Keep THEN renamed ELSE renamed \cup {work[w].node}
  /\ EndChanging(w, {work[w].node})
  /\ UNCHANGED <<made, kids, parent, size>>

-------------------------------------------------------------------------------
(* StaticFile: Write past the end makes it longer, Open with Otrunc empties *)
(* it.                                                                      *)

Write(x, end) ==
  /\ x \in made \cap Files
  /\ end > size[x]
  /\ size' = [size EXCEPT ![x] = end]
  /\ UNCHANGED <<made, kids, parent, stat, work, renamed>>

OpenTrunc(x) ==
  /\ x \in made \cap Files
  /\ size' = [size EXCEPT ![x] = 0]
  /\ UNCHANGED <<made, kids, parent, stat, work, renamed>>

-------------------------------------------------------------------------------
Next ==
  \/ \E d \in Dirs \cup {Root}, x \in Dirs \cup Files, nm \in Names, m \in Perms :
       Create(d, x, nm, m)
  \/ \E w \in Workers :
       \/ \E x \in Node : StartRemove(w, x) \/ \E req \in Requests : StartWstat(w, x, req)
       \/ RemoveName(w) \/ DeleteChild(w) \/ WriteStat(w)
  \/ \E x \in Files : (\E n \in Length : Write(x, n)) \/ OpenTrunc(x)

Spec == Init /\ [][Next]_vars

-------------------------------------------------------------------------------
(* Properties                                                               *)

\* The types of the nodes' fields and of the handlers' variables.
TypeOK ==
  /\ made \subseteq Node /\ Root \in made
  /\ kids \in [Dirs \cup {Root} -> SUBSET (Dirs \cup Files)]
  /\ parent \in [Node -> Dirs \cup {Root, None}]
  /\ stat \in [Node -> Stats]
  /\ size \in [Node -> Length]
  /\ work \in [Workers -> [pc : {"idle", "name", "delete", "write"}, node : Node \cup {None},
                           dir : Dirs \cup {Root, None}, name : Names \cup {None},
                           req : Requests, new : Stats \cup {None}, alone : BOOLEAN]]
  /\ renamed \subseteq made

\* The two directions of the tree agree: a node is among the children of a
\* directory exactly when that directory is its parent.  AddChild and DeleteChild
\* keep this however the handlers interleave; Remove relies on it.
ParentChild ==
  \A d \in Dirs \cup {Root}, x \in Node : x \in kids[d] <=> parent[x] = d

\* A name leads to one child of a directory: AddChild refuses names that exist,
\* whatever is removed and created meanwhile.  Only a rename gives a node the name
\* of its sibling.
UniqueNames ==
  \A d \in Dirs \cup {Root} : \A x, y \in kids[d] \ renamed :
    stat[x].name = stat[y].name => x = y

\* The nodes that leave the tree in the last step of the Remove of w.
Leaving(w) ==
  {x \in Node : work[w].pc = "delete" /\ work'[w] = Idle /\ parent'[x] # parent[x]}

\* RemoveFile, "if successful, should remove the FSNode from its parent Dir"
\* (comment on WithRemoveFile), although it goes by the name: when no other handler
\* changed or removed the node since the Remove began, it leaves the tree and takes
\* no other with it, except one that a rename has given the same name.
RemoveExact ==
  [][\A w \in Workers : work[w].pc = "delete" /\ work'[w] = Idle /\ work[w].alone =>
       /\ work[w].node \in Leaving(w)
       /\ \A x \in Leaving(w) \ {work[w].node} : {x, work[w].node} \cap renamed # {}]_vars

\* The step that answers the Twstat on x.
Answers(w, x) == work[w].pc = "write" /\ work[w].node = x /\ work'[w] = Idle

\* "A wstat request can avoid modifying some properties of the file" (comment on
\* Wstat): it leaves an attribute it does not name as it is, even if the file is
\* written, truncated or removed meanwhile; only another Wstat is undone.
DontTouch ==
  [][\A w \in Workers, x \in Node : Answers(w, x) /\ work[w].alone =>
       \A a \in {"name", "mode", "length"} :
         work[w].req[a] = Keep => Stat(x)'[a] = Stat(x)[a]]_vars

-------------------------------------------------------------------------------
(* Statements of comments that the code does not keep.                      *)

\* Remove does not remove another node than its own.
RemoveSparesOthers ==
  [][\A w \in Workers : Leaving(w) \subseteq {work[w].node}]_vars

\* "The length can be changed (affecting the actual length of the file)" (comment
\* on Wstat): after a Twstat of the length the file has that length.
LengthChanged ==
  [][\A w \in Workers, x \in Files : Answers(w, x) =>
       work[w].req.length \in {Keep, Stat(x)'.length}]_vars
===============================================================================
