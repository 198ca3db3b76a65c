---------------------------------- MODULE Fids ----------------------------------
(***************************************************************************)
(* The fid table of one connection and the handlers of fs/server.go that   *)
(* use it, run by concurrent workers.  The table is a sync.Map from fids   *)
(* to pointers to fidInfo; a handler loads the pointer once and goes on    *)
(* using it, whatever happens to the table meanwhile.  Each operation on   *)
(* the table and each call of a method of a File is one step.              *)
(*                                                                         *)
(* Every File keeps the descriptors that were opened on it and not closed. *)
(* The names and the shape of the tree are the subject of Tree; here a     *)
(* walk ends at any existing node and a permission check may fail.  A      *)
(* request on an unknown fid is answered with Rerror and changes nothing,  *)
(* so that it needs no step.                                               *)
(***************************************************************************)
EXTENDS Integers, FiniteSets

CONSTANTS
  Workers,         \* the goroutines that handle requests
  Fid,             \* the fids the client uses
  Root,            \* the root directory
  Dirs, Files,     \* the other directories and the files that may come to exist
  AuthFile,        \* the stream file behind an afid
  Modes,           \* the open modes the client uses
  None,            \* "no entry"
  Ops,             \* the requests the client sends
  AuthRequired,    \* is FS.authFunc set?
  Pipelined,       \* may the client send requests on a fid that has one pending,
                   \* and walk to a fid that is in use?
  MaxAuths         \* bound on the authentications in progress

AllOps == {"walk", "open", "create", "read", "write", "clunk", "remove"}

ASSUME FidsAssumption ==
  /\ IsFiniteSet(Workers) /\ IsFiniteSet(Fid) /\ MaxAuths \in Nat
  /\ Root \notin Dirs \cup Files /\ AuthFile \notin Dirs \cup Files \cup {Root}
  /\ Dirs \cap Files = {}
  /\ Modes \subseteq {"Oread", "Owrite", "Ordwr", "Oexec"} /\ Ops \subseteq AllOps
  /\ None \notin Fid \cup Dirs \cup Files \cup {Root, AuthFile} \cup Int
  /\ Fid \cap Int = {}
  /\ {AuthRequired, Pipelined} \subseteq BOOLEAN

Node == Dirs \cup Files \cup {Root, AuthFile}
IsDir(n) == n \in Dirs \cup {Root}
Readable == {"Oread", "Ordwr", "Oexec"}
Writable == {"Owrite", "Ordwr"}

\* The addresses of fidInfos: one for each fid, and one more spare address than
\* the table, the handlers and the running authFuncs can use between them.
Info == Fid \cup 1..(Cardinality(Fid) + Cardinality(Workers) + MaxAuths + 1)

VARIABLES
  fids,     \* conn.fids
  info,     \* the fidInfo values: node, open mode, user, extra
  exists,   \* the nodes of the tree, without the root
  handles,  \* the descriptors <<node, fid>> Files consider open
  work,     \* what each worker is doing
  authing,  \* the fidInfos whose authFunc is running
  authed,   \* has authFunc accepted a user on this connection?
  misuse,   \* history: the calls that broke the contract of File
  apart,    \* history: the descriptors about which a refused Open in Create or a
            \* Remove of an open fid has left the File and the table apart
  panic     \* what the process has panicked on

vars == <<fids, info, exists, handles, work, authing, authed, misuse, apart, panic>>

Idle   == [pc |-> "idle", fid |-> None, newfid |-> None, mode |-> "none",
           info |-> None, node |-> None]
NoInfo == [n |-> None, mode |-> "none", uname |-> FALSE, extra |-> "none"]

Init ==
  /\ fids = [f \in Fid |-> None]
  /\ info = [i \in Info |-> NoInfo]
  /\ exists \in SUBSET (Dirs \cup Files)
  /\ handles = {}
  /\ work = [w \in Workers |-> Idle]
  /\ authing = {}
  /\ authed = FALSE
  /\ misuse = {} /\ apart = {}
  /\ panic = "none"

-------------------------------------------------------------------------------
(* Memory and calls of Files.                                               *)

\* The fidInfos something points to; the others are free.
Live == {fids[f] : f \in Fid} \cup {work[w].info : w \in Workers} \cup authing
New(f) == IF f \in Live THEN CHOOSE i \in Info : i \notin Live \cup Fid ELSE f

\* A fidInfo nothing points to after the step is forgotten.
Collected(infos) ==
  LET live == {fids'[f] : f \in Fid} \cup {work'[w].info : w \in Workers} \cup authing'
  IN [i \in Info |-> IF i \in live THEN infos[i] ELSE NoInfo]

newFidInfo(n, mode, uname) == [n |-> n, mode |-> mode, uname |-> uname, extra |-> "none"]

\* Store a new fidInfo x under f.
Store(f, x) ==
  /\ fids' = [fids EXCEPT ![f] = New(f)]
  /\ info' = Collected([info EXCEPT ![New(f)] = x])

\* Calls of the methods of a File, which keeps its own list of descriptors.
FileOpen(n, f) ==
  /\ handles' = handles \cup {<<n, f>>}
  /\ misuse' = IF <<n, f>> \in handles \ apart THEN misuse \cup {"Open"} ELSE misuse
  /\ apart' = apart \ {<<n, f>>}
FileUse(n, f, method) ==
  /\ handles' = IF method = "Close" THEN handles \ {<<n, f>>} ELSE handles
  /\ misuse' = IF <<n, f>> \in handles \cup apart THEN misuse ELSE misuse \cup {method}
  /\ apart' = IF method = "Close" THEN apart \ {<<n, f>>} ELSE apart

Running == panic = "none"
Busy(f) == \E w \in Workers : f \in {work[w].fid, work[w].newfid}

\* A worker takes a request op on the fid f and loads its fidInfo.
Begin(w, op, f) ==
  /\ Running /\ work[w] = Idle
  /\ op \in Ops
  /\ fids[f] # None
  /\ Pipelined \/ ~Busy(f)
Go(w, f, job) == work' = [work EXCEPT ![w] = [job EXCEPT !.fid = f, !.info = fids[f]]]

\* The handler of w goes on at pc, or replies.
At(w, pc) == Running /\ work[w].pc = pc
GoOn(w, pc) == work' = [work EXCEPT ![w].pc = pc]
Reply(w) == work' = [work EXCEPT ![w] = Idle]

-------------------------------------------------------------------------------
(* Auth and Attach.                                                         *)

\* Auth opens the stream file, stores it and starts authFunc, all before its
\* reply; the client cannot use the afid meanwhile.
Auth(f) ==
  /\ AuthRequired /\ Running /\ Cardinality(authing) < MaxAuths
  /\ fids[f] = None /\ ~Busy(f)
  /\ FileOpen(AuthFile, f)
  /\ UNCHANGED <<exists, work, authed, panic>>
  /\ authing' = authing \cup {New(f)}
  /\ Store(f, newFidInfo(AuthFile, "Ordwr", FALSE))

\* The goroutine of Auth: authFunc returns a user name or an error.
AuthDone(i) ==
  /\ Running /\ i \in authing
  /\ authing' = authing \ {i}
  /\ UNCHANGED <<fids, exists, handles, work, misuse, apart, panic>>
  /\ \E e \in {"user", "error"} :
       /\ info' = Collected([info EXCEPT ![i].extra = e])
       /\ authed' = (authed \/ e = "user")

\* Mutant of Attach: any afid whose authFunc has not failed will do.
AttachPending(f, afid) ==
  /\ Running
  /\ Pipelined \/ (fids[f] = None /\ ~Busy(f))
  /\ AuthRequired => fids[afid] # None /\ info[fids[afid]].extra # "error"
  /\ UNCHANGED <<exists, handles, work, authing, authed, misuse, apart, panic>>
  /\ Store(f, newFidInfo(Root, "none", TRUE))

\* With authentication, Attach wants an afid whose extra is a user name.
Attach(f, afid) ==
  /\ Running
  /\ Pipelined \/ (fids[f] = None /\ ~Busy(f))
  /\ AuthRequired => fids[afid] # None /\ info[fids[afid]].extra = "user"
  /\ UNCHANGED <<exists, handles, work, authing, authed, misuse, apart, panic>>
  /\ Store(f, newFidInfo(Root, "none", TRUE))

-------------------------------------------------------------------------------
(* Walk.                                                                    *)

StartWalk(w, f, newfid) ==
  /\ Begin(w, "walk", f)
  /\ Go(w, f, [Idle EXCEPT !.pc = "walk", !.newfid = newfid])
  /\ Pipelined \/ (fids[newfid] = None /\ ~Busy(newfid))
  /\ UNCHANGED <<fids, info, exists, handles, authing, authed, misuse, apart, panic>>

\* From a directory to what it contains, from any node to itself (no names, or
\* ".") or to its parent (".."); the new fid has the user of the old one.
Walk(w, n) ==
  LET x == info[work[w].info] IN
  /\ At(w, "walk")
  /\ \/ n = x.n
     \/ IsDir(x.n) /\ n \in exists
     \/ x.n \in exists /\ n \in exists \cup {Root} /\ IsDir(n)
  /\ Reply(w)
  /\ UNCHANGED <<exists, handles, authing, authed, misuse, apart, panic>>
  /\ Store(work[w].newfid, newFidInfo(n, "none", x.uname))

-------------------------------------------------------------------------------
(* Open and Create.                                                         *)

\* Mutant of StartOpen: "Fid already open." is not checked.
StartOpenAgain(w, f, m) ==
  /\ Begin(w, "open", f)
  /\ Go(w, f, [Idle EXCEPT !.pc = "open", !.mode = m])
  /\ UNCHANGED <<fids, info, exists, handles, authing, authed, misuse, apart, panic>>

StartOpen(w, f, m) ==
  /\ Begin(w, "open", f)
  /\ Go(w, f, [Idle EXCEPT !.pc = "open", !.mode = m])
  /\ info[fids[f]].mode = "none"
  /\ UNCHANGED <<fids, info, exists, handles, authing, authed, misuse, apart, panic>>

\* Mutant of OpenNode: the children of a directory are not remembered.
OpenNodeForgetful(w) ==
  LET i == work[w].info IN
  /\ At(w, "open")
  /\ IF IsDir(info[i].n)
     THEN work[w].mode \notin Writable /\ UNCHANGED <<handles, misuse, apart>>
     ELSE FileOpen(info[i].n, work[w].fid)
  /\ GoOn(w, "setMode")
  /\ UNCHANGED <<fids, info, exists, authing, authed, panic>>

\* A directory remembers its children in extra; a File is opened.
OpenNode(w) ==
  LET i == work[w].info IN
  /\ At(w, "open")
  /\ IF IsDir(info[i].n)
     THEN /\ work[w].mode \notin Writable
          /\ info' = [info EXCEPT ![i].extra = "children"]
          /\ UNCHANGED <<handles, misuse, apart>>
     ELSE FileOpen(info[i].n, work[w].fid) /\ UNCHANGED info
  /\ GoOn(w, "setMode")
  /\ UNCHANGED <<fids, exists, authing, authed, panic>>

OpenSetMode(w) ==
  LET i == work[w].info IN
  /\ At(w, "setMode")
  /\ Reply(w)
  /\ UNCHANGED <<fids, exists, handles, authing, authed, misuse, apart, panic>>
  /\ info' = Collected([info EXCEPT ![i].mode = work[w].mode])

StartCreate(w, f, m) ==
  /\ Begin(w, "create", f)
  /\ Go(w, f, [Idle EXCEPT !.pc = "create", !.mode = m])
  /\ IsDir(info[fids[f]].n)
  /\ UNCHANGED <<fids, info, exists, handles, authing, authed, misuse, apart, panic>>

\* FS.CreateFile or FS.CreateDir makes a node and adds it to the directory.
CreateNode(w, n) ==
  /\ At(w, "create")
  /\ n \in (Dirs \cup Files) \ exists
  /\ \A i \in Info : info[i].n # n
  /\ exists' = exists \cup {n}
  /\ work' = [work EXCEPT ![w].pc = "store", ![w].node = n]
  /\ UNCHANGED <<fids, info, handles, authing, authed, misuse, apart, panic>>

\* nil, nil: the nil node is stored and asked for its Stat.
CreateNil(w) ==
  /\ At(w, "create")
  /\ panic' = "nil node"
  /\ UNCHANGED <<fids, info, exists, handles, work, authing, authed, misuse, apart>>

\* The fid now stands for the new node, open, before File.Open is called.  It has
\* no extra: "created" is a nil that tells where it comes from.
CreateStore(w) ==
  LET n == work[w].node IN
  /\ At(w, "store")
  /\ IF IsDir(n) THEN Reply(w) ELSE GoOn(w, "createOpen")
  /\ UNCHANGED <<exists, handles, authing, authed, misuse, apart, panic>>
  /\ LET x == newFidInfo(n, work[w].mode, info[work[w].info].uname)
     IN  Store(work[w].fid, [x EXCEPT !.extra = IF IsDir(n) THEN "created" ELSE @])

CreateOpen(w) ==
  /\ At(w, "createOpen")
  /\ Reply(w)
  /\ \/ FileOpen(work[w].node, work[w].fid)
     \/ /\ apart' = apart \cup {<<work[w].node, work[w].fid>>}
        /\ UNCHANGED <<handles, misuse>>
  /\ UNCHANGED <<fids, exists, authing, authed, panic>>
  /\ info' = Collected(info)

-------------------------------------------------------------------------------
(* Read and Write.                                                          *)

\* readDir wants the children Open has put in extra; without them its type
\* assertion panics.
ReadDir(w, f) ==
  LET x == info[fids[f]] IN
  /\ Begin(w, "read", f)
  /\ x.mode \in Readable /\ IsDir(x.n)
  /\ panic' = CASE x.extra = "children" -> "none"
                [] x.extra = "created"  -> "created directory"
                [] OTHER                -> "no list"
  /\ UNCHANGED <<fids, info, exists, handles, work, authing, authed, misuse, apart>>

\* The mode is checked, then the File's method is called.
StartIO(w, op, f) ==
  LET x == info[fids[f]] IN
  /\ op \in {"read", "write"}
  /\ Begin(w, op, f)
  /\ Go(w, f, [Idle EXCEPT !.pc = op])
  /\ x.mode \in (IF op = "read" THEN Readable ELSE Writable) /\ ~IsDir(x.n)
  /\ UNCHANGED <<fids, info, exists, handles, authing, authed, misuse, apart, panic>>

IO(w) ==
  /\ At(w, "read") \/ At(w, "write")
  /\ FileUse(info[work[w].info].n, work[w].fid, work[w].pc)
  /\ Reply(w)
  /\ UNCHANGED <<fids, exists, authing, authed, panic>>
  /\ info' = Collected(info)

-------------------------------------------------------------------------------
(* Clunk and Remove.                                                        *)

StartClunk(w, f) ==
  /\ Begin(w, "clunk", f)
  /\ Go(w, f, [Idle EXCEPT !.pc = "clunk"])
  /\ UNCHANGED <<fids, info, exists, handles, authing, authed, misuse, apart, panic>>

\* Mutant of ClunkDelete: the open file is not closed.
ClunkDeleteOnly(w) ==
  /\ At(w, "clunk")
  /\ fids' = [fids EXCEPT ![work[w].fid] = None]
  /\ Reply(w)
  /\ UNCHANGED <<exists, handles, authing, authed, misuse, apart, panic>>
  /\ info' = Collected(info)

\* An open file is closed after its fid has left the table.
ClunkDelete(w) ==
  LET x == info[work[w].info] IN
  /\ At(w, "clunk")
  /\ fids' = [fids EXCEPT ![work[w].fid] = None]
  /\ IF x.mode # "none" /\ ~IsDir(x.n) THEN GoOn(w, "close") ELSE Reply(w)
  /\ UNCHANGED <<exists, handles, authing, authed, misuse, apart, panic>>
  /\ info' = Collected(info)

ClunkClose(w) ==
  /\ At(w, "close")
  /\ FileUse(info[work[w].info].n, work[w].fid, "Close")
  /\ Reply(w)
  /\ UNCHANGED <<fids, exists, authing, authed, panic>>
  /\ info' = Collected(info)

StartRemove(w, f) ==
  /\ Begin(w, "remove", f)
  /\ Go(w, f, [Idle EXCEPT !.pc = "remove"])
  /\ UNCHANGED <<fids, info, exists, handles, authing, authed, misuse, apart, panic>>

\* The fid goes whatever follows; an open file is not closed.
RemoveDelete(w) ==
  /\ At(w, "remove")
  /\ fids' = [fids EXCEPT ![work[w].fid] = None]
  /\ apart' = apart \cup (handles \cap {<<info[work[w].info].n, work[w].fid>>})
  /\ GoOn(w, "removeFile")
  /\ UNCHANGED <<exists, handles, authing, authed, misuse, panic>>
  /\ info' = Collected(info)

\* FS.RemoveFile takes the node out of the tree; the root has no parent.
RemoveFile(w) ==
  /\ At(w, "removeFile")
  /\ exists' = exists \ {info[work[w].info].n}
  /\ Reply(w)
  /\ UNCHANGED <<fids, handles, authing, authed, misuse, apart, panic>>
  /\ info' = Collected(info)

-------------------------------------------------------------------------------
\* A path that does not exist, a missing permission or an error of a File or of
\* a function of FS: Rerror, and nothing has been changed.
Refuse(w) ==
  /\ \E pc \in {"walk", "open", "create", "removeFile"} : At(w, pc)
  /\ Reply(w)
  /\ UNCHANGED <<fids, exists, handles, authing, authed, misuse, apart, panic>>
  /\ info' = Collected(info)

Start(w, f) ==
  \/ \E g \in Fid : StartWalk(w, f, g)
  \/ \E m \in Modes : StartOpen(w, f, m) \/ StartCreate(w, f, m)
  \/ ReadDir(w, f) \/ \E op \in Ops : StartIO(w, op, f)
  \/ StartClunk(w, f) \/ StartRemove(w, f)

Continue(w) ==
  \/ \E n \in Node : Walk(w, n) \/ CreateNode(w, n)
  \/ OpenNode(w) \/ OpenSetMode(w) \/ CreateNil(w) \/ CreateStore(w) \/ CreateOpen(w)
  \/ IO(w) \/ ClunkDelete(w) \/ ClunkClose(w) \/ RemoveDelete(w) \/ RemoveFile(w)
  \/ Refuse(w)

Next ==
  \/ \E f \in Fid : Auth(f) \/ \E g \in Fid : Attach(f, g)
  \/ \E i \in Info : AuthDone(i)
  \/ \E w \in Workers : Continue(w) \/ \E f \in Fid : Start(w, f)

Spec == Init /\ [][Next]_vars

-------------------------------------------------------------------------------
(* Properties                                                               *)

\* The types of the table, of the fidInfos and of the handlers' variables.
TypeOK ==
  /\ fids \in [Fid -> Info \cup {None}]
  /\ info \in [Info -> [n : Node \cup {None}, mode : Modes \cup {"none", "Ordwr"},
                       uname : BOOLEAN, extra : {"none", "children", "created", "user", "error"}]]
  /\ exists \subseteq Dirs \cup Files
  /\ {handles, apart} \subseteq SUBSET ((Files \cup {AuthFile}) \X Fid)
  /\ work \in [Workers -> [pc : {"idle", "walk", "open", "setMode", "create", "store",
                                "createOpen", "read", "write", "clunk", "close", "remove",
                                "removeFile"},
                          fid : Fid \cup {None}, newfid : Fid \cup {None},
                          mode : Modes \cup {"none"}, info : Info \cup {None},
                          node : Node \cup {None}]]
  /\ authing \subseteq Info
  /\ misuse \subseteq {"Open", "read", "write", "Close"}
  /\ authed \in BOOLEAN /\ panic \in {"none", "nil node", "created directory", "no list"}
  /\ \A i \in Live \ {None} : info[i].n # None

\* The contract of File: "For each fid, Open will be called before Read, Write,
\* or Close", and a fid "represents the same file descriptor until Close is
\* called", so that it is not opened again before.  Handlers of other fids and
\* failed requests in between do not break it; Create whose Open fails does, and
\* its descriptor is excepted.
FileContract == misuse = {}

\* Files and the table agree on what is open: a descriptor a File keeps belongs
\* to an open fid on that File, and the other way round.  None is left behind,
\* except by a Remove through an open fid.
HandlesMatch ==
  \A f \in Fid : Busy(f) \/
    {n \in Node : <<n, f>> \in handles \ apart} =
      (IF fids[f] = None \/ info[fids[f]].mode = "none" \/ IsDir(info[fids[f]].n)
       THEN {} ELSE {n \in {info[fids[f]].n} : <<n, f>> \notin apart})

\* With authentication no fid gets at the tree unless authFunc has accepted a
\* user on this connection: fids only come from Attach and, with their user,
\* from other fids.
OnlyAuthenticated ==
  AuthRequired /\ ~authed => \A f \in Fid : fids[f] # None => info[fids[f]].n = AuthFile

\* Each handler "should return a response" (comment on Srv): a read of an open
\* directory finds the list of its children, unless Create has opened it.
NoPanic == panic # "no list"
===============================================================================
