-------------------------------- MODULE Client --------------------------------
(***************************************************************************)
(* The 9P client of client/client.go: one TCP connection shared by many    *)
(* goroutines.  Requests are numbered with tags, files with fids; both are *)
(* recycled through the free lists Client.tags and Client.fids.  A worker  *)
(* goroutine reads replies and hands each one to the goroutine that waits  *)
(* on the channel registered in Client.calls under the reply's tag.        *)
(*                                                                         *)
(* Every region protected by Client.Mutex is one action; the gaps between  *)
(* two regions are where other goroutines get in.  What a goroutine does   *)
(* with its own variables only, between two regions, belongs to the step   *)
(* before it.  The server is the fid table of fs/server.go: it handles     *)
(* requests in any order (its worker pool does) and may refuse any of      *)
(* them.  Behaviours start where NewClient has returned: fid 0 is the      *)
(* attached root.                                                          *)
(***************************************************************************)
EXTENDS Integers, Sequences, FiniteSetsExt, Functions

CONSTANTS
  Procs,          \* goroutines that call the client's methods
  Paths,          \* paths they open, create, stat and remove
  Parent,         \* path.Dir of every path in Paths
  NoFid, NoPath,  \* "no entry" in a map
  MaxTag, MaxFid, \* bounds on lastTag and lastFid (2^16-1 and 2^32-1 in the code)
  MaxEvents,      \* bound on the method calls and faults in a behaviour
  MaxChunks,      \* bound on the Twrite requests of one File.Write
  Ops,            \* the methods the goroutines call
  SharedClose,    \* may File.Close overlap another call on the same File?
  Refusals,       \* the requests the server may answer with Rerror
  MayDisconnect   \* may the connection break?

ASSUME ClientAssumption ==
  /\ MaxTag \in Nat /\ MaxFid \in Nat /\ MaxEvents \in Nat /\ MaxChunks \in Nat \ {0}
  /\ NoFid \notin Int /\ NoPath \notin Paths \cup {Parent} /\ Parent \notin Paths
  /\ Ops \subseteq {"open", "create", "stat", "remove", "read", "write", "close"}
  /\ Refusals \subseteq Ops \cup {"Twalk"}
  /\ {SharedClose, MayDisconnect} \subseteq BOOLEAN

Tag  == 2..MaxTag        \* lastTag starts at 1; tags 0 and 1 are never handed out
Fid  == 1..MaxFid        \* fid 0 is rootFid
Node == Paths \cup {Parent}

VARIABLES
  tags, lastTag,   \* Client.tags (a stack), Client.lastTag
  fids, lastFid,   \* Client.fids (a stack), Client.lastFid
  calls,           \* the tags with a channel in Client.calls
  tagFids,         \* Client.tagFids
  pathCache,       \* Client.pathCache
  files,           \* the open *File values: fid and the path it was opened on
  proc,            \* the goroutines that run a method
  clunks,          \* the goroutines clunkFid has started
  worker,          \* the goroutine of Client.worker
  panic,           \* has the program crashed?
  conn,            \* "up", or "down" once the connection is broken
  net,             \* requests written and not yet handled by the server
  replies,         \* replies the server has written, in order
  sfids,           \* conn.fids of fs/server.go: what each fid denotes
  events           \* method calls and faults so far (bound)

tagVars  == <<tags, lastTag, tagFids>>
fidVars  == <<fids, lastFid>>
wireVars == <<net, replies, sfids, conn>>
vars == <<tagVars, fidVars, wireVars, calls, pathCache, files, proc, clunks,
          worker, panic, events>>

Idle == [pc |-> "idle", op |-> "none", path |-> NoPath, fid |-> NoFid,
         left |-> 0, tag |-> 0, refused |-> FALSE]

Init ==
  /\ tags = <<>> /\ lastTag = 1
  /\ fids = <<>> /\ lastFid = 0
  /\ calls = {}
  /\ tagFids = [t \in Tag |-> NoFid]
  /\ pathCache = [p \in Paths |-> NoFid]
  /\ files = {}
  /\ proc = [g \in Procs |-> Idle]
  /\ clunks = {}
  /\ worker = [st |-> "read", tag |-> 0, res |-> "none", who |-> "none"]
  /\ panic = "none"
  /\ conn = "up"
  /\ net = {}
  /\ replies = <<>>
  /\ sfids = [f \in Fid |-> NoPath]
  /\ events = 0

-------------------------------------------------------------------------------
(* The free lists.                                                          *)

\* lockedTakeTag: a fresh tag is not entered in tagFids, a recycled one is.
lockedTakeTag(f, t) ==
  \/ /\ tags = <<>>
     /\ lastTag < MaxTag
     /\ t = lastTag + 1
     /\ lastTag' = t
     /\ UNCHANGED <<tags, tagFids>>
  \/ /\ tags # <<>>
     /\ t = tags[Len(tags)]
     /\ tags' = SubSeq(tags, 1, Len(tags) - 1)
     /\ tagFids' = [tagFids EXCEPT ![t] = f]
     /\ UNCHANGED lastTag

takeFid(f) ==
  \/ /\ fids = <<>>
     /\ lastFid < MaxFid
     /\ f = lastFid + 1
     /\ lastFid' = f
     /\ UNCHANGED fids
  \/ /\ fids # <<>>
     /\ f = fids[Len(fids)]
     /\ fids' = SubSeq(fids, 1, Len(fids) - 1)
     /\ UNCHANGED lastFid

returnFid(f) == fids' = Append(fids, f) /\ UNCHANGED lastFid

\* getResponse up to the wait: register the channel, then write the request.
\* A write on a broken connection fails and leaves the channel registered.
getResponse(m) ==
  /\ calls' = calls \cup {m.tag}
  /\ net' = IF conn = "up" THEN net \cup {m} ELSE net
  /\ UNCHANGED <<replies, sfids, conn>>

Request(typ, t, f, path, g) ==
  [typ |-> typ, tag |-> t, fid |-> f, path |-> path, who |-> g]

-------------------------------------------------------------------------------
(* What a method does next.                                                 *)

\* Where a method goes on when getResponse returns.  res is "ok", "rerror" (the
\* server sent Rerror) or "err" (the write failed or the channel was closed).
\* A failed walkFid clunks the new fid; Stat caches a good one.  A refused
\* Open or Create clunks its fid, and so does a refused Remove, whose deferred
\* returnFid still follows.  twrite goes on with its next chunk.
AfterReply(p, res) ==
  LET go(pc) == [p EXCEPT !.pc = pc, !.tag = 0] IN
  IF p.pc \in {"walkSend", "walkWait"}
  THEN go(IF res # "ok" THEN "clunkTag" ELSE IF p.op = "stat" THEN "cache" ELSE "callTag")
  ELSE CASE p.op \in {"open", "create"} -> IF res = "ok" THEN Idle ELSE go("clunkTag")
         [] p.op = "remove" -> IF res = "rerror" THEN [go("clunkTag") EXCEPT !.refused = TRUE]
                                                 ELSE go("returnFid")
         [] p.op = "write" /\ res = "ok" /\ p.left > 1 -> [go("callTag") EXCEPT !.left = @ - 1]
         [] OTHER -> Idle

\* Open and Create return a new *File when the server agrees.
NewFiles(p, res) ==
  IF p.pc = "callWait" /\ p.op \in {"open", "create"} /\ res = "ok"
  THEN {[fid |-> p.fid, path |-> p.path]} ELSE {}

\* A goroutine that has written its request waits; a failed write is an error.
AfterSend(p, waiting) ==
  IF conn = "up" THEN [p EXCEPT !.pc = waiting] ELSE AfterReply(p, "err")

\* A panic ends the program: every step but the one that panics has this.
Running == panic = "none" /\ UNCHANGED panic

Begin(g, op) ==
  /\ proc[g] = Idle
  /\ op \in Ops
  /\ events < MaxEvents
  /\ events' = events + 1

-------------------------------------------------------------------------------
(* walkFid: take a fid, take a tag, send Twalk.                             *)

\* Open, Create and Remove walk a new fid first.
StartWalk(g, op, path) ==
  /\ op \in {"open", "create", "remove"}
  /\ Begin(g, op)
  /\ \E f \in Fid :
       /\ takeFid(f)
       /\ proc' = [proc EXCEPT ![g] = [Idle EXCEPT !.pc = "walkTag", !.op = op,
                                                   !.path = path, !.fid = f]]
  /\ Running
  /\ UNCHANGED <<tagVars, wireVars, calls, pathCache, files, clunks, worker>>

\* Stat and WStat use the cached fid of the path (lookupFid) or walk one.
StartStat(g, path) ==
  /\ Begin(g, "stat")
  /\ proc' = [proc EXCEPT ![g] =
                [Idle EXCEPT !.pc = IF pathCache[path] = NoFid THEN "takeFid" ELSE "callTag",
                             !.op = "stat", !.path = path, !.fid = pathCache[path]]]
  /\ Running
  /\ UNCHANGED <<tagVars, fidVars, wireVars, calls, pathCache, files, clunks,
                 worker>>

StatTakeFid(g) ==
  /\ proc[g].pc = "takeFid"
  /\ \E f \in Fid : /\ takeFid(f)
                    /\ proc' = [proc EXCEPT ![g].pc = "walkTag", ![g].fid = f]
  /\ Running
  /\ UNCHANGED <<tagVars, wireVars, calls, pathCache, files, clunks, worker,
                 events>>

WalkTakeTag(g) ==
  /\ proc[g].pc = "walkTag"
  /\ \E t \in Tag : /\ lockedTakeTag(0, t)
                    /\ proc' = [proc EXCEPT ![g].pc = "walkSend", ![g].tag = t]
  /\ Running
  /\ UNCHANGED <<fidVars, wireVars, calls, pathCache, files, clunks, worker,
                 events>>

\* The node a method walks to: Create walks to the directory.
Target(p) == IF p.op = "create" THEN Parent ELSE p.path

WalkSend(g) ==
  /\ proc[g].pc = "walkSend"
  /\ getResponse(Request("Twalk", proc[g].tag, proc[g].fid, Target(proc[g]), g))
  /\ proc' = [proc EXCEPT ![g] = AfterSend(@, "walkWait")]
  /\ Running
  /\ UNCHANGED <<tagVars, fidVars, pathCache, files, clunks, worker, events>>

\* cacheFid after walkFid: enter the fid, overwriting what another goroutine
\* may have entered since the lookup.
CacheFid(g) ==
  /\ proc[g].pc = "cache"
  /\ pathCache' = [pathCache EXCEPT ![proc[g].path] = proc[g].fid]
  /\ proc' = [proc EXCEPT ![g].pc = "callTag"]
  /\ Running
  /\ UNCHANGED <<tagVars, fidVars, wireVars, calls, files, clunks, worker,
                 events>>

-------------------------------------------------------------------------------
(* The request on the fid: Topen, Tcreate, Tremove, Tstat, Tread, Twrite.   *)

\* File.Read, ReadAt, Write and WriteAt go straight to the request; twrite
\* cuts its data into chunks that fit the message size, one request each.
StartIO(g, op, file) ==
  /\ op \in {"read", "write"}
  /\ Begin(g, op)
  /\ \E n \in 1..(IF op = "write" THEN MaxChunks ELSE 1), t \in Tag :
       /\ lockedTakeTag(file.fid, t)
       /\ proc' = [proc EXCEPT ![g] =
                     [Idle EXCEPT !.pc = "callSend", !.op = op, !.path = file.path,
                                  !.fid = file.fid, !.left = n, !.tag = t]]
  /\ Running
  /\ UNCHANGED <<fidVars, wireVars, calls, pathCache, files, clunks, worker>>

CallTakeTag(g) ==
  /\ proc[g].pc = "callTag"
  /\ \E t \in Tag : /\ lockedTakeTag(proc[g].fid, t)
                    /\ proc' = [proc EXCEPT ![g].pc = "callSend", ![g].tag = t]
  /\ Running
  /\ UNCHANGED <<fidVars, wireVars, calls, pathCache, files, clunks, worker,
                 events>>

CallSend(g) ==
  /\ proc[g].pc = "callSend"
  /\ getResponse(Request(proc[g].op, proc[g].tag, proc[g].fid, proc[g].path, g))
  /\ proc' = [proc EXCEPT ![g] = AfterSend(@, "callWait")]
  /\ Running
  /\ UNCHANGED <<tagVars, fidVars, pathCache, files, clunks, worker, events>>

-------------------------------------------------------------------------------
(* Letting go of a fid: File.Close, clunkFid, the deferred calls of Remove. *)

\* The goroutines in a method call on the fid f.
Users(f) == {g \in Procs : proc[g].fid = f}

\* File.Close starts with flushAll, under the lock: for every tag tagFids holds
\* for the fid take a tag for Tflush, write Tflush, close the flushed call's
\* channel and drop it from calls (its tagFids entry stays).  Closing wakes the
\* waiting goroutine with an error.  Closing a channel that is not in calls
\* panics, and so does closing the one the worker is sending on.  The first
\* failing write ends it, and Close returns without a clunk.
StartClose(g, file) ==
  LET S      == {t \in Tag : tagFids[t] = file.fid}
      up     == conn = "up"
      n      == IF up THEN Cardinality(S) ELSE Min({1, Cardinality(S)})
      popped == Min({n, Len(tags)})
      reused == Range(SubSeq(tags, Len(tags) - popped + 1, Len(tags)))
      fresh  == (lastTag + 1)..(lastTag + n - popped)
      woken  == {h \in Procs : up /\ proc[h].pc = "callWait" /\ proc[h].tag \in S}
  IN /\ panic = "none"
     /\ Begin(g, "close")
     /\ SharedClose \/ Users(file.fid) = {}
     /\ files' = files \ {file}
     /\ lastTag + n - popped <= MaxTag
     /\ lastTag' = lastTag + n - popped
     /\ tags' = SubSeq(tags, 1, Len(tags) - popped)
     /\ tagFids' = [t \in Tag |-> IF t \in reused THEN 0 ELSE tagFids[t]]
     /\ net' = IF up THEN net \cup {Request("Tflush", t, NoFid, NoPath, "flush") :
                                      t \in reused \cup fresh}
               ELSE net
     /\ calls' = IF up THEN calls \ S ELSE calls
     /\ panic' = IF up /\ ~(S \subseteq calls) THEN "close of nil channel"
                 ELSE IF up /\ worker.st = "deliver" /\ worker.tag \in S
                      THEN "send on closed channel" ELSE panic
     /\ proc' = [h \in Procs |->
                   IF h = g THEN IF up \/ S = {}
                                 THEN [Idle EXCEPT !.pc = "clunkTag", !.op = "close",
                                                   !.path = file.path, !.fid = file.fid]
                                 ELSE Idle
                   ELSE IF h \in woken THEN AfterReply(proc[h], "err") ELSE proc[h]]
     /\ UNCHANGED <<fidVars, replies, sfids, conn, pathCache, clunks, worker>>

\* Mutant: Remove defers returnFid before it looks at the error of walkFid.
ClunkTakeTagRemove(g) ==
  LET p == proc[g] IN
  /\ p.pc = "clunkTag"
  /\ \E t \in Tag : /\ lockedTakeTag(0, t)
                    /\ clunks' = clunks \cup {[fid |-> p.fid, tag |-> t, st |-> "send"]}
  /\ proc' = [proc EXCEPT ![g] = IF p.op # "remove" THEN Idle
                                 ELSE [p EXCEPT !.pc = "returnFid"]]
  /\ Running
  /\ UNCHANGED <<fidVars, wireVars, calls, pathCache, files, worker, events>>

\* clunkFid: take a tag and leave the rest to a new goroutine.  Then the method
\* returns; Remove first runs its deferred calls.
ClunkTakeTag(g) ==
  LET p == proc[g] IN
  /\ p.pc = "clunkTag"
  /\ \E t \in Tag : /\ lockedTakeTag(0, t)
                    /\ clunks' = clunks \cup {[fid |-> p.fid, tag |-> t, st |-> "send"]}
  /\ proc' = [proc EXCEPT ![g] = IF p.op # "remove" THEN Idle
                                 ELSE [p EXCEPT !.pc = IF p.refused THEN "returnFid" ELSE "drop"]]
  /\ Running
  /\ UNCHANGED <<fidVars, wireVars, calls, pathCache, files, worker, events>>

\* The deferred calls of Remove: returnFid, then dropCachedFid.
RemoveReturnFid(g) ==
  /\ proc[g].pc = "returnFid"
  /\ returnFid(proc[g].fid)
  /\ proc' = [proc EXCEPT ![g].pc = "drop"]
  /\ Running
  /\ UNCHANGED <<tagVars, wireVars, calls, pathCache, files, clunks, worker,
                 events>>

DropCachedFid(g) ==
  /\ proc[g].pc = "drop"
  /\ pathCache' = [pathCache EXCEPT ![proc[g].path] = NoFid]
  /\ proc' = [proc EXCEPT ![g] = Idle]
  /\ Running
  /\ UNCHANGED <<tagVars, fidVars, wireVars, calls, files, clunks, worker,
                 events>>

-------------------------------------------------------------------------------
(* The goroutine of clunkFid: getResponse, then returnFid.                  *)

\* Mutant: the clunk is written and its reply not waited for.
ClunkSendOnly(k) ==
  /\ k.st = "send"
  /\ getResponse(Request("Tclunk", k.tag, k.fid, NoPath, "clunk"))
  /\ clunks' = (clunks \ {k}) \cup {[k EXCEPT !.st = "done"]}
  /\ Running
  /\ UNCHANGED <<tagVars, fidVars, pathCache, files, proc, worker, events>>

ClunkSend(k) ==
  /\ k.st = "send"
  /\ getResponse(Request("Tclunk", k.tag, k.fid, NoPath, "clunk"))
  /\ clunks' = (clunks \ {k}) \cup {[k EXCEPT !.st = IF conn = "up" THEN "wait" ELSE "done"]}
  /\ Running
  /\ UNCHANGED <<tagVars, fidVars, pathCache, files, proc, worker, events>>

ClunkReturn(k) ==
  /\ k.st = "done"
  /\ returnFid(k.fid)
  /\ clunks' = clunks \ {k}
  /\ Running
  /\ UNCHANGED <<tagVars, wireVars, calls, pathCache, files, proc, worker,
                 events>>

-------------------------------------------------------------------------------
(* Client.worker: read a reply, look the channel up, send on it, returnTag. *)

\* Mutant: an Rerror is not handed to the waiting goroutine.
WorkerReadSkipsRerror ==
  /\ worker.st = "read" /\ replies # <<>>
  /\ replies' = Tail(replies)
  /\ worker' = IF Head(replies).tag \in calls /\ Head(replies).res = "ok"
               THEN [st |-> "deliver", tag |-> Head(replies).tag,
                     res |-> Head(replies).res, who |-> Head(replies).who]
               ELSE worker
  /\ Running
  /\ UNCHANGED <<tagVars, fidVars, net, sfids, conn, calls, pathCache, files,
                 proc, clunks, events>>

WorkerRead ==
  /\ worker.st = "read" /\ replies # <<>>
  /\ replies' = Tail(replies)
  /\ worker' = IF Head(replies).tag \in calls
               THEN [st |-> "deliver", tag |-> Head(replies).tag,
                     res |-> Head(replies).res, who |-> Head(replies).who]
               ELSE worker
  /\ Running
  /\ UNCHANGED <<tagVars, fidVars, net, sfids, conn, calls, pathCache, files,
                 proc, clunks, events>>

\* rchan <- call: an unbuffered channel, so the receiver takes it in this step.
WorkerDeliver ==
  /\ worker.st = "deliver"
  /\ worker' = [worker EXCEPT !.st = "return"]
  /\ \/ \E g \in Procs :
          /\ proc[g].pc \in {"walkWait", "callWait"} /\ proc[g].tag = worker.tag
          /\ proc' = [proc EXCEPT ![g] = AfterReply(@, worker.res)]
          /\ files' = files \cup NewFiles(proc[g], worker.res)
          /\ UNCHANGED clunks
     \/ \E k \in clunks :
          /\ k.st = "wait" /\ k.tag = worker.tag
          /\ clunks' = (clunks \ {k}) \cup {[k EXCEPT !.st = "done"]}
          /\ UNCHANGED <<proc, files>>
  /\ Running
  /\ UNCHANGED <<tagVars, fidVars, wireVars, calls, pathCache, events>>

\* Mutant: returnTag runs twice for one reply.
WorkerReturnTwice ==
  /\ worker.st = "return"
  /\ tags' = tags \o <<worker.tag, worker.tag>>
  /\ calls' = calls \ {worker.tag}
  /\ tagFids' = [tagFids EXCEPT ![worker.tag] = NoFid]
  /\ worker' = [st |-> "read", tag |-> 0, res |-> "none", who |-> "none"]
  /\ Running
  /\ UNCHANGED <<lastTag, fidVars, wireVars, pathCache, files, proc, clunks,
                 events>>

\* Mutant: returnTag does not delete the tag from tagFids.
WorkerReturnKeepsFid ==
  /\ worker.st = "return"
  /\ tags' = Append(tags, worker.tag)
  /\ calls' = calls \ {worker.tag}
  /\ worker' = [st |-> "read", tag |-> 0, res |-> "none", who |-> "none"]
  /\ Running
  /\ UNCHANGED <<lastTag, tagFids, fidVars, wireVars, pathCache, files, proc,
                 clunks, events>>

\* returnTag
WorkerReturn ==
  /\ worker.st = "return"
  /\ tags' = Append(tags, worker.tag)
  /\ calls' = calls \ {worker.tag}
  /\ tagFids' = [tagFids EXCEPT ![worker.tag] = NoFid]
  /\ worker' = [st |-> "read", tag |-> 0, res |-> "none", who |-> "none"]
  /\ Running
  /\ UNCHANGED <<lastTag, fidVars, wireVars, pathCache, files, proc, clunks,
                 events>>

\* ParseCall fails: the worker ends.  The channels in calls stay open.
WorkerEnd ==
  /\ worker.st = "read" /\ conn = "down" /\ replies = <<>>
  /\ worker' = [worker EXCEPT !.st = "dead"]
  /\ Running
  /\ UNCHANGED <<tagVars, fidVars, wireVars, calls, pathCache, files, proc,
                 clunks, events>>

-------------------------------------------------------------------------------
(* The server, as far as the client can tell: fs/server.go's fid table.     *)

Results == {"ok", "rerror"}

Answer(m, res) ==
  /\ net' = net \ {m}
  /\ replies' = Append(replies, [tag |-> m.tag, res |-> res, who |-> m.who])

\* What a request does to the fid table; res is the kind of reply.  A request on
\* an unknown fid is refused.  Twalk enters the new fid if it succeeds, Tcreate
\* moves the fid to the new file if it does; Tclunk and Tremove drop the fid
\* whatever they answer.
Handle(m, res) ==
  LET badFid == m.typ \notin {"Twalk", "Tclunk", "Tflush"} /\ sfids[m.fid] = NoPath
  IN /\ res = "ok" => ~badFid
     /\ res = "rerror" => badFid \/ m.typ \in Refusals
     /\ sfids' = IF m.typ \in {"Tclunk", "remove"} THEN [sfids EXCEPT ![m.fid] = NoPath]
                 ELSE IF m.typ \in {"Twalk", "create"} /\ res = "ok"
                      THEN [sfids EXCEPT ![m.fid] = m.path]
                 ELSE sfids

Faulty(m, res) == res = "rerror" /\ m.typ \in Refusals

ServerHandle ==
  /\ \E m \in net, res \in Results :
       /\ Handle(m, res) /\ Answer(m, res)
       /\ events' = IF Faulty(m, res) THEN events + 1 ELSE events
       /\ events' <= MaxEvents
  /\ Running
  /\ UNCHANGED <<conn, tagVars, fidVars, calls, pathCache, files, proc, clunks,
                 worker>>

\* The connection breaks; requests the server has not handled are lost.
Disconnect ==
  /\ MayDisconnect /\ conn = "up"
  /\ events < MaxEvents
  /\ events' = events + 1
  /\ conn' = "down"
  /\ net' = {}
  /\ Running
  /\ UNCHANGED <<replies, sfids, tagVars, fidVars, calls, pathCache, files, proc,
                 clunks, worker>>

-------------------------------------------------------------------------------
Method(g) ==
  \/ \E p \in Paths : \/ \E op \in Ops : StartWalk(g, op, p)
                      \/ StartStat(g, p)
  \/ \E x \in files : \/ \E op \in Ops : StartIO(g, op, x)
                      \/ StartClose(g, x)

Continue(g) ==
  \/ StatTakeFid(g) \/ WalkTakeTag(g) \/ WalkSend(g) \/ CacheFid(g)
  \/ CallTakeTag(g) \/ CallSend(g)
  \/ ClunkTakeTag(g) \/ RemoveReturnFid(g) \/ DropCachedFid(g)

Clunker == \E k \in clunks : ClunkSend(k) \/ ClunkReturn(k)

Worker == WorkerRead \/ WorkerDeliver \/ WorkerReturn \/ WorkerEnd

Next ==
  \/ \E g \in Procs : Method(g) \/ Continue(g)
  \/ Clunker \/ Worker \/ ServerHandle \/ Disconnect

Spec == Init /\ [][Next]_vars

-------------------------------------------------------------------------------
(* Properties                                                               *)

PCs == {"idle", "takeFid", "walkTag", "walkSend", "walkWait", "cache", "callTag",
        "callSend", "callWait", "clunkTag", "returnFid", "drop"}
Callers == Procs \cup {"clunk", "flush"}

\* The types of the fields of Client and of the goroutines' local variables.
TypeOK ==
  /\ tags \in Seq(Tag) /\ lastTag \in 1..MaxTag
  /\ fids \in Seq(Fid) /\ lastFid \in 0..MaxFid
  /\ calls \subseteq Tag
  /\ tagFids \in [Tag -> Fid \cup {0, NoFid}]
  /\ pathCache \in [Paths -> Fid \cup {NoFid}]
  /\ files \subseteq [fid : Fid, path : Paths]
  /\ proc \in [Procs -> [pc : PCs, op : Ops \cup {"none"}, path : Paths \cup {NoPath},
                         fid : Fid \cup {NoFid}, left : 0..MaxChunks,
                         tag : Tag \cup {0}, refused : BOOLEAN]]
  /\ clunks \subseteq [fid : Fid, tag : Tag, st : {"send", "wait", "done"}]
  /\ worker \in [st : {"read", "deliver", "return", "dead"}, tag : Tag \cup {0},
                 res : Results \cup {"none"}, who : Callers \cup {"none"}]
  /\ panic \in {"none", "close of nil channel", "send on closed channel"}
  /\ conn \in {"up", "down"}
  /\ net \subseteq [typ : Ops \cup {"Twalk", "Tclunk", "Tflush"}, tag : Tag,
                    fid : Fid \cup {NoFid}, path : Node \cup {NoPath}, who : Callers]
  /\ replies \in Seq([tag : Tag, res : Results, who : Callers])
  /\ sfids \in [Fid -> Node \cup {NoPath}]
  /\ events \in 0..MaxEvents

\* The goroutines that have a tag and have not been answered or aborted.
Holding(g)      == proc[g].pc \in {"walkSend", "walkWait", "callSend", "callWait"}
HoldingClunks   == {k \in clunks : k.st \in {"send", "wait"}}
Distinct(s)     == \A i, j \in 1..Len(s) : s[i] = s[j] => i = j

\* A tag is handed to one call at a time: the free list (takeTag, returnTag)
\* never holds a tag twice, nor one that a call or the worker still has, and no
\* two calls in progress have the same tag.
TagsExclusive ==
  /\ Distinct(tags)
  /\ \A g \in Procs : Holding(g) =>
       /\ proc[g].tag \notin Range(tags)
       /\ \A h \in Procs \ {g} : Holding(h) => proc[h].tag # proc[g].tag
       /\ \A k \in HoldingClunks : k.tag # proc[g].tag
  /\ \A k \in HoldingClunks :
       /\ k.tag \notin Range(tags)
       /\ \A l \in HoldingClunks \ {k} : l.tag # k.tag
  /\ worker.st = "return" => worker.tag \notin Range(tags)

\* The reply the worker hands to a goroutine answers the request of that very
\* goroutine: no two calls have the same tag, and on the wire a tag a call waits on
\* is used by no other request, not even a late answer to an earlier, flushed one.
RepliesMatch ==
  LET ours(t, who) ==
        /\ \A m \in net \cup Range(replies) : m.tag = t => m.who = who
        /\ worker.st = "deliver" /\ worker.tag = t => worker.who = who
  IN /\ TagsExclusive
     /\ \A g \in Procs : Holding(g) => ours(proc[g].tag, g)
     /\ \A k \in HoldingClunks : ours(k.tag, "clunk")

\* The method call g is responsible for its fid: it walked it and has not
\* passed it on to a File, to the path cache or to clunkFid, or it closes it.
Owns(g) ==
  \/ proc[g].op \in {"open", "create", "close"}
  \/ proc[g].op = "remove" /\ proc[g].pc # "drop"
     /\ ~(proc[g].refused /\ proc[g].pc = "returnFid")
  \/ proc[g].op = "stat" /\ proc[g].pc \in {"walkTag", "walkSend", "walkWait", "cache",
                                            "clunkTag"}

Owners(f) ==
  {<<"file", x>> : x \in {y \in files : y.fid = f}}
  \cup {<<"cache", p>> : p \in {q \in Paths : pathCache[q] = f}}
  \cup {<<"call", g>> : g \in {h \in Procs : Owns(h) /\ proc[h].fid = f}}
  \cup {<<"clunk", k>> : k \in {l \in clunks : l.fid = f}}

\* A fid has one user at a time: an open File, the path cache, a method call in
\* progress or a clunk; the free list holds it only when it has none, and once.
FidsExclusive ==
  /\ Distinct(fids)
  /\ \A f \in Fid : /\ f \in Range(fids) => Owners(f) = {}
                    /\ \A a, b \in Owners(f) : a = b

\* Every fid handed out comes back: it is free, or somebody still uses it
\* (the comment on walkFid: "fids should be returned to the client with
\* returnFid once they're finished being used").
FidsReturned ==
  \A f \in 1..lastFid : f \in Range(fids) \/ Owners(f) # {} \/ Users(f) # {}

\* At the server a fid denotes the path the client believes it does, for open
\* Files, for the path cache and for each request still on its way: no request
\* is applied to another file because its fid was recycled too early.
FidBinding ==
  /\ \A x \in files : sfids[x.fid] = x.path
  /\ \A p \in Paths : pathCache[p] # NoFid => sfids[pathCache[p]] = p
  /\ \A m \in net : m.typ \in {"open", "stat", "read", "write", "remove"}
                      => sfids[m.fid] = m.path

\* Aborting the calls of a closed File makes them return an error (flushAll
\* closes their channels, getResponse returns "RPC Error."); it does not crash
\* the program.
NoPanic == panic = "none"

\* No call waits in vain on a connection that is up: the channel of a waiting
\* goroutine is in calls, and its request or the reply is still on its way to it.
\* (When the connection breaks, a call that waits is never woken.)
AnswerUnderWay ==
  LET coming(t) ==
        /\ t \in calls
        /\ \/ \E m \in net \cup Range(replies) : m.tag = t
           \/ worker.st = "deliver" /\ worker.tag = t
  IN conn = "up" /\ panic = "none" =>
       /\ \A g \in Procs : proc[g].pc \in {"walkWait", "callWait"} => coming(proc[g].tag)
       /\ \A k \in clunks : k.st = "wait" => coming(k.tag)
===============================================================================
