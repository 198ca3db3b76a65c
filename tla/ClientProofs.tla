----------------------------- MODULE ClientProofs -----------------------------
(***************************************************************************)
(* What Client guarantees about tags for any number of goroutines, paths,  *)
(* tags and fids, whatever the server refuses, with or without a broken    *)
(* connection, and also when File.Close overlaps other calls on the File.  *)
(***************************************************************************)
EXTENDS Client, TLAPS

-------------------------------------------------------------------------------
(* The inductive invariant, in parts.                                       *)

ProcType == [pc : PCs, op : Ops \cup {"none"}, path : Paths \cup {NoPath},
             fid : Fid \cup {NoFid}, left : Int, tag : Nat, refused : BOOLEAN]
ClunkType == [fid : Fid \cup {NoFid}, tag : Nat, st : {"send", "wait", "done"}]
MessageType == [typ : Ops \cup {"none", "Twalk", "Tclunk", "Tflush"}, tag : Nat,
                fid : Fid \cup {NoFid}, path : Node \cup {NoPath}, who : Callers]
ReplyType == [tag : Nat, res : Results, who : Callers]
WorkerType == [st : {"read", "deliver", "return", "dead"}, tag : Nat,
               res : Results \cup {"none"}, who : Callers \cup {"none"}]

\* The types the argument about tags needs: fids may be anything takeFid returns.
Types ==
  /\ tags \in Seq(Nat) /\ lastTag \in Nat
  /\ pathCache \in [Paths -> Fid \cup {NoFid}]
  /\ files \subseteq [fid : Fid \cup {NoFid}, path : Paths \cup {NoPath}]
  /\ proc \in [Procs -> ProcType]
  /\ clunks \subseteq ClunkType
  /\ worker \in WorkerType
  /\ net \subseteq MessageType
  /\ replies \in Seq(ReplyType)

Sending(g) == proc[g].pc \in {"walkSend", "callSend"}

\* A request or a reply with the tag t is on its way, or the worker has it.
Wired(t) ==
  \/ \E m \in net : m.tag = t
  \/ \E i \in 1..Len(replies) : replies[i].tag = t
  \/ worker.st \in {"deliver", "return"} /\ worker.tag = t

\* The tag t belongs to a call or to a clunk.
Held(t) ==
  \/ \E g \in Procs : Holding(g) /\ proc[g].tag = t
  \/ \E k \in HoldingClunks : k.tag = t

\* The free list holds no tag twice and none that is in use.
FreeInv ==
  /\ Distinct(tags)
  /\ \A i \in 1..Len(tags) : tags[i] <= lastTag /\ ~Wired(tags[i]) /\ ~Held(tags[i])

\* Tags above lastTag have never been handed out.
FreshInv == \A t \in Nat : Wired(t) \/ Held(t) => t <= lastTag

\* A tag belongs to one call.
HeldInv ==
  /\ \A g, h \in Procs : Holding(g) /\ Holding(h) /\ proc[g].tag = proc[h].tag => g = h
  /\ \A g \in Procs, k \in HoldingClunks : Holding(g) => proc[g].tag # k.tag
  /\ \A k, l \in HoldingClunks : k.tag = l.tag => k = l

\* A tag is on the wire once.
WireInv ==
  /\ \A m, n \in net : m.tag = n.tag => m = n
  /\ \A i, j \in 1..Len(replies) : replies[i].tag = replies[j].tag => i = j
  /\ \A m \in net, i \in 1..Len(replies) : m.tag # replies[i].tag
  /\ worker.st \in {"deliver", "return"} =>
       /\ \A m \in net : m.tag # worker.tag
       /\ \A i \in 1..Len(replies) : replies[i].tag # worker.tag

\* What is on the wire with the tag of a call is the request of that call.
Ours(t, who) ==
  /\ \A m \in net : m.tag = t => m.who = who
  /\ \A i \in 1..Len(replies) : replies[i].tag = t => replies[i].who = who
  /\ worker.st = "deliver" /\ worker.tag = t => worker.who = who
  /\ worker.st = "return" => worker.tag # t

CallInv ==
  /\ \A g \in Procs : Sending(g) => ~Wired(proc[g].tag)
  /\ \A g \in Procs : Holding(g) => Ours(proc[g].tag, g)
  /\ \A k \in clunks : k.st = "send" => ~Wired(k.tag)
  /\ \A k \in HoldingClunks : Ours(k.tag, "clunk")

TagInv == Types /\ FreeInv /\ FreshInv /\ HeldInv /\ WireInv /\ CallInv

\* The invariant is at least as strong as RepliesMatch.
LEMMA TagInvSuffices == TagInv => RepliesMatch
<1> SUFFICES ASSUME TagInv PROVE RepliesMatch
  BY Zenon
<1> USE DEF TagInv, Types
<1>1. \A t \in Range(tags) : ~Wired(t) /\ ~Held(t)
  BY DEF FreeInv, Range
<1>2. TagsExclusive
  BY <1>1, Zenon DEF TagsExclusive, FreeInv, HeldInv, Held, Wired, HoldingClunks
<1>3. \A m \in Range(replies) : \E i \in 1..Len(replies) : m = replies[i]
  BY DEF Range
<1>4. \A g \in Procs : Holding(g) => Ours(proc[g].tag, g)
  BY Zenon DEF CallInv
<1>5. \A k \in HoldingClunks : Ours(k.tag, "clunk")
  BY Zenon DEF CallInv
<1> QED
  BY <1>2, <1>3, <1>4, <1>5, SMTT(30) DEF RepliesMatch, Ours

-------------------------------------------------------------------------------
(* Taking a tag.                                                            *)

\* The first n elements of a sequence of numbers.
LEMMA Prefix ==
  ASSUME NEW s \in Seq(Nat), NEW n \in 0..Len(s)
  PROVE  /\ SubSeq(s, 1, n) \in Seq(Nat)
         /\ Len(SubSeq(s, 1, n)) = n
         /\ \A i \in 1..n : SubSeq(s, 1, n)[i] = s[i]
  OBVIOUS

\* lockedTakeTag returns a tag that nothing uses, and takes it off the list.
LEMMA TakeTag ==
  ASSUME TagInv, NEW f, NEW t \in Tag, lockedTakeTag(f, t)
  PROVE  /\ t \in Nat /\ lastTag' \in Nat /\ lastTag <= lastTag' /\ t <= lastTag'
         /\ tags' \in Seq(Nat) /\ Distinct(tags)'
         /\ \A i \in 1..Len(tags') : tags'[i] # t /\ \E j \in 1..Len(tags) : tags[j] = tags'[i]
         /\ ~Wired(t) /\ ~Held(t)
<1> USE DEF TagInv, Types
<1>0. t \in Nat /\ MaxTag \in Nat
  BY ClientAssumption DEF Tag
<1>1. CASE tags = <<>> /\ lastTag < MaxTag /\ t = lastTag + 1 /\ lastTag' = t /\ tags' = tags
  <2>1. ~(t <= lastTag)
    BY <1>1, <1>0
  <2>2. ~Wired(t) /\ ~Held(t)
    BY <2>1, <1>0, Zenon DEF FreshInv
  <2> QED
    BY <1>0, <1>1, <2>2 DEF Distinct
<1>2. CASE tags # <<>> /\ t = tags[Len(tags)] /\ tags' = SubSeq(tags, 1, Len(tags) - 1) /\ lastTag' = lastTag
  <2>1. Len(tags) \in 1..Len(tags) /\ t = tags[Len(tags)]
    BY <1>2
  <2>2. ~Wired(t) /\ ~Held(t) /\ t <= lastTag
    BY <2>1, Zenon DEF FreeInv
  <2>3. /\ tags' \in Seq(Nat) /\ Len(tags') = Len(tags) - 1
        /\ \A i \in 1..Len(tags') : tags'[i] = tags[i] /\ i \in 1..Len(tags) /\ i # Len(tags)
    <3>1. tags' = SubSeq(tags, 1, Len(tags) - 1)
      BY <1>2, Zenon
    <3>2. Len(tags) - 1 \in 0..Len(tags)
      BY <2>1
    <3>3. tags \in Seq(Nat)
      BY Zenon
    <3>4. /\ tags' \in Seq(Nat) /\ Len(tags') = Len(tags) - 1
          /\ \A i \in 1..(Len(tags) - 1) : tags'[i] = tags[i]
      <4> HIDE DEF TagInv, Types
      <4> QED
        BY <3>1, <3>2, <3>3, Prefix, Zenon
    <3>5. Len(tags) \in Nat
      BY <3>3
    <3> HIDE DEF TagInv, Types
    <3> QED
      BY <3>4, <3>5
  <2>4. Distinct(tags)'
    BY <2>3, Zenon DEF FreeInv, Distinct
  <2>5. \A i \in 1..Len(tags') : tags'[i] # t
    BY <2>1, <2>3, Zenon DEF FreeInv, Distinct
  <2>6. \A i \in 1..Len(tags') : \E j \in 1..Len(tags) : tags[j] = tags'[i]
    BY <2>3, Zenon
  <2>7. lastTag' \in Nat /\ lastTag <= lastTag' /\ t <= lastTag'
    BY <1>2, <2>2
  <2> QED
    BY <1>0, <2>2, <2>3, <2>4, <2>5, <2>6, <2>7, Zenon
<1> QED
  BY <1>1, <1>2, Zenon DEF lockedTakeTag

-------------------------------------------------------------------------------
(* The kinds of steps, by what they do to the tags.                         *)

Busy == worker.st \in {"deliver", "return"}

\* Method calls may give up their tags and take none.
NoNewCalls ==
  \A g \in Procs : Holding(g)' => /\ Holding(g) /\ proc'[g].tag = proc[g].tag
                                  /\ Sending(g)' => Sending(g)

\* Tags may be given up and messages may get lost; nothing else happens.
QuietStep ==
  /\ tags' = tags /\ lastTag' = lastTag /\ replies' = replies
  /\ net' \subseteq net
  /\ Busy' => worker' = worker
  /\ HoldingClunks' \subseteq HoldingClunks
  /\ NoNewCalls

\* A step that takes no tag and sends nothing keeps tags apart.
LEMMA Quiet ==
  ASSUME TagInv, Types', QuietStep
  PROVE  TagInv'
<1> USE DEF TagInv, QuietStep, NoNewCalls
<1>1. \A t : (Wired(t)' => Wired(t)) /\ (Held(t)' => Held(t))
  BY Zenon DEF Wired, Held, Busy
<1>2. FreeInv'
  BY <1>1, Zenon DEF FreeInv, Distinct
<1>3. FreshInv'
  BY <1>1, Zenon DEF FreshInv
<1>4. HeldInv'
  BY Zenon DEF HeldInv
<1>5. WireInv'
  BY Zenon DEF WireInv, Busy
<1>6. \A t, w : Ours(t, w) => Ours(t, w)'
  BY Zenon DEF Ours, Busy
<1>7. \A k \in clunks' : k.st = "send" => k \in clunks
  BY Zenon DEF HoldingClunks
<1>8. \A g \in Procs : Sending(g) => Holding(g)
  BY Zenon DEF Sending, Holding
<1>9. \A g \in Procs : Sending(g)' => Holding(g)'
  BY Zenon DEF Sending, Holding
<1>10. CallInv'
  BY <1>1, <1>6, <1>7, <1>9, Zenon DEF CallInv
<1> QED
  BY <1>2, <1>3, <1>4, <1>5, <1>10, Zenon

\* A tag is taken and nothing is sent.
TakeStep(t) ==
  /\ t \in Nat /\ lastTag' \in Nat /\ lastTag <= lastTag' /\ t <= lastTag'
  /\ Distinct(tags)'
  /\ \A i \in 1..Len(tags') : tags'[i] # t /\ \E j \in 1..Len(tags) : tags[j] = tags'[i]
  /\ ~Wired(t) /\ ~Held(t)
  /\ net' = net /\ replies' = replies /\ worker' = worker

\* A method call takes a tag and goes on to send its request.
LEMMA CallTakes ==
  ASSUME TagInv, Types', NEW g \in Procs, NEW t, TakeStep(t),
         Sending(g)', proc'[g].tag = t, clunks' = clunks,
         \A h \in Procs \ {g} : proc'[h] = proc[h]
  PROVE  TagInv'
<1> USE DEF TagInv, TakeStep
<1>1. Holding(g)' /\ \A h \in Procs \ {g} : (Holding(h)' <=> Holding(h)) /\ (Sending(h)' <=> Sending(h))
  BY Zenon DEF Holding, Sending
<1>2. HoldingClunks' = HoldingClunks
  BY Zenon DEF HoldingClunks
<1>3. \A u : (Wired(u)' <=> Wired(u)) /\ (Held(u)' => Held(u) \/ u = t)
  BY <1>1, <1>2, Zenon DEF Wired, Held
<1>4. FreeInv'
  <2>1. \A i \in 1..Len(tags') : tags'[i] <= lastTag'
    BY SMTT(20) DEF FreeInv, Types
  <2> QED
    BY <1>3, <2>1, Zenon DEF FreeInv
<1>5. FreshInv'
  BY <1>3 DEF FreshInv, Types
<1>6. HeldInv'
  BY <1>1, <1>2 DEF HeldInv, Held
<1>7. WireInv'
  BY Zenon DEF WireInv
<1>8. \A u, w : Ours(u, w) <=> Ours(u, w)'
  BY Zenon DEF Ours
<1>9. \A w : Ours(t, w)
  BY Zenon DEF Ours, Wired
<1>10. CallInv'
  BY <1>1, <1>2, <1>3, <1>8, <1>9, Zenon DEF CallInv
<1> QED
  BY <1>4, <1>5, <1>6, <1>7, <1>10, Zenon

\* clunkFid takes a tag for the goroutine it starts.
LEMMA ClunkTakes ==
  ASSUME TagInv, Types', NEW k \in ClunkType, NEW t, TakeStep(t),
         k.tag = t, k.st = "send", clunks' = clunks \cup {k}, NoNewCalls
  PROVE  TagInv'
<1> USE DEF TagInv, TakeStep, NoNewCalls
<1>1. \A h \in Procs : (Sending(h) => Holding(h)) /\ (Sending(h)' => Holding(h)')
  BY Zenon DEF Sending, Holding
<1>2. HoldingClunks' = HoldingClunks \cup {k}
  BY Zenon DEF HoldingClunks
<1>3. \A u : (Wired(u)' <=> Wired(u)) /\ (Held(u)' => Held(u) \/ u = t)
  BY <1>2, Zenon DEF Wired, Held
<1>4. FreeInv'
  <2>1. \A i \in 1..Len(tags') : tags'[i] <= lastTag'
    BY SMTT(20) DEF FreeInv, Types
  <2> QED
    BY <1>3, <2>1, Zenon DEF FreeInv
<1>5. FreshInv'
  BY <1>3 DEF FreshInv, Types
<1>6. HeldInv'
  BY <1>2 DEF HeldInv, Held
<1>7. WireInv'
  BY Zenon DEF WireInv
<1>8. \A u, w : Ours(u, w) <=> Ours(u, w)'
  BY Zenon DEF Ours
<1>9. \A w : Ours(t, w)
  BY Zenon DEF Ours, Wired
<1>10. CallInv'
  BY <1>1, <1>2, <1>3, <1>8, <1>9, Zenon DEF CallInv
<1> QED
  BY <1>4, <1>5, <1>6, <1>7, <1>10, Zenon

\* A method call writes its request and waits.
LEMMA CallSends ==
  ASSUME TagInv, Types', NEW g \in Procs, NEW m,
         m.tag = proc[g].tag, m.who = g,
         Sending(g), Holding(g)', ~Sending(g)', proc'[g].tag = proc[g].tag,
         \A h \in Procs \ {g} : proc'[h] = proc[h],
         net' = net \cup {m}, clunks' = clunks, tags' = tags, lastTag' = lastTag,
         replies' = replies, worker' = worker
  PROVE  TagInv'
<1> USE DEF TagInv
<1>1. /\ Holding(g)
      /\ \A h \in Procs \ {g} : (Holding(h)' <=> Holding(h)) /\ (Sending(h)' <=> Sending(h))
  BY Zenon DEF Holding, Sending
<1>2. HoldingClunks' = HoldingClunks
  BY ZenonT(30) DEF HoldingClunks
<1>3. ~Wired(m.tag) /\ Held(m.tag)
  BY <1>1, Zenon DEF CallInv, Held
<1>4. \A t : (Wired(t)' => Wired(t) \/ t = m.tag) /\ (Held(t)' => Held(t))
  BY <1>1, <1>2, Zenon DEF Wired, Held
<1>5. FreeInv'
  BY <1>3, <1>4, Zenon DEF FreeInv, Distinct
<1>6. FreshInv'
  BY <1>3, <1>4, Zenon DEF FreshInv
<1>7. HeldInv'
  BY <1>1, <1>2, SMTT(30) DEF HeldInv
<1>8. WireInv'
  BY <1>3, SMTT(30) DEF WireInv, Wired
<1>9. \A t, w : Ours(t, w) /\ (t = m.tag => w = g) => Ours(t, w)'
  BY Zenon DEF Ours
<1>10. \A h \in Procs \ {g} : Holding(h) => proc[h].tag # m.tag
  BY <1>1, Zenon DEF HeldInv
<1>11. \A k \in HoldingClunks : k.tag # m.tag
  BY <1>1, SMTT(30) DEF HeldInv
<1>12. CallInv'
  <2>1. \A h \in Procs : Sending(h)' => ~Wired(proc[h].tag)'
    BY <1>1, <1>4, <1>10, SMTT(30) DEF CallInv, Sending, Holding
  <2>2. \A h \in Procs : Holding(h)' => Ours(proc[h].tag, h)'
    BY <1>1, <1>9, <1>10, SMTT(30) DEF CallInv
  <2>3. \A k \in clunks' : k.st = "send" => ~Wired(k.tag)'
    BY <1>4, <1>11, ZenonT(30) DEF CallInv, HoldingClunks
  <2>4. \A k \in HoldingClunks' : Ours(k.tag, "clunk")'
    BY <1>2, <1>9, <1>11, Zenon DEF CallInv
  <2> QED
    BY <2>1, <2>2, <2>3, <2>4, ZenonT(30) DEF CallInv
<1> QED
  BY <1>5, <1>6, <1>7, <1>8, <1>12, Zenon

\* The goroutine of clunkFid writes Tclunk and waits.
LEMMA ClunkSends ==
  ASSUME TagInv, Types', NEW k \in clunks, NEW l, NEW m,
         k.st = "send", l.st = "wait", l.tag = k.tag,
         m.tag = k.tag, m.who = "clunk",
         net' = net \cup {m}, clunks' = (clunks \ {k}) \cup {l},
         proc' = proc, tags' = tags, lastTag' = lastTag, replies' = replies, worker' = worker
  PROVE  TagInv'
<1> USE DEF TagInv
<1>1. \A h \in Procs : (Holding(h)' <=> Holding(h)) /\ (Sending(h)' <=> Sending(h))
  BY Zenon DEF Holding, Sending
<1>2. k \in HoldingClunks /\ HoldingClunks' = (HoldingClunks \ {k}) \cup {l}
  BY Zenon DEF HoldingClunks
<1>3. ~Wired(m.tag) /\ Held(m.tag)
  BY <1>2, Zenon DEF CallInv, Held
<1>4. \A t : (Wired(t)' => Wired(t) \/ t = m.tag) /\ (Held(t)' => Held(t))
  BY <1>1, <1>2, Zenon DEF Wired, Held
<1>5. FreeInv'
  BY <1>3, <1>4, Zenon DEF FreeInv, Distinct
<1>6. FreshInv'
  BY <1>3, <1>4, Zenon DEF FreshInv
<1>7. HeldInv'
  BY <1>1, <1>2, SMTT(30) DEF HeldInv
<1>8. WireInv'
  BY <1>3, SMTT(30) DEF WireInv, Wired
<1>9. \A t, w : Ours(t, w) /\ (t = m.tag => w = "clunk") => Ours(t, w)'
  BY Zenon DEF Ours
<1>10. \A h \in Procs : Holding(h) => proc[h].tag # m.tag
  BY <1>2, Zenon DEF HeldInv
<1>11. \A j \in HoldingClunks \ {k} : j.tag # m.tag
  BY <1>2, ZenonT(30) DEF HeldInv
<1>12. CallInv'
  <2>1. \A h \in Procs : Sending(h)' => ~Wired(proc[h].tag)'
    BY <1>1, <1>4, <1>10, ZenonT(30) DEF CallInv, Sending, Holding
  <2>2. \A h \in Procs : Holding(h)' => Ours(proc[h].tag, h)'
    BY <1>1, <1>9, <1>10, ZenonT(30) DEF CallInv
  <2>3. \A j \in clunks' : j.st = "send" => ~Wired(j.tag)'
    BY <1>4, <1>11, Zenon DEF CallInv, HoldingClunks
  <2>4. \A j \in HoldingClunks' : Ours(j.tag, "clunk")'
    BY <1>2, <1>9, Zenon DEF CallInv
  <2> QED
    BY <2>1, <2>2, <2>3, <2>4, ZenonT(30) DEF CallInv
<1> QED
  BY <1>5, <1>6, <1>7, <1>8, <1>12, Zenon

\* A message moves on: from net to replies, from replies to the worker, or to
\* nowhere when its call has been flushed.  Nothing else changes.
MoveStep ==
  /\ tags' = tags /\ lastTag' = lastTag /\ proc' = proc /\ clunks' = clunks
  /\ \A t : Wired(t)' => Wired(t)
  /\ \A t, w : Ours(t, w) => Ours(t, w)'
  /\ WireInv'

\* Moving a message keeps tags apart.
LEMMA Moves ==
  ASSUME TagInv, Types', MoveStep
  PROVE  TagInv'
<1> USE DEF TagInv, MoveStep
<1>1. \A h \in Procs : (Holding(h)' <=> Holding(h)) /\ (Sending(h)' <=> Sending(h))
  BY Zenon DEF Holding, Sending
<1>2. HoldingClunks' = HoldingClunks
  BY Zenon DEF HoldingClunks
<1>3. \A t : Held(t)' <=> Held(t)
  BY <1>1, <1>2, Zenon DEF Held
<1>4. FreeInv'
  BY <1>3, Zenon DEF FreeInv, Distinct
<1>5. FreshInv'
  BY <1>3, Zenon DEF FreshInv
<1>6. HeldInv'
  BY <1>1, <1>2, Zenon DEF HeldInv
<1>7. CallInv'
  BY <1>1, <1>2, Zenon DEF CallInv
<1> QED
  BY <1>4, <1>5, <1>6, <1>7, Zenon

\* The worker has handed its reply over: the call it was for gives up its tag.
LEMMA Delivers ==
  ASSUME TagInv, Types', NoNewCalls,
         worker.st = "deliver", worker'.st = "return", worker'.tag = worker.tag,
         HoldingClunks' \subseteq HoldingClunks,
         \A h \in Procs : Holding(h)' => proc'[h].tag # worker.tag,
         \A k \in HoldingClunks' : k.tag # worker.tag,
         tags' = tags, lastTag' = lastTag, net' = net, replies' = replies
  PROVE  TagInv'
<1> USE DEF TagInv, NoNewCalls
<1>1. \A h \in Procs : Sending(h)' => Holding(h)'
  BY Zenon DEF Holding, Sending
<1>2. \A t : (Wired(t)' <=> Wired(t)) /\ (Held(t)' => Held(t))
  BY ZenonT(30) DEF Wired, Held
<1>3. FreeInv'
  BY <1>2, Zenon DEF FreeInv, Distinct
<1>4. FreshInv'
  BY <1>2, Zenon DEF FreshInv
<1>5. HeldInv'
  BY SMTT(30) DEF HeldInv
<1>6. WireInv'
  BY Zenon DEF WireInv
<1>7. \A t, w : Ours(t, w) /\ t # worker.tag => Ours(t, w)'
  BY Zenon DEF Ours
<1>8. \A k \in clunks' : k.st = "send" => k \in clunks
  BY ZenonT(30) DEF HoldingClunks
<1>9. CallInv'
  BY <1>1, <1>2, <1>7, <1>8, Zenon DEF CallInv
<1> QED
  BY <1>3, <1>4, <1>5, <1>6, <1>9, Zenon

\* returnTag puts the tag of the delivered reply on the free list.
LEMMA Returns ==
  ASSUME TagInv, Types', worker.st = "return", ~Busy',
         tags' = Append(tags, worker.tag), lastTag' = lastTag,
         proc' = proc, clunks' = clunks, net' = net, replies' = replies
  PROVE  TagInv'
<1> USE DEF TagInv
<1>1. \A h \in Procs : (Holding(h)' <=> Holding(h)) /\ (Sending(h)' <=> Sending(h))
  BY Zenon DEF Holding, Sending
<1>2. HoldingClunks' = HoldingClunks
  BY Zenon DEF HoldingClunks
<1>3. \A t : /\ Wired(t)' => Wired(t) /\ t # worker.tag
             /\ Held(t)' <=> Held(t)
  BY <1>1, <1>2, Zenon DEF Wired, Held, WireInv, Busy
<1>4. Wired(worker.tag) /\ ~Held(worker.tag) /\ worker.tag \in Nat
  <2>1. Wired(worker.tag) /\ worker.tag \in Nat
    BY ZenonT(30) DEF Wired, Types, WorkerType
  <2>2. ~Held(worker.tag)
    BY Zenon DEF Held, CallInv, Ours
  <2> QED
    BY <2>1, <2>2, Zenon
<1>5. worker.tag <= lastTag
  BY <1>4, Zenon DEF FreshInv
<1>6. FreeInv'
  <2>1. /\ Len(tags') = Len(tags) + 1 /\ tags'[Len(tags) + 1] = worker.tag
        /\ \A i \in 1..Len(tags) : tags'[i] = tags[i]
    BY DEF Types
  <2>2. \A i \in 1..Len(tags) : tags[i] # worker.tag
    BY <1>4, Zenon DEF FreeInv
  <2>3. Len(tags) \in Nat
    BY DEF Types
  <2>4. Distinct(tags)'
    BY <2>1, <2>2, <2>3, SMTT(30) DEF FreeInv, Distinct
  <2>5. \A i \in 1..Len(tags') : tags'[i] = worker.tag \/ \E j \in 1..Len(tags) : tags'[i] = tags[j]
    BY <2>1, <2>3
  <2>6. \A i \in 1..Len(tags') : tags'[i] <= lastTag'
    BY <1>5, <2>5, Zenon DEF FreeInv
  <2>7. \A i \in 1..Len(tags') : ~Wired(tags[i])' /\ ~Held(tags[i])'
    BY <1>3, <1>4, <2>5, Zenon DEF FreeInv
  <2> QED
    BY <2>4, <2>6, <2>7, Zenon DEF FreeInv
<1>7. FreshInv'
  BY <1>3, Zenon DEF FreshInv
<1>8. HeldInv'
  BY <1>1, <1>2, Zenon DEF HeldInv
<1>9. WireInv'
  BY Zenon DEF WireInv, Busy
<1>10. \A t, w : Ours(t, w) => Ours(t, w)'
  BY ZenonT(30) DEF Ours, Busy
<1>11. CallInv'
  BY <1>1, <1>2, <1>3, <1>10, Zenon DEF CallInv
<1> QED
  BY <1>6, <1>7, <1>8, <1>9, <1>11, Zenon

\* flushAll takes the tags in N and writes a Tflush with each of them, or none.
LEMMA Flushes ==
  ASSUME TagInv, Types', NoNewCalls, clunks' = clunks, replies' = replies, worker' = worker,
         lastTag <= lastTag', Distinct(tags)', NEW N \in SUBSET Nat,
         \A t \in N : t <= lastTag' /\ ~Wired(t) /\ ~Held(t),
         \A i \in 1..Len(tags') : tags'[i] \notin N /\ \E j \in 1..Len(tags) : tags[j] = tags'[i],
         \/ net' = net
         \/ net' = net \cup {Request("Tflush", t, NoFid, NoPath, "flush") : t \in N}
  PROVE  TagInv'
<1> USE DEF TagInv, NoNewCalls
<1>1. \A h \in Procs : (Sending(h)' => Holding(h)') /\ (Sending(h) => Holding(h))
  BY Zenon DEF Holding, Sending
<1>2. HoldingClunks' = HoldingClunks
  BY Zenon DEF HoldingClunks
<1>3. /\ \A m \in net' : m \in net \/ m.tag \in N
      /\ \A m, n \in net' : m.tag = n.tag /\ m.tag \in N => m = n
  <2>1. \A m \in net : m.tag \notin N
    BY Zenon DEF Wired
  <2>2. \A m \in net' \ net : \E t \in N : m = Request("Tflush", t, NoFid, NoPath, "flush")
    BY Zenon
  <2>3. \A m \in net' \ net :
          m.tag \in N /\ m = Request("Tflush", m.tag, NoFid, NoPath, "flush")
    BY <2>2, SMTT(30) DEF Request
  <2> QED
    BY <2>1, <2>3
<1>4. \A t : (Wired(t)' => Wired(t) \/ t \in N) /\ (Held(t)' => Held(t))
  BY <1>2, <1>3, SMTT(30) DEF Wired, Held
<1>5. FreeInv'
  <2>1. ASSUME NEW i \in 1..Len(tags') PROVE tags'[i] <= lastTag'
    <3>1. PICK j \in 1..Len(tags) : tags[j] = tags'[i]
      BY Zenon
    <3>2. tags[j] \in Nat /\ lastTag \in Nat /\ lastTag' \in Nat
      BY SMTT(30) DEF Types
    <3>3. tags[j] <= lastTag
      BY Zenon DEF FreeInv
    <3> QED
      BY <3>1, <3>2, <3>3, SMTT(30)
  <2> QED
    BY <1>4, <2>1, Zenon DEF FreeInv
<1>6. FreshInv'
  BY <1>4, SMTT(30) DEF FreshInv, Types
<1>7. HeldInv'
  BY <1>2, SMTT(30) DEF HeldInv
<1>8. WireInv'
  <2>1. \A m, n \in net' : m.tag = n.tag => m = n
    BY <1>3, Zenon DEF WireInv
  <2>2. \A m \in net', i \in 1..Len(replies) : m.tag # replies[i].tag
    BY <1>3, Zenon DEF WireInv, Wired
  <2>3. Busy => \A m \in net' : m.tag # worker.tag
    BY <1>3, ZenonT(30) DEF WireInv, Wired, Busy
  <2>4. /\ \A i, j \in 1..Len(replies) : replies[i].tag = replies[j].tag => i = j
        /\ Busy => \A i \in 1..Len(replies) : replies[i].tag # worker.tag
    BY Zenon DEF WireInv, Busy
  <2> HIDE DEF TagInv, NoNewCalls
  <2>5. /\ \A i, j \in 1..Len(replies') : replies'[i].tag = replies'[j].tag => i = j
        /\ \A m \in net', i \in 1..Len(replies') : m.tag # replies'[i].tag
    BY <2>2, <2>4, ZenonT(30)
  <2>6. worker'.st \in {"deliver", "return"} =>
          /\ \A m \in net' : m.tag # worker'.tag
          /\ \A i \in 1..Len(replies') : replies'[i].tag # worker'.tag
    BY <2>3, <2>4, ZenonT(30) DEF Busy
  <2> QED
    BY <2>1, <2>5, <2>6, ZenonT(30) DEF WireInv
<1>9. \A t, w : Ours(t, w) /\ t \notin N => Ours(t, w)'
  BY <1>3, Zenon DEF Ours
<1>10. \A t : Held(t) => t \notin N
  BY ZenonT(30)
<1>11. /\ \A h \in Procs : Holding(h) => proc[h].tag \notin N
       /\ \A k \in HoldingClunks : k.tag \notin N
  BY <1>10, Zenon DEF Held
<1>12. CallInv'
  <2>1. \A h \in Procs : Sending(h)' => ~Wired(proc[h].tag)'
    <3> SUFFICES ASSUME NEW h \in Procs, Sending(h)' PROVE ~Wired(proc[h].tag)'
      BY Zenon
    <3>1. Holding(h) /\ Sending(h) /\ proc'[h].tag = proc[h].tag
      BY <1>1, ZenonT(30)
    <3>2. ~Wired(proc[h].tag) /\ proc[h].tag \notin N
      BY <1>11, <3>1, Zenon DEF CallInv
    <3> QED
      BY <1>4, <3>1, <3>2, Zenon
  <2>2. \A h \in Procs : Holding(h)' => Ours(proc[h].tag, h)'
    BY <1>9, <1>11, ZenonT(30) DEF CallInv
  <2>3. \A k \in clunks' : k.st = "send" => ~Wired(k.tag)'
    BY <1>4, <1>11, ZenonT(30) DEF CallInv, HoldingClunks
  <2>4. \A k \in HoldingClunks' : Ours(k.tag, "clunk")'
    BY <1>2, <1>9, <1>11, Zenon DEF CallInv
  <2> QED
    BY <2>1, <2>2, <2>3, <2>4, ZenonT(30) DEF CallInv
<1> QED
  BY <1>5, <1>6, <1>7, <1>8, <1>12, ZenonT(30)

-------------------------------------------------------------------------------
(* The actions.                                                             *)

HoldingPCs == {"walkSend", "walkWait", "callSend", "callWait"}

\* A method that is done has no tag.
LEMMA IdleType == Idle \in ProcType /\ Idle.pc = "idle" /\ Idle.tag = 0
BY DEF Idle, ProcType, PCs

\* Wherever a method goes on after a reply, it has given up the tag of the call.
LEMMA AfterReplyType ==
  ASSUME NEW p \in ProcType, NEW res
  PROVE  AfterReply(p, res) \in ProcType /\ AfterReply(p, res).pc \notin HoldingPCs
<1> DEFINE go(pc) == [p EXCEPT !.pc = pc, !.tag = 0]
<1>1. \A pc \in PCs : go(pc) \in ProcType /\ go(pc).pc = pc
  BY Zenon DEF ProcType
<1>2. {"clunkTag", "cache", "callTag", "returnFid"} \subseteq PCs \ HoldingPCs
  BY Zenon DEF PCs, HoldingPCs
<1>3. CASE p.pc \in {"walkSend", "walkWait"}
  <2>1. \/ AfterReply(p, res) = go("clunkTag")
        \/ AfterReply(p, res) = go("cache")
        \/ AfterReply(p, res) = go("callTag")
    <3>1. CASE res # "ok"
      BY <1>3, <3>1, Zenon DEF AfterReply
    <3>2. CASE res = "ok" /\ p.op = "stat"
      BY <1>3, <3>2, Zenon DEF AfterReply
    <3>3. CASE res = "ok" /\ p.op # "stat"
      BY <1>3, <3>3, Zenon DEF AfterReply
    <3> QED
      BY <3>1, <3>2, <3>3, Zenon
  <2> HIDE DEF go
  <2> QED
    BY <1>1, <1>2, <2>1, Zenon
<1>4. CASE p.pc \notin {"walkSend", "walkWait"} /\ p.op \in {"open", "create"}
  <2>1. AfterReply(p, res) = IF res = "ok" THEN Idle ELSE go("clunkTag")
    BY <1>4, Zenon DEF AfterReply
  <2>2. Idle.pc \notin HoldingPCs
    BY IdleType, Zenon DEF HoldingPCs
  <2> HIDE DEF go
  <2> QED
    BY <1>1, <1>2, <2>1, <2>2, IdleType, Zenon
<1>5. CASE p.pc \notin {"walkSend", "walkWait"} /\ p.op = "remove"
  <2>1. AfterReply(p, res) = IF res = "rerror" THEN [go("clunkTag") EXCEPT !.refused = TRUE]
                                               ELSE go("returnFid")
    BY <1>5, Zenon DEF AfterReply
  <2>2. \A q \in ProcType : /\ [q EXCEPT !.refused = TRUE] \in ProcType
                            /\ [q EXCEPT !.refused = TRUE].pc = q.pc
    BY Zenon DEF ProcType
  <2> HIDE DEF go
  <2>3. go("clunkTag") \in ProcType /\ go("clunkTag").pc = "clunkTag"
    BY <1>1, <1>2, Zenon
  <2>4. go("returnFid") \in ProcType /\ go("returnFid").pc = "returnFid"
    BY <1>1, <1>2, Zenon
  <2> QED
    BY <1>2, <2>1, <2>2, <2>3, <2>4, Zenon
<1>6. CASE /\ p.pc \notin {"walkSend", "walkWait"} /\ p.op \notin {"open", "create", "remove"}
           /\ p.op = "write" /\ res = "ok" /\ p.left > 1
  <2>1. AfterReply(p, res) = [go("callTag") EXCEPT !.left = @ - 1]
    BY <1>6, Zenon DEF AfterReply
  <2>2. \A q \in ProcType : /\ [q EXCEPT !.left = @ - 1] \in ProcType
                            /\ [q EXCEPT !.left = @ - 1].pc = q.pc
    BY DEF ProcType
  <2> HIDE DEF go
  <2>3. go("callTag") \in ProcType /\ go("callTag").pc = "callTag"
    BY <1>1, <1>2, Zenon
  <2> QED
    BY <1>2, <2>1, <2>2, <2>3, Zenon
<1>7. CASE /\ p.pc \notin {"walkSend", "walkWait"} /\ p.op \notin {"open", "create", "remove"}
           /\ ~(p.op = "write" /\ res = "ok" /\ p.left > 1)
  <2>1. AfterReply(p, res) = Idle
    BY <1>7, Zenon DEF AfterReply
  <2> QED
    BY <2>1, IdleType, Zenon DEF HoldingPCs
<1> QED
  BY <1>3, <1>4, <1>5, <1>6, <1>7, Zenon

\* The smaller of two numbers.
LEMMA MinPair ==
  ASSUME NEW a \in Nat, NEW b \in Nat
  PROVE  Min({a, b}) \in Nat /\ Min({a, b}) <= a /\ Min({a, b}) <= b
<1>1. \E x \in {a, b} : \A y \in {a, b} : x <= y
  OBVIOUS
<1>2. Min({a, b}) \in {a, b} /\ \A y \in {a, b} : Min({a, b}) <= y
  BY <1>1, Zenon DEF Min
<1> QED
  BY <1>2, Zenon

\* The last n elements of a sequence of numbers.
LEMMA Suffix ==
  ASSUME NEW s \in Seq(Nat), NEW n \in 0..Len(s)
  PROVE  \A x \in Range(SubSeq(s, Len(s) - n + 1, Len(s))) :
           \E i \in (Len(s) - n + 1)..Len(s) : x = s[i]
<1> DEFINE m == Len(s) - n + 1
           u == SubSeq(s, m, Len(s))
<1>0. Len(s) \in Nat /\ m \in Nat /\ m >= 1 /\ m <= Len(s) + 1
  OBVIOUS
<1>1. \A i \in m..Len(s) : s[i] \in Nat
  BY <1>0, SMTT(30)
<1>2. /\ u \in Seq(Nat)
      /\ Len(u) = IF m <= Len(s) THEN Len(s) - m + 1 ELSE 0
      /\ \A i \in 1..(Len(s) - m + 1) : u[i] = s[m + i - 1]
  <2> HIDE DEF m
  <2> QED
    BY <1>0, <1>1
<1>3. ASSUME NEW x \in Range(u) PROVE \E i \in m..Len(s) : x = s[i]
  <2> HIDE DEF u, m
  <2>1. PICK i \in 1..Len(u) : x = u[i]
    BY <1>2, SMTT(30) DEF Range
  <2>2. i \in 1..(Len(s) - m + 1) /\ m + i - 1 \in m..Len(s)
    <3>1. i \in 1..(IF m <= Len(s) THEN Len(s) - m + 1 ELSE 0)
      BY <1>2, <2>1, Zenon
    <3> QED
      BY <1>0, <3>1
  <2>3. x = s[m + i - 1]
    BY <1>2, <2>1, <2>2, Zenon
  <2> QED
    BY <2>2, <2>3, Zenon
<1> QED
  BY <1>3, Zenon

\* The first state has no tags in use.
LEMMA TagInvInit == Init => TagInv
<1> SUFFICES ASSUME Init PROVE TagInv
  BY Zenon
<1> USE DEF Init
<1>1. Types
  BY IdleType, SMTT(30) DEF Types, WorkerType
<1>2. /\ \A g \in Procs : ~Holding(g) /\ ~Sending(g)
      /\ HoldingClunks = {} /\ Len(tags) = 0 /\ Len(replies) = 0
  BY IdleType, Zenon DEF Holding, Sending, HoldingClunks
<1>3. \A t : ~Wired(t) /\ ~Held(t)
  BY <1>2 DEF Wired, Held
<1> QED
  BY <1>1, <1>2, <1>3 DEF TagInv, FreeInv, FreshInv, HeldInv, WireInv, CallInv, Distinct

\* A step of one goroutine that changes neither the tags nor the wire, and after
\* which the goroutine has no tag or the one it had.
LEMMA OneQuiet ==
  ASSUME TagInv, NEW g \in Procs, NEW p \in ProcType, proc' = [proc EXCEPT ![g] = p],
         p.pc \in HoldingPCs => p.pc = proc[g].pc /\ p.tag = proc[g].tag,
         pathCache' \in [Paths -> Fid \cup {NoFid}],
         tags' = tags, lastTag' = lastTag, net' = net, replies' = replies,
         worker' = worker, clunks' = clunks, files' = files
  PROVE  TagInv'
<1>1. Types'
  BY Zenon DEF TagInv, Types
<1>2. proc'[g] = p /\ \A h \in Procs \ {g} : proc'[h] = proc[h]
  BY Zenon DEF TagInv, Types
<1>3. NoNewCalls
  BY <1>2, Zenon DEF NoNewCalls, Holding, Sending, HoldingPCs
<1>4. QuietStep
  BY <1>3, Zenon DEF QuietStep, HoldingClunks
<1> QED
  BY <1>1, <1>4, Quiet, Zenon

\* A method call that takes a tag.
LEMMA OneTakes ==
  ASSUME TagInv, NEW g \in Procs, NEW p \in ProcType, proc' = [proc EXCEPT ![g] = p],
         NEW f, NEW t \in Tag, lockedTakeTag(f, t), p.tag = t, p.pc \in {"walkSend", "callSend"},
         net' = net, replies' = replies, worker' = worker, clunks' = clunks, files' = files,
         pathCache' = pathCache
  PROVE  TagInv'
<1>1. proc'[g] = p /\ \A h \in Procs \ {g} : proc'[h] = proc[h]
  BY Zenon DEF TagInv, Types
<1>2. TakeStep(t) /\ tags' \in Seq(Nat)
  BY TakeTag, Zenon DEF TakeStep
<1>3. Types'
  BY <1>2, Zenon DEF TagInv, Types, TakeStep
<1>4. Sending(g)' /\ proc'[g].tag = t
  BY <1>1, Zenon DEF Sending
<1> QED
  BY <1>1, <1>2, <1>3, <1>4, CallTakes, Zenon

\* A method call that writes its request.
LEMMA OneSends ==
  ASSUME TagInv, NEW g \in Procs, NEW m \in MessageType, getResponse(m),
         m.tag = proc[g].tag, m.who = g, Sending(g),
         NEW w \in {"walkWait", "callWait"},
         proc' = [proc EXCEPT ![g] = AfterSend(@, w)],
         tags' = tags, lastTag' = lastTag, worker' = worker, clunks' = clunks,
         files' = files, pathCache' = pathCache
  PROVE  TagInv'
<1>1. proc'[g] = AfterSend(proc[g], w) /\ \A h \in Procs \ {g} : proc'[h] = proc[h]
  BY Zenon DEF TagInv, Types
<1>2. proc[g] \in ProcType
  BY Zenon DEF TagInv, Types
<1>3. CASE conn = "up"
  <2>1. proc'[g] = [proc[g] EXCEPT !.pc = w] /\ net' = net \cup {m} /\ replies' = replies
    BY <1>1, <1>3, Zenon DEF AfterSend, getResponse
  <2>2. proc'[g] \in ProcType /\ proc'[g].pc = w /\ proc'[g].tag = proc[g].tag
    BY <1>2, <2>1, SMTT(30) DEF ProcType, PCs
  <2>3. proc' \in [Procs -> ProcType]
    BY <1>1, <2>2, Zenon DEF TagInv, Types
  <2>4. Types'
    BY <2>1, <2>3, Zenon DEF TagInv, Types
  <2>5. Holding(g)' /\ ~Sending(g)'
    BY <2>2, Zenon DEF Holding, Sending
  <2> QED
    BY <1>1, <2>1, <2>2, <2>4, <2>5, CallSends, Zenon
<1>4. CASE conn # "up"
  <2>1. proc'[g] = AfterReply(proc[g], "err") /\ net' = net /\ replies' = replies
    BY <1>1, <1>4, ZenonT(30) DEF AfterSend, getResponse
  <2>2. AfterReply(proc[g], "err") \in ProcType /\ AfterReply(proc[g], "err").pc \notin HoldingPCs
    BY <1>2, AfterReplyType, Zenon
  <2>3. proc' = [proc EXCEPT ![g] = AfterReply(proc[g], "err")]
    BY <2>1, ZenonT(30)
  <2>4. pathCache' \in [Paths -> Fid \cup {NoFid}]
    BY ZenonT(30) DEF TagInv, Types
  <2> QED
    BY <2>1, <2>2, <2>3, <2>4, OneQuiet, Zenon
<1> QED
  BY <1>3, <1>4, ZenonT(30)

\* The steps of a method call, File.Close apart, keep tags apart.
LEMMA MethodSteps ==
  ASSUME TagInv, NEW g \in Procs,
         \/ \E op \in Ops, path \in Paths : StartWalk(g, op, path)
         \/ \E path \in Paths : StartStat(g, path)
         \/ \E op \in Ops, file \in files : StartIO(g, op, file)
         \/ Continue(g)
  PROVE  TagInv'
<1> DEFINE Cache == [Paths -> Fid \cup {NoFid}]
<1>0. /\ proc \in [Procs -> ProcType] /\ proc[g] \in ProcType /\ pathCache \in Cache
      /\ files \subseteq [fid : Fid \cup {NoFid}, path : Paths \cup {NoPath}]
  BY Zenon DEF TagInv, Types
<1>1. ASSUME NEW op \in Ops, NEW path \in Paths, StartWalk(g, op, path) PROVE TagInv'
  <2>1. PICK f \in Fid : proc' = [proc EXCEPT ![g] =
              [Idle EXCEPT !.pc = "walkTag", !.op = op, !.path = path, !.fid = f]]
    BY <1>1, Zenon DEF StartWalk
  <2> DEFINE p == [Idle EXCEPT !.pc = "walkTag", !.op = op, !.path = path, !.fid = f]
  <2>2. p \in ProcType /\ p.pc = "walkTag"
    BY IdleType, Zenon DEF ProcType, PCs
  <2>3. /\ tags' = tags /\ lastTag' = lastTag /\ net' = net /\ replies' = replies
        /\ worker' = worker /\ clunks' = clunks /\ files' = files /\ pathCache' = pathCache
    BY <1>1, Zenon DEF StartWalk, tagVars, wireVars
  <2> HIDE DEF p
  <2> QED
    BY <1>0, <2>1, <2>2, <2>3, OneQuiet, Zenon DEF HoldingPCs, p
<1>2. ASSUME NEW path \in Paths, StartStat(g, path) PROVE TagInv'
  <2> DEFINE pc == IF pathCache[path] = NoFid THEN "takeFid" ELSE "callTag"
             p == [Idle EXCEPT !.pc = pc, !.op = "stat", !.path = path, !.fid = pathCache[path]]
  <2>1. proc' = [proc EXCEPT ![g] = p]
    BY <1>2, Zenon DEF StartStat
  <2>2. pc \in PCs \ HoldingPCs /\ "stat" \in Ops /\ pathCache[path] \in Fid \cup {NoFid}
    BY <1>0, <1>2, Zenon DEF PCs, HoldingPCs, StartStat, Begin
  <2>3. p \in ProcType /\ p.pc = pc
    <3> HIDE DEF pc
    <3> QED
      BY <2>2, IdleType, Zenon DEF ProcType
  <2>4. /\ tags' = tags /\ lastTag' = lastTag /\ net' = net /\ replies' = replies
        /\ worker' = worker /\ clunks' = clunks /\ files' = files /\ pathCache' = pathCache
    BY <1>2, Zenon DEF StartStat, tagVars, wireVars
  <2> HIDE DEF p, pc
  <2> QED
    BY <1>0, <2>1, <2>2, <2>3, <2>4, OneQuiet, Zenon
<1>3. ASSUME NEW op \in Ops, NEW file \in files, StartIO(g, op, file) PROVE TagInv'
  <2>1. PICK n \in 1..(IF op = "write" THEN MaxChunks ELSE 1), t \in Tag :
          /\ lockedTakeTag(file.fid, t)
          /\ proc' = [proc EXCEPT ![g] =
                        [Idle EXCEPT !.pc = "callSend", !.op = op, !.path = file.path,
                                     !.fid = file.fid, !.left = n, !.tag = t]]
    BY <1>3, ZenonT(30) DEF StartIO
  <2> DEFINE p == [Idle EXCEPT !.pc = "callSend", !.op = op, !.path = file.path,
                               !.fid = file.fid, !.left = n, !.tag = t]
  <2>2. n \in Int /\ t \in Nat /\ file.fid \in Fid \cup {NoFid} /\ file.path \in Paths \cup {NoPath}
    BY <1>0, ClientAssumption DEF Tag
  <2>3. p \in ProcType /\ p.pc = "callSend" /\ p.tag = t
    BY <2>2, IdleType, Zenon DEF ProcType, PCs
  <2>4. /\ net' = net /\ replies' = replies /\ worker' = worker /\ clunks' = clunks
        /\ files' = files /\ pathCache' = pathCache
    BY <1>3, Zenon DEF StartIO, wireVars
  <2> HIDE DEF p
  <2> QED
    BY <2>1, <2>3, <2>4, OneTakes, Zenon DEF p
<1>4. CASE StatTakeFid(g)
  <2>1. PICK f \in Fid : proc' = [proc EXCEPT ![g].pc = "walkTag", ![g].fid = f]
    BY <1>4, Zenon DEF StatTakeFid
  <2> DEFINE p == [proc[g] EXCEPT !.pc = "walkTag", !.fid = f]
  <2>2. p \in ProcType /\ p.pc = "walkTag" /\ proc' = [proc EXCEPT ![g] = p]
    BY <1>0, <2>1, Zenon DEF ProcType, PCs
  <2>3. /\ tags' = tags /\ lastTag' = lastTag /\ net' = net /\ replies' = replies
        /\ worker' = worker /\ clunks' = clunks /\ files' = files /\ pathCache' = pathCache
    BY <1>4, Zenon DEF StatTakeFid, tagVars, wireVars
  <2> HIDE DEF p
  <2> QED
    BY <1>0, <2>2, <2>3, OneQuiet, Zenon DEF HoldingPCs
<1>5. CASE WalkTakeTag(g)
  <2>1. PICK t \in Tag : /\ lockedTakeTag(0, t)
                         /\ proc' = [proc EXCEPT ![g].pc = "walkSend", ![g].tag = t]
    BY <1>5, Zenon DEF WalkTakeTag
  <2> DEFINE p == [proc[g] EXCEPT !.pc = "walkSend", !.tag = t]
  <2>2. t \in Nat
    BY ClientAssumption DEF Tag
  <2>3. p \in ProcType /\ p.pc = "walkSend" /\ p.tag = t /\ proc' = [proc EXCEPT ![g] = p]
    BY <1>0, <2>1, <2>2, Zenon DEF ProcType, PCs
  <2>4. /\ net' = net /\ replies' = replies /\ worker' = worker /\ clunks' = clunks
        /\ files' = files /\ pathCache' = pathCache
    BY <1>5, Zenon DEF WalkTakeTag, wireVars
  <2> HIDE DEF p
  <2> QED
    BY <2>1, <2>3, <2>4, OneTakes, Zenon
<1>6. CASE WalkSend(g)
  <2> DEFINE m == Request("Twalk", proc[g].tag, proc[g].fid, Target(proc[g]), g)
  <2>1. m \in MessageType /\ m.tag = proc[g].tag /\ m.who = g
    BY <1>0, Zenon DEF Request, MessageType, Target, ProcType, Node, Callers
  <2>2. getResponse(m) /\ Sending(g) /\ proc' = [proc EXCEPT ![g] = AfterSend(@, "walkWait")]
    BY <1>6, Zenon DEF WalkSend, Sending
  <2>3. /\ tags' = tags /\ lastTag' = lastTag /\ worker' = worker /\ clunks' = clunks
        /\ files' = files /\ pathCache' = pathCache
    BY <1>6, Zenon DEF WalkSend, tagVars
  <2> HIDE DEF m
  <2> QED
    BY <2>1, <2>2, <2>3, OneSends, ZenonT(30)
<1>7. CASE CacheFid(g)
  <2> DEFINE p == [proc[g] EXCEPT !.pc = "callTag"]
  <2>1. p \in ProcType /\ p.pc = "callTag" /\ proc' = [proc EXCEPT ![g] = p]
    BY <1>0, <1>7, Zenon DEF CacheFid, ProcType, PCs
  <2>2. pathCache' \in Cache
    BY <1>0, <1>7, Zenon DEF CacheFid, ProcType
  <2>3. /\ tags' = tags /\ lastTag' = lastTag /\ net' = net /\ replies' = replies
        /\ worker' = worker /\ clunks' = clunks /\ files' = files
    BY <1>7, Zenon DEF CacheFid, tagVars, wireVars
  <2> HIDE DEF p
  <2> QED
    BY <2>1, <2>2, <2>3, OneQuiet, Zenon DEF HoldingPCs
<1>8. CASE CallTakeTag(g)
  <2>1. PICK t \in Tag : /\ lockedTakeTag(proc[g].fid, t)
                         /\ proc' = [proc EXCEPT ![g].pc = "callSend", ![g].tag = t]
    BY <1>8, Zenon DEF CallTakeTag
  <2> DEFINE p == [proc[g] EXCEPT !.pc = "callSend", !.tag = t]
  <2>2. t \in Nat
    BY ClientAssumption DEF Tag
  <2>3. p \in ProcType /\ p.pc = "callSend" /\ p.tag = t /\ proc' = [proc EXCEPT ![g] = p]
    BY <1>0, <2>1, <2>2, Zenon DEF ProcType, PCs
  <2>4. /\ net' = net /\ replies' = replies /\ worker' = worker /\ clunks' = clunks
        /\ files' = files /\ pathCache' = pathCache
    BY <1>8, Zenon DEF CallTakeTag, wireVars
  <2> HIDE DEF p
  <2> QED
    BY <2>1, <2>3, <2>4, OneTakes, Zenon
<1>9. CASE CallSend(g)
  <2> DEFINE m == Request(proc[g].op, proc[g].tag, proc[g].fid, proc[g].path, g)
  <2>1. m \in MessageType /\ m.tag = proc[g].tag /\ m.who = g
    BY <1>0, Zenon DEF Request, MessageType, ProcType, Node, Callers
  <2>2. getResponse(m) /\ Sending(g) /\ proc' = [proc EXCEPT ![g] = AfterSend(@, "callWait")]
    BY <1>9, Zenon DEF CallSend, Sending
  <2>3. /\ tags' = tags /\ lastTag' = lastTag /\ worker' = worker /\ clunks' = clunks
        /\ files' = files /\ pathCache' = pathCache
    BY <1>9, Zenon DEF CallSend, tagVars
  <2> HIDE DEF m
  <2> QED
    BY <2>1, <2>2, <2>3, OneSends, ZenonT(30)
<1>10. CASE ClunkTakeTag(g)
  <2>1. PICK t \in Tag :
          /\ lockedTakeTag(0, t)
          /\ clunks' = clunks \cup {[fid |-> proc[g].fid, tag |-> t, st |-> "send"]}
    BY <1>10, Zenon DEF ClunkTakeTag
  <2> DEFINE k == [fid |-> proc[g].fid, tag |-> t, st |-> "send"]
             pc == IF proc[g].refused THEN "returnFid" ELSE "drop"
             p == IF proc[g].op # "remove" THEN Idle ELSE [proc[g] EXCEPT !.pc = pc]
  <2>2. t \in Nat
    BY ClientAssumption DEF Tag
  <2>3. k \in ClunkType /\ k.tag = t /\ k.st = "send"
    BY <1>0, <2>2, Zenon DEF ClunkType, ProcType
  <2>4. p \in ProcType /\ p.pc \notin HoldingPCs
    <3>1. [proc[g] EXCEPT !.pc = pc] \in ProcType /\ [proc[g] EXCEPT !.pc = pc].pc = pc
      BY <1>0, Zenon DEF ProcType, PCs
    <3>2. pc \notin HoldingPCs /\ Idle.pc \notin HoldingPCs
      BY IdleType, Zenon DEF HoldingPCs
    <3> HIDE DEF pc
    <3> QED
      BY <3>1, <3>2, IdleType, Zenon
  <2>5. proc' = [proc EXCEPT ![g] = p]
    BY <1>10, Zenon DEF ClunkTakeTag
  <2>6. /\ net' = net /\ replies' = replies /\ worker' = worker
        /\ files' = files /\ pathCache' = pathCache
    BY <1>10, Zenon DEF ClunkTakeTag, wireVars
  <2> HIDE DEF p, k
  <2>7. proc'[g] = p /\ \A h \in Procs \ {g} : proc'[h] = proc[h]
    BY <1>0, <2>5, ZenonT(30)
  <2>8. NoNewCalls
    BY <2>4, <2>7, ZenonT(30) DEF NoNewCalls, Holding, Sending, HoldingPCs
  <2>9. TakeStep(t) /\ tags' \in Seq(Nat)
    BY <2>1, <2>6, TakeTag, Zenon DEF TakeStep
  <2>10. clunks' = clunks \cup {k}
    BY <2>1, ZenonT(30) DEF k
  <2>11. Types'
    BY <1>0, <2>3, <2>4, <2>5, <2>6, <2>9, <2>10, Zenon DEF TagInv, Types, TakeStep
  <2> QED
    BY <2>3, <2>8, <2>9, <2>10, <2>11, ClunkTakes, Zenon
<1>11. CASE RemoveReturnFid(g)
  <2> DEFINE p == [proc[g] EXCEPT !.pc = "drop"]
  <2>1. p \in ProcType /\ p.pc = "drop" /\ proc' = [proc EXCEPT ![g] = p]
    BY <1>0, <1>11, Zenon DEF RemoveReturnFid, ProcType, PCs
  <2>2. /\ tags' = tags /\ lastTag' = lastTag /\ net' = net /\ replies' = replies
        /\ worker' = worker /\ clunks' = clunks /\ files' = files /\ pathCache' = pathCache
    BY <1>11, Zenon DEF RemoveReturnFid, tagVars, wireVars
  <2> HIDE DEF p
  <2> QED
    BY <1>0, <2>1, <2>2, OneQuiet, Zenon DEF HoldingPCs
<1>12. CASE DropCachedFid(g)
  <2>1. proc' = [proc EXCEPT ![g] = Idle] /\ pathCache' \in Cache
    BY <1>0, <1>12, ZenonT(30) DEF DropCachedFid
  <2>2. /\ tags' = tags /\ lastTag' = lastTag /\ net' = net /\ replies' = replies
        /\ worker' = worker /\ clunks' = clunks /\ files' = files
    BY <1>12, Zenon DEF DropCachedFid, tagVars, wireVars
  <2> QED
    BY <2>1, <2>2, IdleType, OneQuiet, Zenon DEF HoldingPCs
<1> QED
  BY <1>1, <1>2, <1>3, <1>4, <1>5, <1>6, <1>7, <1>8, <1>9, <1>10, <1>11, <1>12, Zenon DEF Continue

\* flushAll counts the tags it finds in tagFids: a set of tags has a cardinality.
TagCounts == \A S \in SUBSET Tag : Cardinality(S) \in Nat

\* The number of calls flushAll finds in tagFids for a fid is a number.
LEMMA FlushCount ==
  ASSUME TagCounts, NEW f
  PROVE  LET n == Cardinality({t \in Tag : tagFids[t] = f})
         IN  n \in Nat /\ Min({1, n}) \in Nat
<1> DEFINE S == {t \in Tag : tagFids[t] = f}
<1>1. Cardinality(S) \in Nat
  BY Zenon DEF TagCounts
<1> HIDE DEF S
<1>2. Min({1, Cardinality(S)}) \in Nat
  BY <1>1, MinPair, Zenon
<1> QED
  BY <1>1, <1>2, Zenon DEF S

\* File.Close keeps tags apart: the tags flushAll takes are unused, and the calls
\* it wakes give up theirs.
LEMMA CloseStep ==
  ASSUME TagCounts, TagInv, NEW g \in Procs, NEW file \in files, StartClose(g, file)
  PROVE  TagInv'
<1> DEFINE S      == {t \in Tag : tagFids[t] = file.fid}
           n      == IF conn = "up" THEN Cardinality(S) ELSE Min({1, Cardinality(S)})
           popped == Min({n, Len(tags)})
           reused == Range(SubSeq(tags, Len(tags) - popped + 1, Len(tags)))
           fresh  == (lastTag + 1)..(lastTag + n - popped)
           N      == reused \cup fresh
           closing == [Idle EXCEPT !.pc = "clunkTag", !.op = "close",
                                   !.path = file.path, !.fid = file.fid]
<1>0. /\ proc \in [Procs -> ProcType] /\ tags \in Seq(Nat) /\ lastTag \in Nat
      /\ Len(tags) \in Nat
      /\ file.fid \in Fid \cup {NoFid} /\ file.path \in Paths \cup {NoPath} /\ "close" \in Ops
  <2>1. Begin(g, "close")
    BY Zenon DEF StartClose
  <2> QED
    BY <2>1 DEF TagInv, Types, Begin
<1>1. n \in Nat
  BY FlushCount, ZenonT(30)
<1>2. popped \in Nat /\ popped <= n /\ popped \in 0..Len(tags)
  <2> HIDE DEF n
  <2> QED
    BY <1>0, <1>1, MinPair, SMTT(20)
<1>3. /\ lastTag' = lastTag + n - popped
      /\ tags' = SubSeq(tags, 1, Len(tags) - popped)
      /\ \/ net' = net
         \/ net' = net \cup {Request("Tflush", t, NoFid, NoPath, "flush") : t \in N}
      /\ files' = files \ {file}
      /\ pathCache' = pathCache /\ clunks' = clunks /\ replies' = replies /\ worker' = worker
  BY Zenon DEF StartClose
<1>4. /\ \A h \in Procs : proc'[h] \in {Idle, closing, proc[h], AfterReply(proc[h], "err")}
      /\ DOMAIN proc' = Procs /\ proc' = [h \in Procs |-> proc'[h]]
  BY Zenon DEF StartClose
<1> HIDE DEF S, n, popped
<1>5. /\ tags' \in Seq(Nat) /\ Len(tags') = Len(tags) - popped
      /\ \A i \in 1..Len(tags') : tags'[i] = tags[i] /\ i \in 1..Len(tags)
                                  /\ i < Len(tags) - popped + 1
  <2>1. Len(tags) - popped \in 0..Len(tags)
    BY <1>0, <1>2, SMTT(30)
  <2>2. /\ tags' \in Seq(Nat) /\ Len(tags') = Len(tags) - popped
        /\ \A i \in 1..(Len(tags) - popped) : tags'[i] = tags[i]
    BY <1>0, <1>3, <2>1, Prefix, ZenonT(30)
  <2> QED
    BY <1>0, <1>2, <2>2, SMTT(30)
<1>6. \A t \in reused : \E i \in (Len(tags) - popped + 1)..Len(tags) : t = tags[i]
  BY <1>0, <1>2, Suffix, Zenon
<1>7. \A t \in reused : \E i \in 1..Len(tags) : t = tags[i]
  BY <1>0, <1>2, <1>6, SMTT(30)
<1> HIDE DEF reused
<1>8. lastTag' \in Nat /\ lastTag <= lastTag'
  BY <1>0, <1>1, <1>2, <1>3, SMTT(30)
<1>9. \A t \in N : t \in Nat /\ t <= lastTag' /\ ~Wired(t) /\ ~Held(t)
  <2>1. ASSUME NEW t \in reused PROVE t \in Nat /\ t <= lastTag' /\ ~Wired(t) /\ ~Held(t)
    <3>1. PICK i \in 1..Len(tags) : t = tags[i]
      BY <1>7, Zenon
    <3>2. t \in Nat /\ t <= lastTag /\ ~Wired(t) /\ ~Held(t)
      BY <1>0, <3>1 DEF TagInv, FreeInv
    <3> QED
      BY <1>0, <1>8, <3>2
  <2>2. ASSUME NEW t \in fresh PROVE t \in Nat /\ t <= lastTag' /\ ~Wired(t) /\ ~Held(t)
    <3>1. t \in Nat /\ t <= lastTag' /\ ~(t <= lastTag)
      BY <1>0, <1>1, <1>2, <1>3, SMTT(30)
    <3> QED
      BY <3>1, ZenonT(30) DEF TagInv, FreshInv
  <2> QED
    BY <2>1, <2>2, Zenon
<1>10. \A i \in 1..Len(tags') : tags'[i] \notin N /\ \E j \in 1..Len(tags) : tags[j] = tags'[i]
  <2> SUFFICES ASSUME NEW i \in 1..Len(tags')
               PROVE  tags'[i] \notin N /\ \E j \in 1..Len(tags) : tags[j] = tags'[i]
    BY ZenonT(30)
  <2>1. tags'[i] = tags[i] /\ i \in 1..Len(tags) /\ i < Len(tags) - popped + 1
    BY <1>5, ZenonT(30)
  <2>2. tags[i] \notin reused
    <3> SUFFICES ASSUME tags[i] \in reused PROVE FALSE
      BY Zenon
    <3>1. PICK j \in (Len(tags) - popped + 1)..Len(tags) : tags[i] = tags[j]
      BY <1>6, ZenonT(30)
    <3>2. j \in 1..Len(tags) /\ i # j
      BY <1>0, <1>2, <2>1, <3>1, SMTT(30)
    <3>3. Distinct(tags)
      BY Zenon DEF TagInv, FreeInv
    <3> QED
      BY <2>1, <3>1, <3>2, <3>3, Zenon DEF Distinct
  <2>3. tags[i] \notin fresh
    <3>1. tags[i] \in Nat /\ tags[i] <= lastTag
      BY <1>0, <2>1, SMTT(30) DEF TagInv, FreeInv
    <3> QED
      BY <1>0, <1>1, <1>2, <3>1, SMTT(30)
  <2> QED
    BY <2>1, <2>2, <2>3, ZenonT(30)
<1>11. Distinct(tags)'
  BY <1>5, ZenonT(30) DEF TagInv, FreeInv, Distinct
<1>12. closing \in ProcType /\ closing.pc = "clunkTag"
  BY <1>0, IdleType, Zenon DEF ProcType, PCs
<1> HIDE DEF closing, N
<1>13. \A h \in Procs : /\ proc'[h] \in ProcType
                        /\ proc'[h] = proc[h] \/ proc'[h].pc \notin HoldingPCs
  BY <1>0, <1>4, <1>12, IdleType, AfterReplyType, SMTT(30) DEF HoldingPCs
<1>14. NoNewCalls
  BY <1>13, Zenon DEF NoNewCalls, Holding, Sending, HoldingPCs
<1>15. net' \subseteq MessageType
  <2>1. \A t \in N : Request("Tflush", t, NoFid, NoPath, "flush") \in MessageType
    BY <1>9, Zenon DEF Request, MessageType, Callers
  <2> QED
    BY <1>3, <2>1, SMTT(30) DEF TagInv, Types
<1>16. Types'
  <2>1. proc' \in [Procs -> ProcType]
    BY <1>4, <1>13, Zenon
  <2> QED
    BY <1>3, <1>5, <1>8, <1>15, <2>1, ZenonT(30) DEF TagInv, Types
<1>17. N \in SUBSET Nat
  BY <1>9, Zenon
<1> QED
  BY <1>3, <1>8, <1>9, <1>10, <1>11, <1>14, <1>16, <1>17, Flushes, ZenonT(30)

\* The goroutines of clunkFid keep tags apart.
LEMMA ClunkerSteps ==
  ASSUME TagInv, NEW k \in clunks, ClunkSend(k) \/ ClunkReturn(k)
  PROVE  TagInv'
<1>0. k \in ClunkType /\ \A j \in ClunkType : [j EXCEPT !.st = "wait"] \in ClunkType
                                          /\ [j EXCEPT !.st = "done"] \in ClunkType
  BY Zenon DEF TagInv, Types, ClunkType
<1>1. CASE ClunkSend(k) /\ conn = "up"
  <2> DEFINE l == [k EXCEPT !.st = "wait"]
             m == Request("Tclunk", k.tag, k.fid, NoPath, "clunk")
  <2>1. l \in ClunkType /\ l.st = "wait" /\ l.tag = k.tag
    BY <1>0, Zenon DEF ClunkType
  <2>2. m \in MessageType /\ m.tag = k.tag /\ m.who = "clunk"
    BY <1>0, Zenon DEF Request, MessageType, ClunkType, Callers
  <2>3. net' = net \cup {m} /\ replies' = replies
    BY <1>1, Zenon DEF ClunkSend, getResponse
  <2>4. /\ k.st = "send" /\ clunks' = (clunks \ {k}) \cup {l}
        /\ proc' = proc /\ tags' = tags /\ lastTag' = lastTag /\ worker' = worker
        /\ files' = files /\ pathCache' = pathCache
    BY <1>1, Zenon DEF ClunkSend, tagVars
  <2> HIDE DEF l, m
  <2>5. Types'
    BY <2>1, <2>2, <2>3, <2>4, ZenonT(30) DEF TagInv, Types
  <2> QED
    BY <2>1, <2>2, <2>3, <2>4, <2>5, ClunkSends, Zenon
<1>2. CASE (ClunkSend(k) /\ conn # "up") \/ ClunkReturn(k)
  <2> DEFINE l == [k EXCEPT !.st = "done"]
  <2>1. l \in ClunkType /\ l.st = "done"
    BY <1>0, Zenon DEF ClunkType
  <2>2. net' = net /\ replies' = replies
    BY <1>2, Zenon DEF ClunkSend, ClunkReturn, getResponse, wireVars
  <2>3. clunks' \subseteq clunks \cup {l}
    BY <1>2, Zenon DEF ClunkSend, ClunkReturn
  <2>4. /\ proc' = proc /\ tags' = tags /\ lastTag' = lastTag /\ worker' = worker
        /\ files' = files /\ pathCache' = pathCache
    BY <1>2, Zenon DEF ClunkSend, ClunkReturn, tagVars
  <2> HIDE DEF l
  <2>5. Types'
    BY <2>1, <2>2, <2>3, <2>4, ZenonT(30) DEF TagInv, Types
  <2>6. QuietStep
    BY <2>1, <2>2, <2>3, <2>4, Zenon DEF QuietStep, NoNewCalls, Holding, Sending, HoldingClunks
  <2> QED
    BY <2>5, <2>6, Quiet, Zenon
<1> QED
  BY <1>1, <1>2, Zenon

\* The worker goroutine keeps tags apart.
LEMMA WorkerSteps ==
  ASSUME TagInv, Worker
  PROVE  TagInv'
<1>1. CASE WorkerRead
  <2> DEFINE r == Head(replies)
  <2>1. replies \in Seq(ReplyType) /\ replies # <<>> /\ replies' = Tail(replies)
    BY <1>1, Zenon DEF WorkerRead, TagInv, Types
  <2>2. /\ Len(replies) \in Nat /\ 1 \in 1..Len(replies)
        /\ r = replies[1] /\ r \in ReplyType
        /\ replies' \in Seq(ReplyType) /\ Len(replies') = Len(replies) - 1
        /\ \A i \in 1..Len(replies') : replies'[i] = replies[i + 1]
                                      /\ i + 1 \in 1..Len(replies) /\ i + 1 # 1
    BY <2>1, SMTT(20)
  <2>3. /\ tags' = tags /\ lastTag' = lastTag /\ proc' = proc /\ clunks' = clunks
        /\ net' = net /\ files' = files /\ pathCache' = pathCache
        /\ worker.st = "read"
        /\ \/ worker' = worker
           \/ worker' = [st |-> "deliver", tag |-> r.tag, res |-> r.res, who |-> r.who]
    BY <1>1, ZenonT(30) DEF WorkerRead, tagVars
  <2> HIDE DEF r
  <2>4. /\ worker' \in WorkerType
        /\ \/ worker'.st = "read"
           \/ worker'.st = "deliver" /\ worker'.tag = r.tag /\ worker'.who = r.who
    BY <2>2, <2>3, SMTT(30) DEF TagInv, Types, WorkerType, ReplyType
  <2>5. Types'
    BY <2>2, <2>3, <2>4, Zenon DEF TagInv, Types
  <2>6. \A t : Wired(t)' => Wired(t)
    BY <2>2, <2>3, <2>4, ZenonT(30) DEF Wired
  <2>7. \A t, w : Ours(t, w) => Ours(t, w)'
    <3>1. \A i \in 1..Len(replies') : \E j \in 1..Len(replies) : replies'[i] = replies[j]
      BY <2>2, Zenon
    <3>2. \E j \in 1..Len(replies) : r = replies[j]
      BY <2>2, Zenon
    <3>3. worker'.st = "return" => FALSE
      BY <2>4, Zenon
    <3> QED
      BY <2>3, <2>4, <3>1, <3>2, <3>3, SMTT(30) DEF Ours
  <2>8. WireInv'
    <3>0. /\ \A i, j \in 1..Len(replies) : replies[i].tag = replies[j].tag => i = j
          /\ \A m \in net, i \in 1..Len(replies) : m.tag # replies[i].tag
      BY Zenon DEF TagInv, WireInv
    <3>1. \A i, j \in 1..Len(replies') : replies'[i].tag = replies'[j].tag => i = j
      <4> SUFFICES ASSUME NEW i \in 1..Len(replies'), NEW j \in 1..Len(replies'),
                          replies'[i].tag = replies'[j].tag
                   PROVE  i = j
        BY ZenonT(30)
      <4>1. /\ replies'[i] = replies[i + 1] /\ i + 1 \in 1..Len(replies)
            /\ replies'[j] = replies[j + 1] /\ j + 1 \in 1..Len(replies)
        BY <2>2, Zenon
      <4>2. i + 1 = j + 1
        BY <3>0, <4>1, Zenon
      <4> QED
        BY <4>2
    <3>2. ASSUME NEW m \in net', NEW i \in 1..Len(replies') PROVE m.tag # replies'[i].tag
      <4>1. m \in net /\ replies'[i] = replies[i + 1] /\ i + 1 \in 1..Len(replies)
        BY <2>2, <2>3, ZenonT(30)
      <4>2. \A k \in 1..Len(replies) : m.tag # replies[k].tag
        BY <3>0, <4>1, Zenon
      <4>3. m.tag # replies[i + 1].tag
        BY <4>1, <4>2, Zenon
      <4> QED
        BY <4>1, <4>3, Zenon
    <3>3. /\ \A m \in net' : m.tag # r.tag
          /\ \A i \in 1..Len(replies') : replies'[i].tag # r.tag
      <4>1. ASSUME NEW m \in net' PROVE m.tag # r.tag
        BY <2>2, <2>3, <3>0, ZenonT(30)
      <4>2. ASSUME NEW i \in 1..Len(replies') PROVE replies'[i].tag # r.tag
        <5>1. /\ replies'[i] = replies[i + 1] /\ i + 1 \in 1..Len(replies) /\ i + 1 # 1
              /\ r = replies[1] /\ 1 \in 1..Len(replies)
          BY <2>2, Zenon
        <5>2. replies[i + 1].tag # replies[1].tag
          BY <3>0, <5>1, ZenonT(30)
        <5> QED
          BY <5>1, <5>2, Zenon
      <4> QED
        BY <4>1, <4>2, Zenon
    <3>4. \A m, n \in net' : m.tag = n.tag => m = n
      BY <2>3, Zenon DEF TagInv, WireInv
    <3> QED
      BY <2>4, <3>1, <3>2, <3>3, <3>4, ZenonT(30) DEF WireInv
  <2>9. MoveStep
    BY <2>3, <2>6, <2>7, <2>8, Zenon DEF MoveStep
  <2> QED
    BY <2>5, <2>9, Moves, ZenonT(30)
<1>2. CASE WorkerDeliver
  <2>1. /\ worker.st = "deliver" /\ worker' = [worker EXCEPT !.st = "return"]
        /\ tags' = tags /\ lastTag' = lastTag /\ net' = net /\ replies' = replies
        /\ pathCache' = pathCache
    BY <1>2, Zenon DEF WorkerDeliver, tagVars, wireVars
  <2>2. worker' \in WorkerType /\ worker'.st = "return" /\ worker'.tag = worker.tag
    BY <2>1, Zenon DEF TagInv, Types, WorkerType
  <2>3. ASSUME NEW g \in Procs,
               proc[g].pc \in {"walkWait", "callWait"}, proc[g].tag = worker.tag,
               proc' = [proc EXCEPT ![g] = AfterReply(@, worker.res)],
               files' = files \cup NewFiles(proc[g], worker.res),
               clunks' = clunks
        PROVE  TagInv'
    <3>1. proc \in [Procs -> ProcType] /\ proc[g] \in ProcType
      BY ZenonT(30) DEF TagInv, Types
    <3>2. /\ proc'[g] = AfterReply(proc[g], worker.res)
          /\ \A h \in Procs \ {g} : proc'[h] = proc[h]
      BY <2>3, <3>1, Zenon
    <3>3. proc'[g] \in ProcType /\ proc'[g].pc \notin HoldingPCs
      BY <3>1, <3>2, AfterReplyType, Zenon
    <3>4. NewFiles(proc[g], worker.res) \subseteq [fid : Fid \cup {NoFid}, path : Paths \cup {NoPath}]
      BY <3>1, SMTT(30) DEF NewFiles, ProcType
    <3>5. proc' \in [Procs -> ProcType]
      BY <2>3, <3>1, <3>2, <3>3, Zenon
    <3>6. Types'
      BY <2>1, <2>2, <2>3, <3>4, <3>5, ZenonT(30) DEF TagInv, Types
    <3>7. NoNewCalls
      BY <3>2, <3>3, ZenonT(30) DEF NoNewCalls, Holding, Sending, HoldingPCs
    <3>8. HoldingClunks' = HoldingClunks
      BY <2>3, Zenon DEF HoldingClunks
    <3>9. Holding(g)
      BY <2>3, ZenonT(30) DEF Holding
    <3>10. \A h \in Procs : Holding(h)' => proc'[h].tag # worker.tag
      BY <2>3, <3>2, <3>3, <3>9 DEF Holding, HoldingPCs, TagInv, HeldInv
    <3>11. \A k \in HoldingClunks' : k.tag # worker.tag
      BY <2>3, <3>8, <3>9, Zenon DEF TagInv, HeldInv
    <3> QED
      BY <2>1, <2>2, <3>6, <3>7, <3>8, <3>10, <3>11, Delivers, Zenon
  <2>4. ASSUME NEW k \in clunks, k.st = "wait", k.tag = worker.tag,
               clunks' = (clunks \ {k}) \cup {[k EXCEPT !.st = "done"]},
               proc' = proc, files' = files
        PROVE  TagInv'
    <3> DEFINE l == [k EXCEPT !.st = "done"]
    <3>1. l \in ClunkType /\ l.st = "done"
      BY Zenon DEF TagInv, Types, ClunkType
    <3>2. clunks' = (clunks \ {k}) \cup {l}
      BY <2>4, Zenon
    <3> HIDE DEF l
    <3>3. Types'
      BY <2>1, <2>2, <2>4, <3>1, <3>2, Zenon DEF TagInv, Types
    <3>4. NoNewCalls
      BY <2>4, Zenon DEF NoNewCalls, Holding, Sending
    <3>5. k \in HoldingClunks /\ HoldingClunks' = HoldingClunks \ {k}
      BY <2>4, <3>1, <3>2, Zenon DEF HoldingClunks
    <3>6. \A h \in Procs : Holding(h)' => proc'[h].tag # worker.tag
      BY <2>4, <3>5, Zenon DEF Holding, TagInv, HeldInv
    <3>7. \A j \in HoldingClunks' : j.tag # worker.tag
      BY <2>4, <3>5, Zenon DEF TagInv, HeldInv
    <3> QED
      BY <2>1, <2>2, <3>3, <3>4, <3>5, <3>6, <3>7, Delivers, Zenon
  <2> QED
    BY <1>2, <2>3, <2>4, Zenon DEF WorkerDeliver
<1>3. CASE WorkerReturn
  <2>1. /\ worker.st = "return" /\ tags' = Append(tags, worker.tag) /\ lastTag' = lastTag
        /\ proc' = proc /\ clunks' = clunks /\ net' = net /\ replies' = replies
        /\ files' = files /\ pathCache' = pathCache
        /\ worker' = [st |-> "read", tag |-> 0, res |-> "none", who |-> "none"]
    BY <1>3, ZenonT(30) DEF WorkerReturn, wireVars
  <2>2. worker' \in WorkerType /\ ~Busy' /\ worker.tag \in Nat
    BY <2>1, Zenon DEF TagInv, Types, WorkerType, Busy
  <2>3. tags' \in Seq(Nat)
    BY <2>1, <2>2, SMTT(30) DEF TagInv, Types
  <2>4. Types'
    BY <2>1, <2>2, <2>3, Zenon DEF TagInv, Types
  <2> QED
    BY <2>1, <2>2, <2>4, Returns, ZenonT(30)
<1>4. CASE WorkerEnd
  <2>1. /\ tags' = tags /\ lastTag' = lastTag /\ proc' = proc /\ clunks' = clunks
        /\ net' = net /\ replies' = replies /\ files' = files /\ pathCache' = pathCache
        /\ worker' = [worker EXCEPT !.st = "dead"]
    BY <1>4, Zenon DEF WorkerEnd, tagVars, wireVars
  <2>2. worker' \in WorkerType /\ ~Busy'
    BY <2>1, Zenon DEF TagInv, Types, WorkerType, Busy
  <2>3. Types'
    BY <2>1, <2>2, Zenon DEF TagInv, Types
  <2>4. QuietStep
    BY <2>1, <2>2, Zenon DEF QuietStep, NoNewCalls, Holding, Sending, HoldingClunks
  <2> QED
    BY <2>3, <2>4, Quiet, Zenon
<1> QED
  BY <1>1, <1>2, <1>3, <1>4, Zenon DEF Worker

\* The server answers a request once, and a lost connection loses requests.
LEMMA WireSteps ==
  ASSUME TagInv, ServerHandle \/ Disconnect
  PROVE  TagInv'
<1>1. CASE ServerHandle
  <2>1. PICK m \in net, res \in Results : Answer(m, res)
    BY <1>1, Zenon DEF ServerHandle
  <2> DEFINE r == [tag |-> m.tag, res |-> res, who |-> m.who]
  <2>2. r \in ReplyType /\ r.tag = m.tag /\ r.who = m.who
    BY Zenon DEF TagInv, Types, MessageType, ReplyType
  <2>3. replies \in Seq(ReplyType) /\ net' = net \ {m} /\ replies' = Append(replies, r)
    BY <2>1, Zenon DEF Answer, TagInv, Types
  <2>4. /\ tags' = tags /\ lastTag' = lastTag /\ proc' = proc /\ clunks' = clunks
        /\ worker' = worker /\ files' = files /\ pathCache' = pathCache
    BY <1>1, ZenonT(30) DEF ServerHandle, tagVars
  <2> HIDE DEF r
  <2>5. /\ Len(replies) \in Nat /\ replies' \in Seq(ReplyType)
        /\ Len(replies') = Len(replies) + 1 /\ replies'[Len(replies) + 1] = r
        /\ \A i \in 1..Len(replies) : replies'[i] = replies[i]
    BY <2>2, <2>3, SMTT(30)
  <2>6. \A i \in 1..Len(replies') : i = Len(replies) + 1 \/ i \in 1..Len(replies)
    BY <2>5, SMTT(30)
  <2>7. Types'
    BY <2>3, <2>4, <2>5, ZenonT(30) DEF TagInv, Types
  <2>8. \A t : Wired(t)' => Wired(t)
    BY <2>2, <2>3, <2>4, <2>5, <2>6, ZenonT(30) DEF Wired
  <2>9. \A t, w : Ours(t, w) => Ours(t, w)'
    BY <2>2, <2>3, <2>4, <2>5, <2>6, SMTT(20) DEF Ours
  <2>10. WireInv'
    <3>1. \A i, j \in 1..Len(replies') : replies'[i].tag = replies'[j].tag => i = j
      BY <2>2, <2>5, <2>6, SMTT(30) DEF TagInv, WireInv
    <3>2. \A n \in net', i \in 1..Len(replies') : n.tag # replies'[i].tag
      BY <2>2, <2>3, <2>5, <2>6, SMTT(30) DEF TagInv, WireInv
    <3>3. worker.st \in {"deliver", "return"} =>
            /\ \A n \in net' : n.tag # worker.tag
            /\ \A i \in 1..Len(replies') : replies'[i].tag # worker.tag
      BY <2>2, <2>3, <2>5, <2>6, SMTT(30) DEF TagInv, WireInv
    <3>4. \A l, n \in net' : l.tag = n.tag => l = n
      BY <2>3, Zenon DEF TagInv, WireInv
    <3> QED
      BY <2>4, <3>1, <3>2, <3>3, <3>4, ZenonT(30) DEF WireInv
  <2>11. MoveStep
    BY <2>4, <2>8, <2>9, <2>10, Zenon DEF MoveStep
  <2> QED
    BY <2>7, <2>11, Moves, Zenon
<1>2. CASE Disconnect
  <2>1. /\ tags' = tags /\ lastTag' = lastTag /\ proc' = proc /\ clunks' = clunks
        /\ net' = {} /\ replies' = replies /\ files' = files /\ pathCache' = pathCache
        /\ worker' = worker
    BY <1>2, Zenon DEF Disconnect, tagVars
  <2>2. Types'
    BY <2>1, Zenon DEF TagInv, Types
  <2>3. QuietStep
    BY <2>1, Zenon DEF QuietStep, NoNewCalls, Holding, Sending, HoldingClunks
  <2> QED
    BY <2>2, <2>3, Quiet, Zenon
<1> QED
  BY <1>1, <1>2, Zenon

\* A step that changes nothing.
LEMMA StutterStep ==
  ASSUME TagInv, UNCHANGED vars
  PROVE  TagInv'
<1>1. /\ tags' = tags /\ lastTag' = lastTag /\ proc' = proc /\ clunks' = clunks
      /\ net' = net /\ replies' = replies /\ files' = files /\ pathCache' = pathCache
      /\ worker' = worker
  BY Zenon DEF vars, tagVars, wireVars
<1>2. Types'
  BY <1>1, Zenon DEF TagInv, Types
<1>3. QuietStep
  BY <1>1, Zenon DEF QuietStep, NoNewCalls, Holding, Sending, HoldingClunks
<1> QED
  BY <1>2, <1>3, Quiet, Zenon

\* Every step of the client and the server keeps tags apart.
LEMMA TagInvNext == TagCounts /\ TagInv /\ [Next]_vars => TagInv'
<1> SUFFICES ASSUME TagCounts, TagInv, [Next]_vars PROVE TagInv'
  BY Zenon
<1>1. ASSUME NEW g \in Procs, Method(g) PROVE TagInv'
  BY <1>1, MethodSteps, CloseStep, Zenon DEF Method
<1>2. ASSUME NEW g \in Procs, Continue(g) PROVE TagInv'
  BY <1>2, MethodSteps, Zenon
<1>3. CASE Clunker
  BY <1>3, ClunkerSteps, Zenon DEF Clunker
<1>4. CASE Worker
  BY <1>4, WorkerSteps, Zenon
<1>5. CASE ServerHandle \/ Disconnect
  BY <1>5, WireSteps, Zenon
<1>6. CASE UNCHANGED vars
  BY <1>6, StutterStep, Zenon
<1> QED
  BY <1>1, <1>2, <1>3, <1>4, <1>5, <1>6, Zenon DEF Next

-------------------------------------------------------------------------------
(***************************************************************************)
(* A call of Client that waits is answered as long as the connection is up *)
(* and the program runs: its channel is registered and its request or the  *)
(* reply is on its way.  File.Close is the difficulty: flushAll drops the  *)
(* channels of the calls it finds in tagFids, so that map must never hold  *)
(* the fid of a File for a tag that a walk or a clunk waits on.            *)
(***************************************************************************)

(* The inductive invariant: TagInv and three parts.                         *)

HasFid(p) == p.pc \notin {"idle", "takeFid"} => p.fid \in Fid

\* Open files and methods past takeFid have fids.
FidInv ==
  /\ \A x \in files : x.fid \in Fid
  /\ \A g \in Procs : HasFid(proc[g])

\* The tag t belongs to a walk or to a clunk.
Walks(t) ==
  \/ \E g \in Procs : proc[g].pc \in {"walkSend", "walkWait"} /\ proc[g].tag = t
  \/ \E k \in HoldingClunks : k.tag = t

\* tagFids has no File's fid for the tags of walks and clunks, and nothing for a
\* tag that has never been handed out.
BoundInv ==
  /\ tagFids \in [Tag -> Fid \cup {0, NoFid}]
  /\ \A t \in Tag : Walks(t) => tagFids[t] \in {0, NoFid}
  /\ \A t \in Tag : lastTag < t => tagFids[t] = NoFid

\* A goroutine waits for the reply with the tag t.
Waits(t) ==
  \/ \E g \in Procs : proc[g].pc \in {"walkWait", "callWait"} /\ proc[g].tag = t
  \/ \E k \in clunks : k.st = "wait" /\ k.tag = t

\* The request or the reply with the tag t is on its way.
Coming(t) ==
  \/ \E m \in net : m.tag = t
  \/ \E i \in 1..Len(replies) : replies[i].tag = t
  \/ worker.st = "deliver" /\ worker.tag = t

WaitInv ==
  conn = "up" /\ panic = "none" => \A t : Waits(t) => t \in calls /\ Coming(t)

AnswerInv == TagInv /\ FidInv /\ BoundInv /\ WaitInv

\* The invariant is at least as strong as AnswerUnderWay.
LEMMA AnswerInvSuffices == AnswerInv => AnswerUnderWay
<1> SUFFICES ASSUME AnswerInv, conn = "up", panic = "none",
                    NEW t, Waits(t)
             PROVE  /\ t \in calls
                    /\ \/ \E m \in net \cup Range(replies) : m.tag = t
                       \/ worker.st = "deliver" /\ worker.tag = t
  BY Zenon DEF AnswerUnderWay, Waits
<1>1. t \in calls /\ Coming(t)
  BY Zenon DEF AnswerInv, WaitInv
<1>2. \A i \in 1..Len(replies) : replies[i] \in Range(replies)
  BY DEF Range, AnswerInv, TagInv, Types
<1> QED
  BY <1>1, <1>2, Zenon DEF Coming

-------------------------------------------------------------------------------
(* Fids.                                                                    *)

\* A method that has a fid keeps it after a reply, unless it returns.
LEMMA AfterReplyFid ==
  ASSUME NEW p \in ProcType, NEW res, p.fid \in Fid
  PROVE  HasFid(AfterReply(p, res))
<1>1. HasFid(Idle)
  BY IdleType, Zenon DEF HasFid
<1>2. AfterReply(p, res).fid = p.fid \/ AfterReply(p, res) = Idle
  BY Zenon DEF AfterReply, ProcType
<1> QED
  BY <1>1, <1>2, Zenon DEF HasFid

\* A step of one goroutine that leaves the open files alone or closes some.
LEMMA OneFid ==
  ASSUME TagInv, FidInv, NEW g \in Procs, NEW p, HasFid(p), proc' = [proc EXCEPT ![g] = p],
         files' \subseteq files
  PROVE  FidInv'
<1>1. proc'[g] = p /\ \A h \in Procs \ {g} : proc'[h] = proc[h]
  BY Zenon DEF TagInv, Types
<1> QED
  BY <1>1, Zenon DEF FidInv, HasFid

\* Every step keeps the fids of files and methods.
LEMMA FidInvNext ==
  ASSUME TagInv, FidInv, [Next]_vars
  PROVE  FidInv'
<1>0. /\ proc \in [Procs -> ProcType] /\ \A g \in Procs : proc[g] \in ProcType
      /\ pathCache \in [Paths -> Fid \cup {NoFid}]
  BY Zenon DEF TagInv, Types
<1>1. ASSUME NEW g \in Procs, NEW op \in Ops, NEW path \in Paths, StartWalk(g, op, path)
      PROVE  FidInv'
  <2>1. PICK f \in Fid : proc' = [proc EXCEPT ![g] =
              [Idle EXCEPT !.pc = "walkTag", !.op = op, !.path = path, !.fid = f]]
    BY <1>1, Zenon DEF StartWalk
  <2>2. HasFid([Idle EXCEPT !.pc = "walkTag", !.op = op, !.path = path, !.fid = f])
    BY IdleType, Zenon DEF HasFid, ProcType
  <2> QED
    BY <1>1, <2>1, <2>2, OneFid, Zenon DEF StartWalk
<1>2. ASSUME NEW g \in Procs, NEW path \in Paths, StartStat(g, path) PROVE FidInv'
  <2> DEFINE pc == IF pathCache[path] = NoFid THEN "takeFid" ELSE "callTag"
             p == [Idle EXCEPT !.pc = pc, !.op = "stat", !.path = path, !.fid = pathCache[path]]
  <2>1. p.pc = pc /\ p.fid = pathCache[path]
    BY IdleType, Zenon DEF ProcType
  <2>2. HasFid(p)
    BY <1>0, <2>1, Zenon DEF HasFid
  <2>3. proc' = [proc EXCEPT ![g] = p] /\ files' = files
    BY <1>2, Zenon DEF StartStat
  <2> HIDE DEF p
  <2> QED
    BY <2>2, <2>3, OneFid, Zenon
<1>3. ASSUME NEW g \in Procs, NEW op \in Ops, NEW file \in files, StartIO(g, op, file)
      PROVE  FidInv'
  <2>1. PICK n, t : proc' = [proc EXCEPT ![g] =
              [Idle EXCEPT !.pc = "callSend", !.op = op, !.path = file.path,
                           !.fid = file.fid, !.left = n, !.tag = t]]
    BY <1>3, Zenon DEF StartIO
  <2>2. HasFid([Idle EXCEPT !.pc = "callSend", !.op = op, !.path = file.path,
                            !.fid = file.fid, !.left = n, !.tag = t])
    BY IdleType, Zenon DEF HasFid, ProcType, FidInv
  <2> QED
    BY <1>3, <2>1, <2>2, OneFid, ZenonT(30) DEF StartIO
<1>4. ASSUME NEW g \in Procs, NEW file \in files, StartClose(g, file) PROVE FidInv'
  <2> DEFINE closing == [Idle EXCEPT !.pc = "clunkTag", !.op = "close",
                                     !.path = file.path, !.fid = file.fid]
  <2>1. \A h \in Procs : \/ proc'[h] \in {Idle, closing, proc[h]}
                         \/ proc[h].pc = "callWait" /\ proc'[h] = AfterReply(proc[h], "err")
    BY <1>4, Zenon DEF StartClose
  <2>2. HasFid(closing) /\ HasFid(Idle)
    BY IdleType, Zenon DEF HasFid, ProcType, FidInv
  <2> HIDE DEF closing
  <2>3. \A h \in Procs : proc[h].pc = "callWait" => HasFid(AfterReply(proc[h], "err"))
    BY <1>0, AfterReplyFid, Zenon DEF FidInv, HasFid
  <2>4. files' \subseteq files
    BY <1>4, Zenon DEF StartClose
  <2> QED
    BY <2>1, <2>2, <2>3, <2>4, Zenon DEF FidInv
<1>5. ASSUME NEW g \in Procs, StatTakeFid(g) PROVE FidInv'
  <2>1. PICK f \in Fid : proc' = [proc EXCEPT ![g].pc = "walkTag", ![g].fid = f]
    BY <1>5, Zenon DEF StatTakeFid
  <2> DEFINE p == [proc[g] EXCEPT !.pc = "walkTag", !.fid = f]
  <2>2. HasFid(p) /\ proc' = [proc EXCEPT ![g] = p]
    BY <1>0, <2>1, ZenonT(30) DEF HasFid, ProcType
  <2> HIDE DEF p
  <2> QED
    BY <1>5, <2>2, OneFid, Zenon DEF StatTakeFid
<1>6. ASSUME NEW g \in Procs, WalkTakeTag(g) \/ CallTakeTag(g) PROVE FidInv'
  <2>1. PICK pc, t : proc' = [proc EXCEPT ![g].pc = pc, ![g].tag = t]
    BY <1>6, Zenon DEF WalkTakeTag, CallTakeTag
  <2> DEFINE p == [proc[g] EXCEPT !.pc = pc, !.tag = t]
  <2>2. p.fid = proc[g].fid /\ proc' = [proc EXCEPT ![g] = p]
    BY <1>0, <2>1, ZenonT(30) DEF ProcType
  <2>3. proc[g].fid \in Fid
    BY <1>6, Zenon DEF WalkTakeTag, CallTakeTag, FidInv, HasFid
  <2> HIDE DEF p
  <2> QED
    BY <1>6, <2>2, <2>3, OneFid, Zenon DEF WalkTakeTag, CallTakeTag, HasFid
<1>7. ASSUME NEW g \in Procs, WalkSend(g) \/ CallSend(g) PROVE FidInv'
  <2>1. PICK pc : proc' = [proc EXCEPT ![g] = AfterSend(proc[g], pc)]
    BY <1>7, Zenon DEF WalkSend, CallSend
  <2>2. proc[g].fid \in Fid
    BY <1>7, Zenon DEF WalkSend, CallSend, FidInv, HasFid
  <2>3. [proc[g] EXCEPT !.pc = pc].fid = proc[g].fid
    BY <1>0, Zenon DEF ProcType
  <2>4. HasFid(AfterSend(proc[g], pc))
    <3>1. HasFid([proc[g] EXCEPT !.pc = pc])
      BY <2>2, <2>3, Zenon DEF HasFid
    <3>2. HasFid(AfterReply(proc[g], "err"))
      BY <1>0, <2>2, AfterReplyFid, Zenon
    <3> QED
      BY <3>1, <3>2, Zenon DEF AfterSend
  <2> QED
    BY <1>7, <2>1, <2>4, OneFid, ZenonT(30) DEF WalkSend, CallSend
<1>8. ASSUME NEW g \in Procs, CacheFid(g) \/ RemoveReturnFid(g) PROVE FidInv'
  <2>1. PICK pc : proc' = [proc EXCEPT ![g].pc = pc]
    BY <1>8, Zenon DEF CacheFid, RemoveReturnFid
  <2> DEFINE p == [proc[g] EXCEPT !.pc = pc]
  <2>2. p.fid = proc[g].fid /\ proc' = [proc EXCEPT ![g] = p]
    BY <1>0, <2>1, Zenon DEF ProcType
  <2>3. proc[g].fid \in Fid
    BY <1>8, Zenon DEF CacheFid, RemoveReturnFid, FidInv, HasFid
  <2> HIDE DEF p
  <2> QED
    BY <1>8, <2>2, <2>3, OneFid, ZenonT(30) DEF CacheFid, RemoveReturnFid, HasFid
<1>9. ASSUME NEW g \in Procs, ClunkTakeTag(g) \/ DropCachedFid(g) PROVE FidInv'
  <2>1. PICK pc : proc' = [proc EXCEPT ![g] = [proc[g] EXCEPT !.pc = pc]]
                  \/ proc' = [proc EXCEPT ![g] = Idle]
    BY <1>9, Zenon DEF ClunkTakeTag, DropCachedFid
  <2>2. [proc[g] EXCEPT !.pc = pc].fid = proc[g].fid
    BY <1>0, Zenon DEF ProcType
  <2>3. proc[g].fid \in Fid
    BY <1>9, Zenon DEF ClunkTakeTag, DropCachedFid, FidInv, HasFid
  <2>4. HasFid([proc[g] EXCEPT !.pc = pc]) /\ HasFid(Idle)
    BY <2>2, <2>3, IdleType, Zenon DEF HasFid
  <2> QED
    BY <1>9, <2>1, <2>4, OneFid, Zenon DEF ClunkTakeTag, DropCachedFid
<1>10. CASE WorkerDeliver
  <2>1. ASSUME NEW g \in Procs, proc[g].pc \in {"walkWait", "callWait"},
               proc' = [proc EXCEPT ![g] = AfterReply(@, worker.res)],
               files' = files \cup NewFiles(proc[g], worker.res)
        PROVE  FidInv'
    <3>1. proc[g].fid \in Fid
      BY <2>1, Zenon DEF FidInv, HasFid
    <3>2. HasFid(AfterReply(proc[g], worker.res))
      BY <1>0, <3>1, AfterReplyFid, Zenon
    <3>3. \A x \in files' : x.fid \in Fid
      BY <2>1, <3>1 DEF NewFiles, FidInv
    <3>4. proc'[g] = AfterReply(proc[g], worker.res) /\ \A h \in Procs \ {g} : proc'[h] = proc[h]
      BY <1>0, <2>1, Zenon
    <3> QED
      BY <3>2, <3>3, <3>4, Zenon DEF FidInv
  <2>2. CASE proc' = proc /\ files' = files
    BY <2>2, Zenon DEF FidInv
  <2> QED
    BY <1>10, <2>1, <2>2, Zenon DEF WorkerDeliver
<1>11. CASE \/ Clunker \/ WorkerRead \/ WorkerReturn \/ WorkerEnd \/ ServerHandle
            \/ Disconnect \/ UNCHANGED vars
  <2>1. proc' = proc /\ files' = files
    BY <1>11, Zenon DEF Clunker, ClunkSend, ClunkReturn, WorkerRead, WorkerReturn, WorkerEnd,
                 ServerHandle, Disconnect, vars
  <2> QED
    BY <2>1, Zenon DEF FidInv
<1> QED
  BY <1>1, <1>2, <1>3, <1>4, <1>5, <1>6, <1>7, <1>8, <1>9, <1>10, <1>11, Zenon
     DEF Next, Method, Continue, Worker

-------------------------------------------------------------------------------
(* The map tagFids.                                                         *)

\* Nothing changes in tagFids, and no walk or clunk gets a tag.
LEMMA BoundKeeps ==
  ASSUME BoundInv, tagFids' = tagFids, lastTag' = lastTag, \A t : Walks(t)' => Walks(t)
  PROVE  BoundInv'
BY Zenon DEF BoundInv

\* A step of one goroutine that leaves tagFids alone and does not walk next.
LEMMA OneKeeps ==
  ASSUME TagInv, BoundInv, NEW g \in Procs, NEW p, proc' = [proc EXCEPT ![g] = p],
         p.pc \notin {"walkSend", "walkWait"}, clunks' = clunks,
         tagFids' = tagFids, lastTag' = lastTag
  PROVE  BoundInv'
<1>1. proc'[g] = p /\ \A h \in Procs \ {g} : proc'[h] = proc[h]
  BY Zenon DEF TagInv, Types
<1>2. \A t : Walks(t)' => Walks(t)
  BY <1>1, Zenon DEF Walks, HoldingClunks
<1> QED
  BY <1>2, BoundKeeps, Zenon

\* A tag is taken: with 0 in place of a fid if it is for a walk or a clunk.
LEMMA BoundTakes ==
  ASSUME TagInv, BoundInv, NEW f \in Fid \cup {0, NoFid}, NEW t \in Tag, lockedTakeTag(f, t),
         \A u : Walks(u)' => Walks(u) \/ (u = t /\ f = 0)
  PROVE  BoundInv'
<1>0. Tag \subseteq Nat /\ lastTag \in Nat
  BY ClientAssumption DEF Tag, TagInv, Types
<1>1. ~Held(t) /\ lastTag' \in Nat /\ lastTag <= lastTag' /\ t <= lastTag'
  BY TakeTag, Zenon
<1>2. ~Walks(t)
  BY <1>1, Zenon DEF Walks, Held, Holding
<1>3. \/ tagFids' = tagFids /\ lastTag < t
      \/ tagFids' = [tagFids EXCEPT ![t] = f] /\ lastTag' = lastTag
  BY <1>0 DEF lockedTakeTag
<1>4. /\ tagFids' \in [Tag -> Fid \cup {0, NoFid}]
      /\ \A u \in Tag \ {t} : tagFids'[u] = tagFids[u]
      /\ f = 0 => tagFids'[t] \in {0, NoFid}
  BY <1>3, Zenon DEF BoundInv
<1>5. \A u \in Tag : Walks(u)' => tagFids'[u] \in {0, NoFid}
  BY <1>2, <1>4, Zenon DEF BoundInv
<1>6. \A u \in Tag : lastTag' < u => u # t /\ lastTag < u
  BY <1>0, <1>1
<1> QED
  BY <1>4, <1>5, <1>6, Zenon DEF BoundInv

\* File.Close enters 0 for the tags it takes from the free list.
LEMMA BoundCloses ==
  ASSUME TagCounts, TagInv, BoundInv, NEW g \in Procs, NEW file \in files, StartClose(g, file)
  PROVE  BoundInv'
<1> DEFINE closing == [Idle EXCEPT !.pc = "clunkTag", !.op = "close",
                                   !.path = file.path, !.fid = file.fid]
<1>0. Tag \subseteq Nat /\ lastTag \in Nat /\ proc \in [Procs -> ProcType]
  BY ClientAssumption DEF Tag, TagInv, Types
<1>1. PICK S : /\ tagFids' = [t \in Tag |-> IF t \in S THEN 0 ELSE tagFids[t]]
               /\ S \subseteq Range(tags)
               /\ lastTag' \in Nat /\ lastTag <= lastTag'
  <2> DEFINE F      == {t \in Tag : tagFids[t] = file.fid}
             n      == IF conn = "up" THEN Cardinality(F) ELSE Min({1, Cardinality(F)})
             popped == Min({n, Len(tags)})
             S      == Range(SubSeq(tags, Len(tags) - popped + 1, Len(tags)))
  <2>1. /\ tagFids' = [t \in Tag |-> IF t \in S THEN 0 ELSE tagFids[t]]
        /\ lastTag' = lastTag + n - popped
    BY Zenon DEF StartClose
  <2>2. n \in Nat
    BY FlushCount, Zenon
  <2>3. tags \in Seq(Nat) /\ Len(tags) \in Nat
    BY DEF TagInv, Types
  <2> HIDE DEF n
  <2>4. popped \in 0..Len(tags) /\ popped <= n
    BY <2>2, <2>3, MinPair
  <2> HIDE DEF popped
  <2>5. \A t \in S : \E i \in (Len(tags) - popped + 1)..Len(tags) : t = tags[i]
    BY <2>3, <2>4, Suffix, Zenon
  <2>6. lastTag' \in Nat /\ lastTag <= lastTag'
    BY <1>0, <2>1, <2>2, <2>4
  <2> HIDE DEF S
  <2>7. S \subseteq Range(tags)
    BY <2>3, <2>4, <2>5, SMTT(30) DEF Range
  <2> QED
    BY <2>1, <2>6, <2>7, Zenon
<1>2. \A t : Walks(t)' => Walks(t)
  <2>1. \A h \in Procs : proc'[h] \in {Idle, closing, proc[h], AfterReply(proc[h], "err")}
    BY Zenon DEF StartClose
  <2>2. closing.pc = "clunkTag"
    BY IdleType, Zenon DEF ProcType
  <2> HIDE DEF closing
  <2>3. \A h \in Procs : proc'[h] = proc[h] \/ proc'[h].pc \notin HoldingPCs
    BY <1>0, <2>1, <2>2, IdleType, AfterReplyType, Zenon DEF HoldingPCs
  <2>4. clunks' = clunks
    BY Zenon DEF StartClose
  <2> QED
    BY <2>3, <2>4, Zenon DEF Walks, HoldingClunks, HoldingPCs
<1>3. \A t \in S : t <= lastTag
  BY <1>1 DEF Range, TagInv, FreeInv, Types
<1>4. \A t \in Tag : lastTag' < t => lastTag < t /\ t \notin S
  BY <1>0, <1>1, <1>3, SMTT(30)
<1> QED
  BY <1>1, <1>2, <1>4, Zenon DEF BoundInv

\* Every step keeps tagFids free of the tags of walks and clunks.
LEMMA BoundInvNext ==
  ASSUME TagCounts, TagInv, FidInv, BoundInv, [Next]_vars
  PROVE  BoundInv'
<1>0. proc \in [Procs -> ProcType] /\ \A g \in Procs : proc[g] \in ProcType
  BY Zenon DEF TagInv, Types
<1>1. ASSUME NEW g \in Procs, NEW op \in Ops, NEW path \in Paths, StartWalk(g, op, path)
      PROVE  BoundInv'
  <2>1. PICK f \in Fid : proc' = [proc EXCEPT ![g] =
              [Idle EXCEPT !.pc = "walkTag", !.op = op, !.path = path, !.fid = f]]
    BY <1>1, Zenon DEF StartWalk
  <2>2. [Idle EXCEPT !.pc = "walkTag", !.op = op, !.path = path, !.fid = f].pc = "walkTag"
    BY IdleType, Zenon DEF ProcType
  <2> QED
    BY <1>1, <2>1, <2>2, OneKeeps, Zenon DEF StartWalk, tagVars
<1>2. ASSUME NEW g \in Procs, NEW path \in Paths, StartStat(g, path) PROVE BoundInv'
  <2> DEFINE pc == IF pathCache[path] = NoFid THEN "takeFid" ELSE "callTag"
             p == [Idle EXCEPT !.pc = pc, !.op = "stat", !.path = path, !.fid = pathCache[path]]
  <2>1. p.pc = pc /\ pc \in {"takeFid", "callTag"}
    BY IdleType, Zenon DEF ProcType
  <2>2. proc' = [proc EXCEPT ![g] = p] /\ clunks' = clunks /\ tagFids' = tagFids /\ lastTag' = lastTag
    BY <1>2, Zenon DEF StartStat, tagVars
  <2> HIDE DEF p, pc
  <2> QED
    BY <2>1, <2>2, OneKeeps, Zenon
<1>3. ASSUME NEW g \in Procs, NEW op \in Ops, NEW file \in files, StartIO(g, op, file)
      PROVE  BoundInv'
  <2>1. PICK n \in 1..(IF op = "write" THEN MaxChunks ELSE 1), t \in Tag :
          /\ lockedTakeTag(file.fid, t)
          /\ proc' = [proc EXCEPT ![g] =
                        [Idle EXCEPT !.pc = "callSend", !.op = op, !.path = file.path,
                                     !.fid = file.fid, !.left = n, !.tag = t]]
    BY <1>3, Zenon DEF StartIO
  <2>2. proc'[g].pc = "callSend" /\ \A h \in Procs \ {g} : proc'[h] = proc[h]
    BY <1>0, <2>1, IdleType, Zenon DEF ProcType
  <2>3. \A u : Walks(u)' => Walks(u)
    BY <1>3, <2>2, Zenon DEF StartIO, Walks, HoldingClunks
  <2>4. file.fid \in Fid \cup {0, NoFid}
    BY Zenon DEF FidInv
  <2> QED
    BY <2>1, <2>3, <2>4, BoundTakes, Zenon
<1>4. ASSUME NEW g \in Procs, NEW file \in files, StartClose(g, file) PROVE BoundInv'
  BY <1>4, BoundCloses, Zenon
<1>5. ASSUME NEW g \in Procs, StatTakeFid(g) \/ CacheFid(g) \/ RemoveReturnFid(g) PROVE BoundInv'
  <2>1. proc'[g].pc \in {"walkTag", "callTag", "drop"} /\ \A h \in Procs \ {g} : proc'[h] = proc[h]
    BY <1>0, <1>5 DEF StatTakeFid, CacheFid, RemoveReturnFid, ProcType
  <2>2. clunks' = clunks /\ tagFids' = tagFids /\ lastTag' = lastTag
    BY <1>5, Zenon DEF StatTakeFid, CacheFid, RemoveReturnFid, tagVars
  <2>3. \A u : Walks(u)' => Walks(u)
    BY <2>1, <2>2, Zenon DEF Walks, HoldingClunks
  <2> QED
    BY <2>2, <2>3, BoundKeeps, Zenon
<1>6. ASSUME NEW g \in Procs, WalkTakeTag(g) PROVE BoundInv'
  <2>1. PICK t \in Tag : /\ lockedTakeTag(0, t)
                         /\ proc' = [proc EXCEPT ![g].pc = "walkSend", ![g].tag = t]
    BY <1>6, Zenon DEF WalkTakeTag
  <2>2. proc'[g].tag = t /\ \A h \in Procs \ {g} : proc'[h] = proc[h]
    BY <1>0, <2>1, Zenon DEF ProcType
  <2>3. \A u : Walks(u)' => Walks(u) \/ u = t
    BY <1>6, <2>2, Zenon DEF WalkTakeTag, Walks, HoldingClunks
  <2> QED
    BY <2>1, <2>3, BoundTakes, Zenon
<1>7. ASSUME NEW g \in Procs, CallTakeTag(g) PROVE BoundInv'
  <2>1. PICK t \in Tag : /\ lockedTakeTag(proc[g].fid, t)
                         /\ proc' = [proc EXCEPT ![g].pc = "callSend", ![g].tag = t]
    BY <1>7, Zenon DEF CallTakeTag
  <2>2. proc'[g].pc = "callSend" /\ \A h \in Procs \ {g} : proc'[h] = proc[h]
    BY <1>0, <2>1, Zenon DEF ProcType
  <2>3. \A u : Walks(u)' => Walks(u)
    BY <1>7, <2>2, Zenon DEF CallTakeTag, Walks, HoldingClunks
  <2>4. proc[g].fid \in Fid \cup {0, NoFid}
    BY <1>0, Zenon DEF ProcType
  <2> QED
    BY <2>1, <2>3, <2>4, BoundTakes, Zenon
<1>8. ASSUME NEW g \in Procs, ClunkTakeTag(g) PROVE BoundInv'
  <2>1. PICK t \in Tag :
          /\ lockedTakeTag(0, t)
          /\ clunks' = clunks \cup {[fid |-> proc[g].fid, tag |-> t, st |-> "send"]}
    BY <1>8, Zenon DEF ClunkTakeTag
  <2>2. proc'[g].pc \in {"idle", "returnFid", "drop"} /\ \A h \in Procs \ {g} : proc'[h] = proc[h]
    BY <1>0, <1>8, IdleType, Zenon DEF ClunkTakeTag, ProcType
  <2>3. \A k \in HoldingClunks' : k \in HoldingClunks \/ k.tag = t
    BY <2>1 DEF HoldingClunks
  <2>4. \A u : Walks(u)' => Walks(u) \/ u = t
    BY <2>2, <2>3, Zenon DEF Walks
  <2> QED
    BY <2>1, <2>4, BoundTakes, Zenon
<1>9. ASSUME NEW g \in Procs, WalkSend(g) \/ CallSend(g) \/ DropCachedFid(g) PROVE BoundInv'
  <2>1. clunks' = clunks /\ tagFids' = tagFids /\ lastTag' = lastTag
    BY <1>9, Zenon DEF WalkSend, CallSend, DropCachedFid, tagVars
  <2>2. \A h \in Procs \ {g} : proc'[h] = proc[h]
    BY <1>0, <1>9, Zenon DEF WalkSend, CallSend, DropCachedFid
  <2>3. \/ proc'[g].pc \notin {"walkSend", "walkWait"}
        \/ proc[g].pc = "walkSend" /\ proc'[g].tag = proc[g].tag
    <3>1. CASE DropCachedFid(g)
      BY <1>0, <3>1, IdleType, Zenon DEF DropCachedFid
    <3>2. CASE WalkSend(g) \/ CallSend(g)
      <4>1. \/ proc'[g] = AfterSend(proc[g], "walkWait") /\ proc[g].pc = "walkSend"
            \/ proc'[g] = AfterSend(proc[g], "callWait")
        BY <1>0, <3>2, Zenon DEF WalkSend, CallSend
      <4>2. AfterReply(proc[g], "err").pc \notin {"walkSend", "walkWait"}
        BY <1>0, AfterReplyType, Zenon DEF HoldingPCs
      <4>3. \A pc : [proc[g] EXCEPT !.pc = pc].pc = pc /\ [proc[g] EXCEPT !.pc = pc].tag = proc[g].tag
        BY <1>0, Zenon DEF ProcType
      <4> QED
        BY <4>1, <4>2, <4>3, ZenonT(30) DEF AfterSend
    <3> QED
      BY <1>9, <3>1, <3>2, Zenon
  <2>4. \A u : Walks(u)' => Walks(u)
    BY <2>1, <2>2, <2>3, Zenon DEF Walks, HoldingClunks
  <2> QED
    BY <2>1, <2>4, BoundKeeps, Zenon
<1>10. CASE Clunker
  <2>1. PICK k \in clunks : ClunkSend(k) \/ ClunkReturn(k)
    BY <1>10, Zenon DEF Clunker
  <2>2. k \in ClunkType /\ \A st : [k EXCEPT !.st = st].tag = k.tag
    BY Zenon DEF TagInv, Types, ClunkType
  <2>3. \A l \in HoldingClunks' : l \in HoldingClunks \/ (l.tag = k.tag /\ k \in HoldingClunks)
    BY <2>1, <2>2, ZenonT(30) DEF ClunkSend, ClunkReturn, HoldingClunks
  <2>4. proc' = proc /\ tagFids' = tagFids /\ lastTag' = lastTag
    BY <2>1, Zenon DEF ClunkSend, ClunkReturn, tagVars
  <2>5. \A u : Walks(u)' => Walks(u)
    BY <2>3, <2>4, Zenon DEF Walks
  <2> QED
    BY <2>4, <2>5, BoundKeeps, Zenon
<1>11. CASE WorkerDeliver
  <2>1. tagFids' = tagFids /\ lastTag' = lastTag
    BY <1>11, Zenon DEF WorkerDeliver, tagVars
  <2>2. \A h \in Procs : proc'[h] = proc[h] \/ proc'[h].pc \notin {"walkSend", "walkWait"}
    <3>1. \A h \in Procs : proc'[h] = proc[h] \/ proc'[h] = AfterReply(proc[h], worker.res)
      BY <1>0, <1>11, Zenon DEF WorkerDeliver
    <3>2. \A h \in Procs : AfterReply(proc[h], worker.res).pc \notin {"walkSend", "walkWait"}
      BY <1>0, AfterReplyType, Zenon DEF HoldingPCs
    <3> QED
      BY <3>1, <3>2, Zenon
  <2>3. \A k \in clunks : [k EXCEPT !.st = "done"].st = "done"
    BY Zenon DEF TagInv, Types, ClunkType
  <2>4. HoldingClunks' \subseteq HoldingClunks
    BY <1>11, <2>3, ZenonT(30) DEF WorkerDeliver, HoldingClunks
  <2>5. \A u : Walks(u)' => Walks(u)
    BY <2>2, <2>4, Zenon DEF Walks
  <2> QED
    BY <2>1, <2>5, BoundKeeps, Zenon
<1>12. CASE WorkerReturn
  <2>1. /\ proc' = proc /\ clunks' = clunks /\ lastTag' = lastTag
        /\ tagFids' = [tagFids EXCEPT ![worker.tag] = NoFid]
    BY <1>12, Zenon DEF WorkerReturn
  <2>2. \A u : Walks(u)' => Walks(u)
    BY <2>1, Zenon DEF Walks, HoldingClunks
  <2>3. /\ tagFids' \in [Tag -> Fid \cup {0, NoFid}]
        /\ \A t \in Tag : tagFids'[t] \in {tagFids[t], NoFid}
    BY <2>1, Zenon DEF BoundInv
  <2> QED
    BY <2>1, <2>2, <2>3, Zenon DEF BoundInv
<1>13. CASE WorkerRead \/ WorkerEnd \/ ServerHandle \/ Disconnect \/ UNCHANGED vars
  <2>1. proc' = proc /\ clunks' = clunks /\ tagFids' = tagFids /\ lastTag' = lastTag
    BY <1>13, Zenon DEF WorkerRead, WorkerEnd, ServerHandle, Disconnect, vars, tagVars
  <2>2. \A u : Walks(u)' => Walks(u)
    BY <2>1, Zenon DEF Walks, HoldingClunks
  <2> QED
    BY <2>1, <2>2, BoundKeeps, Zenon
<1> QED
  BY <1>1, <1>2, <1>3, <1>4, <1>5, <1>6, <1>7, <1>8, <1>9, <1>10, <1>11, <1>12, <1>13, Zenon
     DEF Next, Method, Continue, Worker

-------------------------------------------------------------------------------
(* The answers.                                                             *)

\* A step that touches neither calls nor the wire, after which nobody waits who did
\* not wait before.
LEMMA LocalKeeps ==
  ASSUME WaitInv, panic = "none", calls' = calls, conn' = conn, net' = net,
         replies' = replies, worker' = worker, \A t : Waits(t)' => Waits(t)
  PROVE  WaitInv'
<1>1. \A t : Coming(t)' <=> Coming(t)
  BY Zenon DEF Coming
<1> QED
  BY <1>1, Zenon DEF WaitInv

\* The steps of a method call other than sending and closing.
LEMMA LocalSteps ==
  ASSUME TagInv, WaitInv, NEW g \in Procs,
         \/ \E op \in Ops, path \in Paths : StartWalk(g, op, path)
         \/ \E path \in Paths : StartStat(g, path)
         \/ \E op \in Ops, file \in files : StartIO(g, op, file)
         \/ StatTakeFid(g) \/ WalkTakeTag(g) \/ CacheFid(g) \/ CallTakeTag(g)
         \/ ClunkTakeTag(g) \/ RemoveReturnFid(g) \/ DropCachedFid(g)
  PROVE  WaitInv'
<1>0. proc \in [Procs -> ProcType] /\ proc[g] \in ProcType
  BY Zenon DEF TagInv, Types
<1> DEFINE Wire == /\ panic = "none" /\ calls' = calls /\ conn' = conn /\ net' = net
                   /\ replies' = replies /\ worker' = worker
           Alone == \A h \in Procs \ {g} : proc'[h] = proc[h]
           Awake == proc'[g].pc \notin {"walkWait", "callWait"}
           Clunks == \A k \in clunks' : k.st = "wait" => k \in clunks
           Local == Wire /\ Alone /\ Awake /\ Clunks
<1>1. ASSUME NEW op \in Ops, NEW path \in Paths, StartWalk(g, op, path) PROVE Local
  <2>1. Wire /\ Clunks
    BY <1>1, Zenon DEF StartWalk, Running, wireVars
  <2>2. PICK f \in Fid : proc' = [proc EXCEPT ![g] =
              [Idle EXCEPT !.pc = "walkTag", !.op = op, !.path = path, !.fid = f]]
    BY <1>1, Zenon DEF StartWalk
  <2>3. Alone /\ Awake
    BY <1>0, <2>2, IdleType, Zenon DEF ProcType
  <2> QED
    BY <2>1, <2>3, Zenon
<1>2. ASSUME NEW path \in Paths, StartStat(g, path) PROVE Local
  <2>1. Wire /\ Clunks
    BY <1>2, Zenon DEF StartStat, Running, wireVars
  <2>2. Alone
    BY <1>0, <1>2, Zenon DEF StartStat
  <2>3. Awake
    BY <1>0, <1>2, IdleType, ZenonT(30) DEF StartStat, ProcType
  <2> QED
    BY <2>1, <2>2, <2>3, Zenon
<1>3. ASSUME NEW op \in Ops, NEW file \in files, StartIO(g, op, file) PROVE Local
  <2>1. Wire /\ Clunks
    BY <1>3, Zenon DEF StartIO, Running, wireVars
  <2>2. PICK n \in 1..(IF op = "write" THEN MaxChunks ELSE 1), t \in Tag :
          proc' = [proc EXCEPT ![g] =
                     [Idle EXCEPT !.pc = "callSend", !.op = op, !.path = file.path,
                                  !.fid = file.fid, !.left = n, !.tag = t]]
    BY <1>3, ZenonT(30) DEF StartIO
  <2>3. Alone /\ Awake
    BY <1>0, <2>2, IdleType, Zenon DEF ProcType
  <2> QED
    BY <2>1, <2>3, Zenon
<1>4. ASSUME StatTakeFid(g) PROVE Local
  <2>1. Wire /\ Clunks
    BY <1>4, Zenon DEF StatTakeFid, Running, wireVars
  <2>2. Alone /\ Awake
    BY <1>0, <1>4, ZenonT(30) DEF StatTakeFid, ProcType
  <2> QED
    BY <2>1, <2>2, Zenon
<1>5. ASSUME WalkTakeTag(g) \/ CallTakeTag(g) PROVE Local
  <2>1. Wire /\ Clunks
    BY <1>5, Zenon DEF WalkTakeTag, CallTakeTag, Running, wireVars
  <2>2. Alone /\ Awake
    BY <1>0, <1>5 DEF WalkTakeTag, CallTakeTag, ProcType
  <2> QED
    BY <2>1, <2>2, Zenon
<1>6. ASSUME CacheFid(g) \/ RemoveReturnFid(g) \/ DropCachedFid(g) PROVE Local
  <2>1. Wire /\ Clunks
    BY <1>6, Zenon DEF CacheFid, RemoveReturnFid, DropCachedFid, Running, wireVars
  <2>2. Alone /\ Awake
    BY <1>0, <1>6, IdleType DEF CacheFid, RemoveReturnFid, DropCachedFid, ProcType
  <2> QED
    BY <2>1, <2>2, Zenon
<1>7. ASSUME ClunkTakeTag(g) PROVE Local
  <2>1. Wire /\ Clunks
    BY <1>7 DEF ClunkTakeTag, Running, wireVars
  <2>2. Alone /\ Awake
    BY <1>0, <1>7, IdleType, Zenon DEF ClunkTakeTag, ProcType
  <2> QED
    BY <2>1, <2>2, Zenon
<1> HIDE DEF Local
<1>8. Local
  BY <1>1, <1>2, <1>3, <1>4, <1>5, <1>6, <1>7, Zenon
<1>9. \A t : Waits(t)' => Waits(t)
  BY <1>8, Zenon DEF Local, Waits
<1> QED
  BY <1>8, <1>9, LocalKeeps, Zenon DEF Local

\* Sending registers the channel and puts the request on the wire.
LEMMA SendSteps ==
  ASSUME TagInv, WaitInv,
         \/ \E g \in Procs : WalkSend(g) \/ CallSend(g)
         \/ \E k \in clunks : ClunkSend(k)
  PROVE  WaitInv'
<1>0. proc \in [Procs -> ProcType] /\ clunks \subseteq ClunkType
  BY Zenon DEF TagInv, Types
<1>1. PICK m : /\ getResponse(m)
               /\ conn = "up" => \A t : Waits(t)' => Waits(t) \/ t = m.tag
  <2>1. ASSUME NEW g \in Procs, WalkSend(g) \/ CallSend(g)
        PROVE  \E m : /\ getResponse(m)
                      /\ conn = "up" => \A t : Waits(t)' => Waits(t) \/ t = m.tag
    <3>1. PICK m : getResponse(m) /\ m.tag = proc[g].tag
      BY <2>1, SMTT(30) DEF WalkSend, CallSend, Request
    <3>2. clunks' = clunks /\ \A h \in Procs \ {g} : proc'[h] = proc[h]
      BY <1>0, <2>1, Zenon DEF WalkSend, CallSend
    <3>3. conn = "up" => proc'[g].tag = proc[g].tag
      BY <1>0, <2>1, SMTT(30) DEF WalkSend, CallSend, AfterSend, ProcType
    <3> QED
      BY <3>1, <3>2, <3>3, SMTT(30) DEF Waits
  <2>2. ASSUME NEW k \in clunks, ClunkSend(k)
        PROVE  \E m : /\ getResponse(m)
                      /\ conn = "up" => \A t : Waits(t)' => Waits(t) \/ t = m.tag
    <3>1. PICK m : getResponse(m) /\ m.tag = k.tag
      BY <2>2 DEF ClunkSend, Request
    <3>2. \A st : [k EXCEPT !.st = st].tag = k.tag
      BY <1>0, Zenon DEF ClunkType
    <3>3. proc' = proc /\ \A l \in clunks' : l \in clunks \/ l.tag = k.tag
      BY <2>2, <3>2, Zenon DEF ClunkSend
    <3> QED
      BY <3>1, <3>3, Zenon DEF Waits
  <2> QED
    BY <2>1, <2>2, Zenon
<1>2. panic = "none" /\ worker' = worker
  BY Zenon DEF WalkSend, CallSend, ClunkSend, Running
<1>3. /\ calls' = calls \cup {m.tag} /\ conn' = conn /\ replies' = replies
      /\ conn = "up" => net' = net \cup {m}
  BY <1>1, Zenon DEF getResponse
<1>4. conn = "up" => Coming(m.tag)' /\ \A t : Coming(t) => Coming(t)'
  BY <1>2, <1>3, Zenon DEF Coming
<1> QED
  BY <1>1, <1>2, <1>3, <1>4, Zenon DEF WaitInv

\* The worker drops a reply only if nobody waits for it, and returns a tag only
\* after the call that waited has been answered.
LEMMA WorkerWaits ==
  ASSUME TagInv, WaitInv, Worker
  PROVE  WaitInv'
<1>0. /\ proc \in [Procs -> ProcType] /\ clunks \subseteq ClunkType
      /\ replies \in Seq(ReplyType) /\ worker \in WorkerType
  BY Zenon DEF TagInv, Types
<1>1. CASE WorkerRead
  <2>1. /\ panic = "none" /\ calls' = calls /\ conn' = conn /\ net' = net
        /\ proc' = proc /\ clunks' = clunks /\ worker.st = "read"
        /\ replies # <<>> /\ replies' = Tail(replies)
    BY <1>1, Zenon DEF WorkerRead, Running
  <2>2. \A t : Waits(t)' <=> Waits(t)
    BY <2>1, Zenon DEF Waits
  <2>3. /\ Len(replies) \in Nat /\ Len(replies') = Len(replies) - 1 /\ Head(replies) = replies[1]
        /\ \A i \in 1..Len(replies') : replies'[i] = replies[i + 1]
    BY <1>0, <2>1, SMTT(30)
  <2>4. ASSUME NEW t \in calls, Coming(t) PROVE Coming(t)'
    <3>1. CASE \E m \in net : m.tag = t
      BY <2>1, <3>1, Zenon DEF Coming
    <3>2. CASE Head(replies).tag = t
      BY <1>1, <3>2, Zenon DEF Coming, WorkerRead
    <3>3. CASE \E i \in 1..Len(replies) : replies[i].tag = t /\ i # 1
      <4>1. PICK i \in 1..Len(replies) : replies[i].tag = t /\ i # 1
        BY <3>3, Zenon
      <4>2. i - 1 \in 1..Len(replies') /\ replies'[i - 1] = replies[i]
        BY <2>3, <4>1
      <4> QED
        BY <4>1, <4>2, Zenon DEF Coming
    <3> QED
      BY <2>1, <2>3, <2>4, <3>1, <3>2, <3>3, Zenon DEF Coming
  <2> QED
    BY <2>1, <2>2, <2>4, Zenon DEF WaitInv
<1>2. CASE WorkerDeliver
  <2>1. /\ panic = "none" /\ calls' = calls /\ conn' = conn /\ net' = net /\ replies' = replies
        /\ worker.st = "deliver"
    BY <1>2, Zenon DEF WorkerDeliver, Running, wireVars
  <2>2. \A t : Coming(t) /\ t # worker.tag => Coming(t)'
    BY <2>1, Zenon DEF Coming
  <2>3. ASSUME NEW g \in Procs,
               proc[g].pc \in {"walkWait", "callWait"}, proc[g].tag = worker.tag,
               proc' = [proc EXCEPT ![g] = AfterReply(@, worker.res)], clunks' = clunks
        PROVE  \A t : Waits(t)' => Waits(t) /\ t # worker.tag
    <3>1. proc'[g].pc \notin HoldingPCs /\ \A h \in Procs \ {g} : proc'[h] = proc[h]
      BY <1>0, <2>3, AfterReplyType, Zenon
    <3>2. Holding(g)
      BY <2>3, Zenon DEF Holding
    <3>3. \A h \in Procs \ {g} : proc[h].pc \in {"walkWait", "callWait"} => proc[h].tag # worker.tag
      BY <2>3, <3>2, Zenon DEF TagInv, HeldInv, Holding
    <3>4. \A k \in clunks : k.st = "wait" => k.tag # worker.tag
      BY <2>3, <3>2, Zenon DEF TagInv, HeldInv, HoldingClunks
    <3> QED
      BY <2>3, <3>1, <3>3, <3>4, SMTT(30) DEF Waits, HoldingPCs
  <2>4. ASSUME NEW k \in clunks, k.st = "wait", k.tag = worker.tag,
               clunks' = (clunks \ {k}) \cup {[k EXCEPT !.st = "done"]}, proc' = proc
        PROVE  \A t : Waits(t)' => Waits(t) /\ t # worker.tag
    <3>1. [k EXCEPT !.st = "done"].st = "done"
      BY <1>0, Zenon DEF ClunkType
    <3>2. k \in HoldingClunks
      BY <2>4, Zenon DEF HoldingClunks
    <3>3. \A h \in Procs : proc[h].pc \in {"walkWait", "callWait"} => proc[h].tag # worker.tag
      BY <2>4, <3>2, Zenon DEF TagInv, HeldInv, Holding
    <3>4. \A l \in clunks \ {k} : l.st = "wait" => l.tag # worker.tag
      BY <2>4, <3>2, Zenon DEF TagInv, HeldInv, HoldingClunks
    <3> QED
      BY <2>4, <3>1, <3>3, <3>4, Zenon DEF Waits
  <2>5. \A t : Waits(t)' => Waits(t) /\ t # worker.tag
    BY <1>2, <2>3, <2>4, Zenon DEF WorkerDeliver
  <2> QED
    BY <2>1, <2>2, <2>5, Zenon DEF WaitInv
<1>3. CASE WorkerReturn
  <2>1. /\ panic = "none" /\ calls' = calls \ {worker.tag} /\ conn' = conn /\ net' = net
        /\ replies' = replies /\ proc' = proc /\ clunks' = clunks /\ worker.st = "return"
    BY <1>3, Zenon DEF WorkerReturn, Running, wireVars
  <2>2. \A t : Waits(t)' => Waits(t)
    BY <2>1, Zenon DEF Waits
  <2>3. \A t : Waits(t) => t # worker.tag
    BY <2>1, Zenon DEF Waits, TagInv, CallInv, Ours, Holding, HoldingClunks
  <2>4. \A t : Coming(t) => Coming(t)'
    BY <2>1, Zenon DEF Coming
  <2> QED
    BY <2>1, <2>2, <2>3, <2>4, Zenon DEF WaitInv
<1>4. CASE WorkerEnd
  <2>1. conn' # "up"
    BY <1>4, Zenon DEF WorkerEnd, wireVars
  <2> QED
    BY <2>1, Zenon DEF WaitInv
<1> QED
  BY <1>1, <1>2, <1>3, <1>4, Zenon DEF Worker

\* A request the server answers becomes a reply.
LEMMA ServerWaits ==
  ASSUME TagInv, WaitInv, ServerHandle
  PROVE  WaitInv'
<1>0. replies \in Seq(ReplyType)
  BY Zenon DEF TagInv, Types
<1>1. PICK m \in net, res \in Results : Answer(m, res)
  BY Zenon DEF ServerHandle
<1>2. /\ panic = "none" /\ calls' = calls /\ conn' = conn
      /\ proc' = proc /\ clunks' = clunks /\ worker' = worker
  BY Zenon DEF ServerHandle, Running
<1>3. \A t : Waits(t)' <=> Waits(t)
  BY <1>2, Zenon DEF Waits
<1> DEFINE r == [tag |-> m.tag, res |-> res, who |-> m.who]
<1>4. r \in ReplyType /\ r.tag = m.tag
  BY Zenon DEF TagInv, Types, MessageType, ReplyType
<1>5. net' = net \ {m} /\ replies' = Append(replies, r)
  BY <1>1, Zenon DEF Answer
<1> HIDE DEF r
<1>6. /\ Len(replies) \in Nat /\ Len(replies') = Len(replies) + 1
      /\ replies'[Len(replies) + 1] = r /\ \A i \in 1..Len(replies) : replies'[i] = replies[i]
  BY <1>0, <1>4, <1>5, SMTT(30)
<1>7. Len(replies) + 1 \in 1..Len(replies') /\ 1..Len(replies) \subseteq 1..Len(replies')
  BY <1>6, SMTT(30)
<1>8. \A t : Coming(t) => Coming(t)'
  BY <1>2, <1>4, <1>5, <1>6, <1>7, Zenon DEF Coming
<1> QED
  BY <1>2, <1>3, <1>8, Zenon DEF WaitInv

\* File.Close drops the channels of the calls it wakes and of no other call.
LEMMA CloseWaits ==
  ASSUME AnswerInv, NEW g \in Procs, NEW file \in files, StartClose(g, file)
  PROVE  WaitInv'
<1> DEFINE S == {t \in Tag : tagFids[t] = file.fid}
<1>0. proc \in [Procs -> ProcType]
  BY Zenon DEF AnswerInv, TagInv, Types
<1>1. /\ panic = "none" /\ conn' = conn /\ clunks' = clunks /\ replies' = replies
      /\ worker' = worker /\ net \subseteq net' /\ proc[g] = Idle
      /\ conn = "up" => calls' = calls \ S
  BY ZenonT(30) DEF StartClose, Begin
<1>2. ASSUME NEW t, Waits(t)', conn = "up" PROVE Waits(t) /\ t \notin S
  <2>1. file.fid \in Fid /\ file.fid \notin {0, NoFid}
    BY ClientAssumption DEF AnswerInv, FidInv, Fid
  <2>2. ~(Walks(t) /\ t \in S)
    BY <2>1, Zenon DEF AnswerInv, BoundInv
  <2> DEFINE closing == [Idle EXCEPT !.pc = "clunkTag", !.op = "close",
                                     !.path = file.path, !.fid = file.fid]
  <2>3. /\ proc'[g] = closing
        /\ \A h \in Procs \ {g} :
             IF proc[h].pc = "callWait" /\ proc[h].tag \in S
             THEN proc'[h] = AfterReply(proc[h], "err") ELSE proc'[h] = proc[h]
    BY <1>2, Zenon DEF StartClose
  <2>4. closing.pc = "clunkTag"
    BY IdleType, Zenon DEF ProcType
  <2>5. \A h \in Procs : AfterReply(proc[h], "err").pc \notin HoldingPCs
    BY <1>0, AfterReplyType, Zenon
  <2> HIDE DEF closing, S
  <2>6. CASE \E k \in clunks' : k.st = "wait" /\ k.tag = t
    BY <1>1, <2>2, <2>6, Zenon DEF Waits, Walks, HoldingClunks
  <2>7. CASE \E h \in Procs : proc'[h].pc \in {"walkWait", "callWait"} /\ proc'[h].tag = t
    <3>1. PICK h \in Procs : proc'[h].pc \in {"walkWait", "callWait"} /\ proc'[h].tag = t
      BY <2>7, Zenon
    <3>2. h # g /\ proc'[h] = proc[h] /\ ~(proc[h].pc = "callWait" /\ proc[h].tag \in S)
      BY <2>3, <2>4, <2>5, <3>1, Zenon DEF HoldingPCs
    <3> QED
      BY <2>2, <3>1, <3>2, Zenon DEF Waits, Walks
  <2> QED
    BY <1>2, <2>6, <2>7, Zenon DEF Waits
<1>3. \A t : Coming(t) => Coming(t)'
  BY <1>1, Zenon DEF Coming
<1> HIDE DEF S
<1> QED
  BY <1>1, <1>2, <1>3, Zenon DEF AnswerInv, WaitInv

\* Every step keeps the answers of waiting calls under way.
LEMMA WaitInvNext ==
  ASSUME AnswerInv, [Next]_vars
  PROVE  WaitInv'
<1>0. TagInv /\ WaitInv
  BY Zenon DEF AnswerInv
<1>1. ASSUME NEW g \in Procs, Method(g) PROVE WaitInv'
  BY <1>0, <1>1, LocalSteps, CloseWaits, Zenon DEF Method
<1>2. ASSUME NEW g \in Procs, Continue(g) PROVE WaitInv'
  BY <1>0, <1>2, LocalSteps, SendSteps, Zenon DEF Continue
<1>3. ASSUME NEW k \in clunks, ClunkSend(k) PROVE WaitInv'
  BY <1>0, <1>3, SendSteps, Zenon
<1>4. ASSUME NEW k \in clunks, ClunkReturn(k) PROVE WaitInv'
  <2>1. /\ panic = "none" /\ calls' = calls /\ conn' = conn /\ net' = net /\ replies' = replies
        /\ worker' = worker /\ proc' = proc /\ clunks' \subseteq clunks
    BY <1>4, Zenon DEF ClunkReturn, Running, wireVars
  <2>2. \A t : Waits(t)' => Waits(t)
    BY <2>1, Zenon DEF Waits
  <2> QED
    BY <1>0, <2>1, <2>2, LocalKeeps, Zenon
<1>5. CASE Worker
  BY <1>0, <1>5, WorkerWaits, Zenon
<1>6. CASE ServerHandle
  BY <1>0, <1>6, ServerWaits, Zenon
<1>7. CASE Disconnect
  BY <1>7, Zenon DEF Disconnect, WaitInv
<1>8. CASE UNCHANGED vars
  BY <1>0, <1>8, Zenon DEF WaitInv, Waits, Coming, vars, wireVars
<1> QED
  BY <1>1, <1>2, <1>3, <1>4, <1>5, <1>6, <1>7, <1>8, Zenon DEF Next, Clunker

-------------------------------------------------------------------------------
(* The theorems.  The library's facts on finite sets are needed only here.  *)
INSTANCE FiniteSetTheorems

\* Tags are finitely many, so every set of them has a cardinality.
LEMMA TagsCounted == TagCounts
<1>1. IsFiniteSet(Tag)
  BY ClientAssumption, FS_Interval DEF Tag
<1> QED
  BY <1>1, FS_Subset, FS_CardinalityType, Zenon DEF TagCounts

\* Whatever the number of goroutines, the refusals of the server and the moment
\* the connection breaks, takeTag and returnTag hand a tag to one call at a time
\* and the worker gives each reply to the goroutine whose request it answers, also
\* when File.Close aborts calls in progress on its File and their answers come late.
THEOREM RepliesMatchAlways == Spec => []RepliesMatch
<1>1. Init => TagInv
  BY TagInvInit, Zenon
<1>2. TagInv /\ [Next]_vars => TagInv'
  BY TagInvNext, TagsCounted, Zenon
<1>3. TagInv => RepliesMatch
  BY TagInvSuffices, Zenon
<1> QED
  BY <1>1, <1>2, <1>3, PTL DEF Spec

\* On a connection that is up, while the program has not crashed, a goroutine that
\* waits in getResponse has its channel in Client.calls and its request, or the
\* reply, still on its way to it: for any number of goroutines, and also when
\* File.Close flushes calls at the same time.
THEOREM AnswerUnderWayAlways == Spec => []AnswerUnderWay
<1>1. Init => AnswerInv
  <2> SUFFICES ASSUME Init PROVE AnswerInv
    BY Zenon
  <2>1. TagInv
    BY TagInvInit, Zenon
  <2>2. FidInv
    BY IdleType, Zenon DEF Init, FidInv, HasFid
  <2>3. BoundInv
    BY IdleType, Zenon DEF Init, BoundInv, Walks, HoldingClunks
  <2>4. WaitInv
    BY IdleType, Zenon DEF Init, WaitInv, Waits
  <2> QED
    BY <2>1, <2>2, <2>3, <2>4, Zenon DEF AnswerInv
<1>2. AnswerInv /\ [Next]_vars => AnswerInv'
  BY TagsCounted, TagInvNext, FidInvNext, BoundInvNext, WaitInvNext, Zenon DEF AnswerInv
<1>3. AnswerInv => AnswerUnderWay
  BY AnswerInvSuffices, Zenon
<1> QED
  BY <1>1, <1>2, <1>3, PTL DEF Spec
===============================================================================
