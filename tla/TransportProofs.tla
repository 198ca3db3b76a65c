---------------------------- MODULE TransportProofs ----------------------------
(***************************************************************************)
(* What Transport guarantees for any number of calls, tags and workers and *)
(* for any capacity of the channels.                                       *)
(***************************************************************************)
EXTENDS Transport, FiniteSetTheorems, TLAPS

-------------------------------------------------------------------------------
(* The inductive invariant, in parts.                                       *)

\* A call is in a stage of handleCall exactly while one worker has it.
JobsInv ==
  /\ \A w \in Workers : job[w] # None => w \in up /\ at[job[w]] \in Stages
  /\ \A v, w \in Workers : job[v] = job[w] /\ job[v] # None => v = w
  /\ \A c \in Calls : at[c] \in Stages => \E w \in Workers : job[w] = c

\* What the states of the reader mean for the calls and the workers.
ReaderInv ==
  /\ reader = "returned" => up = {}
  /\ \A c \in Calls : at[c] = "refused" => reader = "refuse"
  /\ \A c, d \in Calls : at[c] = "refused" /\ at[d] = "refused" => c = d
  /\ up # Workers => \/ \E c \in Calls : at[c] = "error"
                     \/ /\ reader \in {"waitWorkers", "returned"}
                        /\ \A c \in Calls : at[c] # "incoming"

\* Unanswered calls have different tags.
TagsInv == \A c, d \in Unanswered : tag[c] = tag[d] => c = d

\* A call that is being handled has a context of its own, and DropContext finds
\* this one.
ContextInv ==
  /\ \A c \in Calls : at[c] \in Stages \ {"tagLoad", "tagStore"} => ctx[c] = c
  /\ \A c \in Calls : at[c] \in {"dropDelete", "dropCancel"} => seen[c] = c
  /\ \A c \in Calls : kind[c] = "invalid" =>
       /\ at[c] \notin {"handle", "check", "dropLoad", "dropDelete", "dropCancel", "send",
                        "refused", "outgoing", "answered"}
       /\ at[c] = "return" => failed[c]

\* conn.tags holds contexts of calls that have not come to Delete.
MapInv ==
  \A t \in Tags : tags[t] # None =>
    /\ tag[tags[t]] = t
    /\ \/ at[tags[t]] \in {"handle", "check", "dropLoad", "dropDelete"}
       \/ kind[tags[t]] = "invalid" /\ at[tags[t]] \in {"return", "error"}

\* Only a call that is through with its context has it cancelled.
CancelInv ==
  \A c \in cancelled : at[c] \in {"return", "send", "outgoing", "answered", "lost", "error"}

\* The client's window is respected.
WindowInv == Cardinality(Unanswered) <= Window

ShutdownInv == TypeOK /\ JobsInv /\ ReaderInv
TagInv == TypeOK /\ TagsInv /\ ContextInv /\ MapInv /\ CancelInv /\ NoReplySwallowed
QueueInv == ShutdownInv /\ WindowInv /\ NoPanic

-------------------------------------------------------------------------------
(* The types.                                                               *)

\* Every step of the server and the client keeps the types.
LEMMA TypeInductive == TypeOK /\ [Next]_vars => TypeOK'
<1> SUFFICES ASSUME TypeOK, [Next]_vars PROVE TypeOK'
  BY Zenon
<1> USE TransportAssumption
<1>1. CASE UNCHANGED vars
  BY <1>1, Zenon DEF TypeOK, vars, callVars
<1>2. ASSUME NEW c \in Calls, NEW t \in Tags, NEW k \in Kinds,
             Send(c, t, k)
      PROVE  TypeOK'
  BY <1>2, Zenon DEF TypeOK, Send, callVars, Places, Stages, Readers, Move, Running
<1>3. ASSUME NEW c \in Calls, ReadCall(c) PROVE TypeOK'
  BY <1>3, ZenonT(30) DEF TypeOK, ReadCall, callVars, Places, Stages, Readers, Move
<1>4. ASSUME NEW c \in Calls, ReadBadAttach(c) PROVE TypeOK'
  BY <1>4, Zenon DEF TypeOK, ReadBadAttach, callVars, Places, Stages, Readers, Move, Running
<1>5. ASSUME NEW c \in Calls, RefuseAttach(c) PROVE TypeOK'
  BY <1>5, Zenon DEF TypeOK, RefuseAttach, callVars, Places, Stages, Readers, Move, Running
<1>6. ASSUME NEW c \in Calls, WriteReply(c) PROVE TypeOK'
  BY <1>6, Zenon DEF TypeOK, WriteReply, callVars, Places, Stages, Readers, Move, Running
<1>7. CASE HangUp
  BY <1>7, Zenon DEF TypeOK, HangUp, callVars, Places, Stages, Readers, Running
<1>8. CASE ReadError
  BY <1>8, Zenon DEF TypeOK, ReadError, callVars, Places, Stages, Readers, Running
<1>9. CASE CloseIncoming
  BY <1>9, Zenon DEF TypeOK, CloseIncoming, callVars, Places, Stages, Readers, Running
<1>10. CASE CloseOutgoing
  BY <1>10, Zenon DEF TypeOK, CloseOutgoing, callVars, Places, Stages, Readers, Running
<1>11. ASSUME NEW w \in Workers, NEW c \in Calls, TakeCall(w, c) PROVE TypeOK'
  BY <1>11, Zenon DEF TypeOK, TakeCall, callVars, Places, Stages, Readers, Move, Running
<1>12. ASSUME NEW w \in Workers, TagLoad(w) PROVE TypeOK'
  <2> DEFINE c == job[w]
  <2>1. c \in Calls /\ tag[c] \in Tags
    BY <1>12, Zenon DEF TypeOK, TagLoad
  <2>2. CASE tags[tag[c]] = None
    BY <1>12, <2>1, <2>2, SMTT(30) DEF TypeOK, TagLoad, callVars, Places, Stages, Move, Running
  <2>3. CASE tags[tag[c]] # None
    <3>1. at' \in [Calls -> Places \cup Stages] /\ failed' \in [Calls -> BOOLEAN]
      BY <1>12, <2>1, <2>3, ZenonT(30) DEF TypeOK, TagLoad, Stages, Dispatch, Move
    <3>2. ctx' \in [Calls -> Calls \cup {None}]
      BY <1>12, <2>1, <2>3, Zenon DEF TypeOK, TagLoad
    <3>3. \A d \in Calls : at'[d] \in {"dropDelete", "dropCancel"} => seen[d] # None
      BY <1>12, <2>1, <2>3 DEF TypeOK, TagLoad, Dispatch, Move
    <3> QED
      BY <1>12, <3>1, <3>2, <3>3, Zenon DEF TypeOK, TagLoad, callVars, Running
  <2> QED
    BY <2>2, <2>3, Zenon
<1>13. ASSUME NEW w \in Workers, TagStore(w) PROVE TypeOK'
  <2> DEFINE c == job[w]
  <2>1. c \in Calls /\ tag[c] \in Tags
    BY <1>13, Zenon DEF TypeOK, TagStore
  <2>2. at' \in [Calls -> Places \cup Stages]
    BY <1>13, <2>1 DEF TypeOK, TagStore, Stages, Dispatch, Move
  <2>3. failed' \in [Calls -> BOOLEAN]
    BY <1>13, <2>1, Zenon DEF TypeOK, TagStore, Dispatch
  <2>4. ctx' \in [Calls -> Calls \cup {None}] /\ tags' \in [Tags -> Calls \cup {None}]
    BY <1>13, <2>1, Zenon DEF TypeOK, TagStore
  <2>5. \A d \in Calls : at'[d] \in {"dropDelete", "dropCancel"} => seen[d] # None
    BY <1>13, <2>1 DEF TypeOK, TagStore, Dispatch, Move
  <2> QED
    BY <1>13, <2>2, <2>3, <2>4, <2>5, Zenon DEF TypeOK, TagStore, Running
<1>14. ASSUME NEW w \in Workers, Handle(w) PROVE TypeOK'
  BY <1>14 DEF TypeOK, Handle, callVars, Places, Stages, Readers, Move, Running
<1>15. ASSUME NEW w \in Workers, CheckContext(w) PROVE TypeOK'
  BY <1>15, SMTT(30) DEF TypeOK, CheckContext, callVars, Places, Stages, Readers, Move, Running
<1>16. ASSUME NEW w \in Workers, DropLoad(w) PROVE TypeOK'
  BY <1>16, Zenon DEF TypeOK, DropLoad, callVars, Places, Stages, Readers, Move, Running
<1>17. ASSUME NEW w \in Workers, DropDelete(w) PROVE TypeOK'
  BY <1>17, Zenon DEF TypeOK, DropDelete, callVars, Places, Stages, Readers, Move, Running
<1>18. ASSUME NEW w \in Workers, DropCancel(w) PROVE TypeOK'
  BY <1>18, Zenon DEF TypeOK, DropCancel, callVars, Places, Stages, Readers, Move, Running
<1>19. ASSUME NEW w \in Workers, Return(w) PROVE TypeOK'
  BY <1>19 DEF TypeOK, Return, callVars, Places, Stages, Readers, Move, Running
<1>20. ASSUME NEW w \in Workers, SendReply(w) PROVE TypeOK'
  BY <1>20, ZenonT(30) DEF TypeOK, SendReply, callVars, Places, Stages, Readers, Move
<1>21. ASSUME NEW w \in Workers, WorkerExit(w) PROVE TypeOK'
  BY <1>21, Zenon DEF TypeOK, WorkerExit, callVars, Places, Stages, Readers, Running
<1> QED
  BY <1>1, <1>2, <1>3, <1>4, <1>5, <1>6, <1>7, <1>8, <1>9, <1>10, <1>11, <1>12, <1>13, <1>14, <1>15, <1>16, <1>17, <1>18, <1>19, <1>20, <1>21, Zenon DEF Next, Reader, Worker, Writer

\* The variables have their types when the connection is new.
LEMMA TypesInitially == Init => TypeOK
<1> SUFFICES ASSUME Init PROVE TypeOK
  BY Zenon
<1>1. (CHOOSE t \in Tags : TRUE) \in Tags /\ (CHOOSE k \in Kinds : TRUE) \in Kinds
  BY ClientAssumption, Zenon
<1>2. tag \in [Calls -> Tags] /\ kind \in [Calls -> Kinds]
  BY <1>1, Zenon DEF Init
<1>3. {hungup, panic} \subseteq BOOLEAN /\ failed \in [Calls -> BOOLEAN]
  BY ZenonT(30) DEF Init
<1>4. /\ ctx \in [Calls -> Calls \cup {None}] /\ seen \in [Calls -> Calls \cup {None}]
      /\ tags \in [Tags -> Calls \cup {None}] /\ job \in [Workers -> Calls \cup {None}]
  BY Zenon DEF Init
<1>5. /\ at \in [Calls -> Places \cup Stages] /\ reader \in Readers
      /\ \A c \in Calls : at[c] = "unsent"
  BY Zenon DEF Init, Places, Readers
<1> QED
  BY <1>2, <1>3, <1>4, <1>5, Zenon DEF Init, TypeOK

\* Spec keeps the types of all variables: in particular a tag's context and a
\* worker's job are always calls.
THEOREM TypeCorrect == Spec => []TypeOK
BY TypesInitially, TypeInductive, PTL DEF Spec

-------------------------------------------------------------------------------
(* Replies are not swallowed.                                               *)

\* The tag invariant is inductive for a client that gives unanswered requests
\* distinct tags.
LEMMA TagInductive ==
  ASSUME DistinctTags, TagInv, [Next]_vars PROVE TagInv'
<1>0. TypeOK /\ TypeOK'
  BY TypeInductive, Zenon DEF TagInv
<1> USE TransportAssumption, <1>0 DEF TagInv, TagsInv, ContextInv, MapInv, CancelInv,
      NoReplySwallowed, Unanswered, In, Stages, TypeOK, callVars, Move, Running
<1>1. CASE UNCHANGED vars
  BY <1>1, SMTT(30) DEF vars
<1>2. ASSUME NEW c \in Calls, NEW t \in Tags, NEW k \in Kinds,
             Send(c, t, k)
      PROVE  TagInv'
  BY <1>2, SMTT(30) DEF Send
<1>3. ASSUME NEW c \in Calls, ReadCall(c) PROVE TagInv'
  BY <1>3, SMTT(30) DEF ReadCall
<1>4. ASSUME NEW c \in Calls, ReadBadAttach(c) PROVE TagInv'
  BY <1>4, SMTT(30) DEF ReadBadAttach
<1>5. ASSUME NEW c \in Calls, RefuseAttach(c) PROVE TagInv'
  BY <1>5, SMTT(30) DEF RefuseAttach
<1>6. ASSUME NEW c \in Calls, WriteReply(c) PROVE TagInv'
  BY <1>6, SMTT(30) DEF WriteReply
<1>7. CASE HangUp
  BY <1>7, SMTT(30) DEF HangUp
<1>8. CASE ReadError
  BY <1>8, SMTT(30) DEF ReadError
<1>9. CASE CloseIncoming
  BY <1>9, SMTT(30) DEF CloseIncoming
<1>10. CASE CloseOutgoing
  BY <1>10, SMTT(30) DEF CloseOutgoing
<1>11. ASSUME NEW w \in Workers, NEW c \in Calls, TakeCall(w, c) PROVE TagInv'
  BY <1>11, SMTT(30) DEF TakeCall
<1>12. ASSUME NEW w \in Workers, TagLoad(w) PROVE TagInv'
  BY <1>12, SMTT(30) DEF TagLoad, Dispatch
<1>13. ASSUME NEW w \in Workers, TagStore(w) PROVE TagInv'
  BY <1>13, SMTT(30) DEF TagStore, Dispatch
<1>14. ASSUME NEW w \in Workers, Handle(w) PROVE TagInv'
  BY <1>14, SMTT(30) DEF Handle
<1>15. ASSUME NEW w \in Workers, CheckContext(w) PROVE TagInv'
  <2> DEFINE c == job[w]
  <2>1. c \in Calls /\ at[c] = "check" /\ ctx[c] = c /\ c \notin cancelled
    BY <1>15, SMTT(30) DEF CheckContext
  <2>2. at' = [at EXCEPT ![c] = "dropLoad"] /\ UNCHANGED <<callVars, tags, cancelled>>
    BY <1>15, <2>1, Zenon DEF CheckContext
  <2> QED
    BY <2>1, <2>2, SMTT(30)
<1>16. ASSUME NEW w \in Workers, DropLoad(w) PROVE TagInv'
  BY <1>16, SMTT(30) DEF DropLoad
<1>17. ASSUME NEW w \in Workers, DropDelete(w) PROVE TagInv'
  BY <1>17, SMTT(30) DEF DropDelete
<1>18. ASSUME NEW w \in Workers, DropCancel(w) PROVE TagInv'
  BY <1>18, SMTT(30) DEF DropCancel
<1>19. ASSUME NEW w \in Workers, Return(w) PROVE TagInv'
  BY <1>19, SMTT(30) DEF Return
<1>20. ASSUME NEW w \in Workers, SendReply(w) PROVE TagInv'
  BY <1>20, SMTT(30) DEF SendReply
<1>21. ASSUME NEW w \in Workers, WorkerExit(w) PROVE TagInv'
  BY <1>21 DEF WorkerExit
<1> QED
  BY <1>1, <1>2, <1>3, <1>4, <1>5, <1>6, <1>7, <1>8, <1>9, <1>10, <1>11,
     <1>12, <1>13, <1>14, <1>15, <1>16, <1>17, <1>18, <1>19, <1>20, <1>21, Zenon DEF
     Next, Reader, Worker, Writer

\* It holds when the connection is new.
LEMMA TagInvInitially == Init => TagInv
<1> SUFFICES ASSUME Init PROVE TagInv
  BY Zenon
<1>1. TypeOK
  BY TypesInitially, Zenon
<1> QED
  BY <1>1, Zenon DEF Init, TagInv, TagsInv, ContextInv, MapInv, CancelInv, NoReplySwallowed,
              Unanswered, In, Stages

\* A client that gives unanswered requests distinct tags gets a reply, or an
\* error, from handleCall for each of them, however the several steps of
\* TagContext and DropContext of different workers interleave.
THEOREM RepliesNotSwallowed ==
  ASSUME DistinctTags PROVE Spec => []NoReplySwallowed
<1>1. TagInv => NoReplySwallowed
  BY Zenon DEF TagInv
<1>2. TagInv /\ [Next]_vars => TagInv'
  BY TagInductive, Zenon
<1> QED
  BY TagInvInitially, <1>1, <1>2, PTL DEF Spec

\* For such a client conn.tags holds no context of a call that is over, except
\* that of a message that was no request: DropContext removes what TagContext
\* has entered.
THEOREM ContextsAreDropped ==
  ASSUME DistinctTags PROVE Spec => []ContextsDropped
<1>1. TagInv => ContextsDropped
  BY Zenon DEF TagInv, MapInv, ContextsDropped, Stages
<1>2. TagInv /\ [Next]_vars => TagInv'
  BY TagInductive, Zenon
<1> QED
  BY TagInvInitially, <1>1, <1>2, PTL DEF Spec

-------------------------------------------------------------------------------
(* The order of the shutdown.                                               *)

\* Every step keeps the jobs of the workers and the state of the reader in line.
LEMMA ShutdownInductive ==
  ASSUME ShutdownInv, [Next]_vars PROVE ShutdownInv'
<1>0. TypeOK /\ TypeOK'
  BY TypeInductive, Zenon DEF ShutdownInv
<1> USE TransportAssumption, <1>0 DEF ShutdownInv, JobsInv, ReaderInv, In,
      Stages, TypeOK, callVars, Move, Running
<1>1. CASE UNCHANGED vars
  BY <1>1, Zenon DEF vars
<1>2. ASSUME NEW c \in Calls, NEW t \in Tags, NEW k \in Kinds,
             Send(c, t, k)
      PROVE  ShutdownInv'
  BY <1>2, SMTT(30) DEF Send
<1>3. ASSUME NEW c \in Calls, ReadCall(c) PROVE ShutdownInv'
  BY <1>3, SMTT(30) DEF ReadCall
<1>4. ASSUME NEW c \in Calls, ReadBadAttach(c) PROVE ShutdownInv'
  BY <1>4, SMTT(30) DEF ReadBadAttach
<1>5. ASSUME NEW c \in Calls, RefuseAttach(c) PROVE ShutdownInv'
  BY <1>5, SMTT(30) DEF RefuseAttach
<1>6. ASSUME NEW c \in Calls, WriteReply(c) PROVE ShutdownInv'
  BY <1>6, SMTT(30) DEF WriteReply
<1>7. CASE HangUp
  BY <1>7, Zenon DEF HangUp
<1>8. CASE ReadError
  BY <1>8, Zenon DEF ReadError
<1>9. CASE CloseIncoming
  BY <1>9, Zenon DEF CloseIncoming
<1>10. CASE CloseOutgoing
  BY <1>10, Zenon DEF CloseOutgoing
<1>11. ASSUME NEW w \in Workers, NEW c \in Calls, TakeCall(w, c) PROVE ShutdownInv'
  BY <1>11, SMTT(30) DEF TakeCall
<1>12. ASSUME NEW w \in Workers, TagLoad(w) PROVE ShutdownInv'
  BY <1>12, SMTT(30) DEF TagLoad, Dispatch
<1>13. ASSUME NEW w \in Workers, TagStore(w) PROVE ShutdownInv'
  BY <1>13, SMTT(30) DEF TagStore, Dispatch
<1>14. ASSUME NEW w \in Workers, Handle(w) PROVE ShutdownInv'
  BY <1>14, SMTT(30) DEF Handle
<1>15. ASSUME NEW w \in Workers, CheckContext(w) PROVE ShutdownInv'
  BY <1>15, SMTT(30) DEF CheckContext
<1>16. ASSUME NEW w \in Workers, DropLoad(w) PROVE ShutdownInv'
  BY <1>16, SMTT(30) DEF DropLoad
<1>17. ASSUME NEW w \in Workers, DropDelete(w) PROVE ShutdownInv'
  BY <1>17, SMTT(30) DEF DropDelete
<1>18. ASSUME NEW w \in Workers, DropCancel(w) PROVE ShutdownInv'
  BY <1>18, SMTT(30) DEF DropCancel
<1>19. ASSUME NEW w \in Workers, Return(w) PROVE ShutdownInv'
  <2>1. JobsInv'
    BY <1>19, SMTT(30) DEF Return
  <2>2. ReaderInv'
    BY <1>19, SMTT(30) DEF Return
  <2> QED
    BY <2>1, <2>2, Zenon
<1>20. ASSUME NEW w \in Workers, SendReply(w) PROVE ShutdownInv'
  <2>1. CASE reader = "returned"
    BY <1>20, <2>1, Zenon DEF SendReply
  <2>2. CASE reader # "returned"
    <3>1. JobsInv'
      BY <1>20, <2>2, SMTT(30) DEF SendReply
    <3>2. ReaderInv'
      BY <1>20, <2>2, SMTT(30) DEF SendReply
    <3> QED
      BY <3>1, <3>2, Zenon
  <2> QED
    BY <2>1, <2>2, Zenon
<1>21. ASSUME NEW w \in Workers, WorkerExit(w) PROVE ShutdownInv'
  BY <1>21, Zenon DEF WorkerExit
<1> QED
  BY <1>1, <1>2, <1>3, <1>4, <1>5, <1>6, <1>7, <1>8, <1>9, <1>10, <1>11,
     <1>12, <1>13, <1>14, <1>15, <1>16, <1>17, <1>18, <1>19, <1>20, <1>21, Zenon DEF
     Next, Reader, Worker, Writer

\* They are in line when the connection is new.
LEMMA ShutdownInvInitially == Init => ShutdownInv
  BY TypesInitially, TransportAssumption, Zenon DEF Init, ShutdownInv, JobsInv, ReaderInv, Stages

\* handleIOAsync returns only after every worker has ended and, unless Go errors
\* have ended some of them, after every accepted request was handled.
THEOREM ShutdownIsOrdered == Spec => []ShutdownOrder
<1>1. ShutdownInv => ShutdownOrder
  BY TransportAssumption DEF ShutdownInv, JobsInv, ReaderInv, ShutdownOrder, TypeOK, In
<1>2. ShutdownInv /\ [Next]_vars => ShutdownInv'
  BY ShutdownInductive, Zenon
<1> QED
  BY ShutdownInvInitially, <1>1, <1>2, PTL DEF Spec

-------------------------------------------------------------------------------
(* The channel incoming does not overflow.                                  *)

\* Among the unanswered requests the queued ones are fewer when one more is on
\* its way to the queue.
LEMMA QueueBelowWindow ==
  ASSUME NEW c \in Calls, at[c] = "net"
  PROVE  Cardinality(In("incoming")) < Cardinality(Unanswered)
<1>1. IsFiniteSet(Unanswered)
  BY FS_Subset, TransportAssumption, Zenon DEF Unanswered
<1>2. In("incoming") \subseteq Unanswered \ {c}
  BY Zenon DEF In, Unanswered
<1>3. c \in Unanswered
  BY Zenon DEF Unanswered
<1>4. /\ IsFiniteSet(Unanswered \ {c})
      /\ Cardinality(Unanswered \ {c}) = Cardinality(Unanswered) - 1
  BY <1>1, <1>3, FS_RemoveElement, Zenon
<1>5. Cardinality(In("incoming")) <= Cardinality(Unanswered \ {c})
  BY <1>2, <1>4, FS_Subset, Zenon
<1>6. Cardinality(Unanswered) \in Nat /\ Cardinality(In("incoming")) \in Nat
  BY <1>1, <1>2, <1>4, FS_Subset, FS_CardinalityType, Zenon
<1> QED
  BY <1>4, <1>5, <1>6

\* A step that sends nothing leaves no more requests unanswered than before.
LEMMA WindowKept ==
  ASSUME WindowInv, Unanswered' \subseteq Unanswered PROVE WindowInv'
<1>1. IsFiniteSet(Unanswered)
  BY FS_Subset, TransportAssumption, Zenon DEF Unanswered
<1>2. Cardinality(Unanswered') <= Cardinality(Unanswered)
  BY <1>1, FS_Subset, Zenon
<1>3. Cardinality(Unanswered) \in Nat /\ Cardinality(Unanswered') \in Nat
  BY <1>1, FS_Subset, FS_CardinalityType, Zenon
<1> QED
  BY <1>2, <1>3, TransportAssumption DEF WindowInv

\* A client that never has more requests unanswered than incoming has room for
\* cannot make the reader panic, and no worker ever sends on the closed channel.
LEMMA QueueInductive ==
  ASSUME Window <= InCap, QueueInv, [Next]_vars PROVE QueueInv'
<1>0. TypeOK /\ ShutdownInv'
  BY ShutdownInductive, Zenon DEF QueueInv, ShutdownInv
<1>1. WindowInv'
  <2>1. ASSUME NEW c \in Calls, NEW t \in Tags, NEW k \in Kinds,
             Send(c, t, k)
      PROVE  WindowInv'
    <3>1. IsFiniteSet(Unanswered) /\ Unanswered' = Unanswered \cup {c}
      BY <1>0, <2>1, FS_Subset, TransportAssumption DEF TypeOK, Send, Move, Unanswered
    <3>2. c \notin Unanswered
      BY <2>1, Zenon DEF Send, Unanswered
    <3>3. Cardinality(Unanswered') = Cardinality(Unanswered) + 1
      BY <3>1, <3>2, FS_AddElement, Zenon
    <3>4. Cardinality(Unanswered) \in Nat /\ Cardinality(Unanswered) < Window
      BY <2>1, <3>1, FS_CardinalityType, Zenon DEF Send
    <3> QED
      BY <3>3, <3>4, TransportAssumption, SMTT(30) DEF WindowInv
  <2>2. ASSUME ~ \E c \in Calls, t \in Tags, k \in Kinds : Send(c, t, k)
        PROVE  Unanswered' \subseteq Unanswered
    <3> USE <1>0 DEF TypeOK, Unanswered, Stages, Move
    <3>1. CASE UNCHANGED vars \/ HangUp \/ Writer
      BY <3>1, Zenon DEF vars, HangUp, Writer, WriteReply
    <3>2. CASE Reader
      BY <3>2, Zenon DEF Reader, ReadCall, ReadBadAttach, RefuseAttach, ReadError, CloseIncoming,
                  CloseOutgoing
    <3>3. ASSUME NEW w \in Workers, Worker(w) PROVE Unanswered' \subseteq Unanswered
      <4>1. CASE \E c \in Calls : TakeCall(w, c)
        BY <4>1, Zenon DEF TakeCall
      <4>2. CASE TagLoad(w) \/ TagStore(w) \/ Handle(w) \/ CheckContext(w)
        BY <4>2, SMTT(30) DEF TagLoad, TagStore, Dispatch, Handle, CheckContext
      <4>3. CASE DropLoad(w) \/ DropDelete(w) \/ DropCancel(w)
        BY <4>3, Zenon DEF DropLoad, DropDelete, DropCancel
      <4>4. CASE Return(w) \/ SendReply(w) \/ WorkerExit(w)
        BY <4>4, Zenon DEF Return, SendReply, WorkerExit
      <4> QED
        BY <3>3, <4>1, <4>2, <4>3, <4>4, Zenon DEF Worker
    <3> QED
      BY <2>2, <3>1, <3>2, <3>3, [Next]_vars, Zenon DEF Next
  <2> QED
    BY <2>1, <2>2, WindowKept, Zenon DEF QueueInv
<1>2. NoPanic'
  <2>1. ASSUME NEW c \in Calls, ReadCall(c) PROVE NoPanic'
    <3>1. Cardinality(In("incoming")) < InCap
      <4>1. Cardinality(In("incoming")) < Cardinality(Unanswered)
        BY <2>1, QueueBelowWindow, Zenon DEF ReadCall
      <4>2. /\ Cardinality(Unanswered) \in Nat
            /\ Cardinality(In("incoming")) \in Nat
        BY FS_Subset, FS_CardinalityType, TransportAssumption, Zenon DEF Unanswered, In
      <4> QED
        BY <4>1, <4>2, TransportAssumption, SMTT(30) DEF QueueInv, WindowInv
    <3> QED
      BY <2>1, <3>1, Zenon DEF ReadCall, NoPanic, QueueInv
  <2>2. ASSUME NEW w \in Workers, SendReply(w) PROVE NoPanic'
    <3>1. w \in up
      BY <2>2, Zenon DEF SendReply, QueueInv, ShutdownInv, JobsInv
    <3>2. reader # "returned"
      BY <3>1, Zenon DEF QueueInv, ShutdownInv, ReaderInv
    <3> QED
      BY <2>2, <3>2, Zenon DEF SendReply, NoPanic, QueueInv
  <2>3. ASSUME ~ \E c \in Calls : ReadCall(c), ~ \E w \in Workers : SendReply(w)
        PROVE  panic' = panic
    BY <2>3, [Next]_vars, ZenonT(30)
       DEF Next, vars, Running, Reader, Worker, Writer, Send, HangUp, ReadBadAttach,
           RefuseAttach, ReadError, CloseIncoming, CloseOutgoing, TakeCall, TagLoad,
           TagStore, Handle, CheckContext, DropLoad, DropDelete, DropCancel, Return,
           WorkerExit, WriteReply
  <2> QED
    BY <2>1, <2>2, <2>3, Zenon DEF QueueInv, NoPanic
<1> QED
  BY <1>0, <1>1, <1>2, Zenon DEF QueueInv

\* "FAILED TO QUEUE INCOMING!" cannot happen while the client keeps at most as
\* many requests unanswered as the channel incoming has room for (100), whatever
\* the workers do.
THEOREM QueueDoesNotOverflow ==
  ASSUME Window <= InCap PROVE Spec => []NoPanic
<1>1. Init => QueueInv
  <2> SUFFICES ASSUME Init PROVE QueueInv
    BY Zenon
  <2>1. ShutdownInv
    BY ShutdownInvInitially, Zenon
  <2>2. Unanswered = {}
    BY Zenon DEF Init, Unanswered
  <2> QED
    BY <2>1, <2>2, FS_EmptySet, TransportAssumption DEF QueueInv, WindowInv, NoPanic, Init
<1>2. QueueInv => NoPanic
  BY Zenon DEF QueueInv
<1>3. QueueInv /\ [Next]_vars => QueueInv'
  BY QueueInductive, Zenon
<1> QED
  BY <1>1, <1>2, <1>3, PTL DEF Spec
===============================================================================
