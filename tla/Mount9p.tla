-------------------------------- MODULE Mount9p --------------------------------
(***************************************************************************)
(* The directory cache of cmd/mount9p/main.go, for one directory: FUSE     *)
(* requests answer from Dir.dirCache until Dir.dirTTL, read the directory  *)
(* again from the 9P server after it, and end the TTL when they change     *)
(* something.  The clock is abstracted to whether dirTTL is over.          *)
(*                                                                         *)
(* The state of a name is whether the file exists and the number of the    *)
(* change that made it so; the number stands for the length, mode and      *)
(* times that a change leaves.  The kernel (external) holds the lock of    *)
(* the directory exclusively for a request that changes the directory and  *)
(* shared for a Lookup.  Requests on the files in it do not take that      *)
(* lock, and Dir has none of its own.  The directory is one that Lookup or *)
(* Mkdir put in the map dirCache, as they do with every one but the root.  *)
(***************************************************************************)
EXTENDS Integers, FiniteSets

CONSTANTS
  Names,    \* the names of the directory
  Threads,  \* the FUSE requests in progress
  None,     \* nil
  MaxVers   \* bound on the number of changes

ASSUME Mount9pAssumption == MaxVers \in Nat

VARIABLES
  fileRequests,  \* are there requests on the files of the directory, too?
  file,    \* the directory on the server
  vers,    \* the number of changes so far
  cache,   \* Dir.dirCache: the state of each name in the list, or nil
  fresh,   \* is dirTTL in the future?
  req,     \* the request of each thread, with its local variables
  own,     \* history: the last change of each name by a request that returned
  was,     \* history: the states each name has had
  answer   \* history: the last answer of Lookup or Getattr

vars == <<fileRequests, file, vers, cache, fresh, req, own, was, answer>>

Absent == [is |-> FALSE, ver |-> 0]
Idle == [pc |-> "idle"]

\* The requests that hold the lock of the directory, shared and exclusively.
Shared    == {t \in Threads : req[t].pc # "idle" /\ req[t].kind = "lookup"}
Exclusive == {t \in Threads : req[t].pc # "idle" /\ req[t].kind \in {"create", "remove", "rename"}}

\* The histories are kept for the properties of answers, which are about
\* directory requests alone.
Recorded(old, new) == IF fileRequests THEN old ELSE new

Init ==
  /\ fileRequests \in BOOLEAN
  /\ file \in [Names -> [is : BOOLEAN, ver : {0}]] /\ vers = 0
  /\ cache = None /\ fresh = FALSE
  /\ req = [t \in Threads |-> Idle]
  /\ own = [n \in Names |-> 0] /\ answer = None
  /\ was = [n \in Names |-> Recorded({}, {file[n]})]

Goes(t, pc) == req' = [req EXCEPT ![t].pc = pc]

-------------------------------------------------------------------------------
(* Requests that read: Lookup, and Getattr of a file or directory in it.    *)

\* Mutant of FirstStep: a list is used for ever.
FirstStepTrusting == IF cache = None THEN "fetch" ELSE "scan"

FirstStep == IF cache = None \/ ~fresh THEN "fetch" ELSE "scan"

BeginRead(t, kind, n) ==
  /\ req[t] = Idle
  /\ IF kind = "lookup" THEN Exclusive = {} ELSE fileRequests
  /\ req' = [req EXCEPT ![t] = [pc |-> FirstStep, kind |-> kind, name |-> n,
                                need |-> own[n], snap |-> None]]
  /\ UNCHANGED <<fileRequests, file, vers, cache, fresh, own, was, answer>>

\* client.Readdir, taken to give the whole list or to fail.
Fetch(t) ==
  /\ req[t].pc = "fetch"
  /\ req' = [req EXCEPT ![t].pc = "store", ![t].snap = file]
  /\ UNCHANGED <<fileRequests, file, vers, cache, fresh, own, was, answer>>

FetchFails(t) ==
  /\ req[t].pc = "fetch"
  /\ req' = [req EXCEPT ![t] = Idle]
  /\ UNCHANGED <<fileRequests, file, vers, cache, fresh, own, was, answer>>

StoreCache(t) ==
  /\ req[t].pc = "store" /\ Goes(t, "ttl")
  /\ cache' = req[t].snap
  /\ UNCHANGED <<fileRequests, file, vers, fresh, own, was, answer>>

StoreTTL(t) ==
  /\ req[t].pc = "ttl" /\ Goes(t, "scan")
  /\ fresh' = TRUE
  /\ UNCHANGED <<fileRequests, file, vers, cache, own, was, answer>>

Answers(t, got) ==
  /\ answer' = Recorded(answer, [name |-> req[t].name, need |-> req[t].need, got |-> got])
  /\ req' = [req EXCEPT ![t] = Idle]

\* Lookup answers from the list.
Lookup(t) ==
  /\ req[t].pc = "scan" /\ req[t].kind = "lookup"
  /\ Answers(t, cache[req[t].name])
  /\ UNCHANGED <<fileRequests, file, vers, cache, fresh, own, was>>

\* Getattr answers from the list, or asks the server with client.Stat.
Getattr(t) ==
  /\ req[t].pc = "scan" /\ req[t].kind = "getattr"
  /\ Answers(t, IF cache[req[t].name].is THEN cache[req[t].name]
                                          ELSE file[req[t].name])
  /\ UNCHANGED <<fileRequests, file, vers, cache, fresh, own, was>>

-------------------------------------------------------------------------------
(* Requests that change: Create and Mkdir, Unlink and Rmdir, Rename, Write  *)
(* and Setattr.                                                             *)

\* The server makes the change: afterwards the names in gone do not exist, those in
\* there do.
Changed(gone, there) ==
  /\ vers < MaxVers /\ vers' = vers + 1
  /\ file' = [n \in Names |-> IF n \in gone \cup there THEN [is |-> n \in there, ver |-> vers + 1]
                              ELSE file[n]]
  /\ was' = Recorded(was, [n \in Names |-> was[n] \cup {file'[n]}])

Begin(t, kind, ns) ==
  /\ req[t] = Idle
  /\ req' = [req EXCEPT ![t] = [pc |-> "expire", kind |-> kind, names |-> ns,
                                ver |-> vers + 1, list |-> None]]

Alone == Shared \cup Exclusive = {}

Create(t, n) ==
  /\ Alone /\ ~file[n].is
  /\ Changed({}, {n}) /\ Begin(t, "create", {n})
  /\ UNCHANGED <<fileRequests, cache, fresh, own, answer>>

Remove(t, n) ==
  /\ Alone /\ file[n].is
  /\ Changed({n}, {}) /\ Begin(t, "remove", {n})
  /\ UNCHANGED <<fileRequests, cache, fresh, own, answer>>

Rename(t, n, m) ==
  /\ Alone /\ file[n].is /\ ~file[m].is
  /\ Changed({n}, {m}) /\ Begin(t, "rename", {n, m})
  /\ UNCHANGED <<fileRequests, cache, fresh, own, answer>>

\* Write and Setattr of a file.
Write(t, n) ==
  /\ fileRequests /\ file[n].is
  /\ Changed({}, {n}) /\ Begin(t, "write", {n})
  /\ UNCHANGED <<fileRequests, cache, fresh, own, answer>>

Returns(t) ==
  /\ req' = [req EXCEPT ![t] = Idle]
  /\ own' = Recorded(own, [n \in Names |-> IF n \in req[t].names THEN req[t].ver ELSE own[n]])

\* Mutant of EndTTL: a rename leaves the TTL as it is.
EndTTLNotRename(t) ==
  /\ req[t].pc = "expire"
  /\ fresh' = (fresh /\ req[t].kind = "rename")
  /\ IF req[t].kind = "create" THEN Goes(t, "load") /\ UNCHANGED own ELSE Returns(t)
  /\ UNCHANGED <<fileRequests, file, vers, cache, was, answer>>

\* The request sets dirTTL to the zero time.
EndTTL(t) ==
  /\ req[t].pc = "expire"
  /\ fresh' = FALSE
  /\ IF req[t].kind = "create" THEN Goes(t, "load") /\ UNCHANGED own ELSE Returns(t)
  /\ UNCHANGED <<fileRequests, file, vers, cache, was, answer>>

\* Create and Mkdir append the new entry to the list, after any other entry
\* with that name: they load the list and store the longer one.
LoadList(t) ==
  /\ req[t].pc = "load"
  /\ req' = [req EXCEPT ![t].pc = "append",
                        ![t].list = IF cache = None THEN [n \in Names |-> Absent] ELSE cache]
  /\ UNCHANGED <<fileRequests, file, vers, cache, fresh, own, was, answer>>

StoreList(t) ==
  LET n == CHOOSE x \in req[t].names : TRUE
  IN  /\ Returns(t)
      /\ cache' = IF req[t].list[n].is THEN req[t].list
                  ELSE [req[t].list EXCEPT ![n] = [is |-> TRUE, ver |-> req[t].ver]]

\* Mutant of AppendEntry: the list with the entry counts as read.
AppendEntryTrusted(t) ==
  /\ req[t].pc = "append" /\ StoreList(t)
  /\ fresh' = TRUE
  /\ UNCHANGED <<fileRequests, file, vers, was, answer>>

AppendEntry(t) ==
  /\ req[t].pc = "append" /\ StoreList(t)
  /\ UNCHANGED <<fileRequests, file, vers, fresh, was, answer>>

-------------------------------------------------------------------------------
(* The rest of the world.                                                   *)

TimePasses ==
  /\ fresh /\ fresh' = FALSE
  /\ UNCHANGED <<fileRequests, file, vers, cache, req, own, was, answer>>

\* Another client of the server changes a file.
Remote(n) ==
  /\ Changed({}, {n}) \/ (file[n].is /\ Changed({n}, {}))
  /\ UNCHANGED <<fileRequests, cache, fresh, req, own, answer>>

Continue(t) ==
  \/ Fetch(t) \/ FetchFails(t) \/ StoreCache(t) \/ StoreTTL(t) \/ Lookup(t) \/ Getattr(t)
  \/ EndTTL(t) \/ LoadList(t) \/ AppendEntry(t)

Next ==
  \/ \E t \in Threads :
       \/ Continue(t)
       \/ \E n \in Names : \/ \E kind \in {"lookup", "getattr"} : BeginRead(t, kind, n)
                           \/ Create(t, n) \/ Remove(t, n) \/ Write(t, n)
                           \/ \E m \in Names \ {n} : Rename(t, n, m)
  \/ TimePasses
  \/ \E n \in Names : Remote(n)

Spec == Init /\ [][Next]_vars

\* A request in progress goes on, and the TTL comes to its end.
Fairness == WF_vars(TimePasses) /\ \A t \in Threads : WF_vars(Continue(t))
FairSpec == Spec /\ Fairness

-------------------------------------------------------------------------------
(* Properties.                                                              *)

\* The version numbers stay within their bound, and the list is trusted only
\* when there is one.
TypeOK ==
  /\ vers \in 0..MaxVers /\ {fresh, fileRequests} \subseteq BOOLEAN
  /\ file \in [Names -> [is : BOOLEAN, ver : 0..MaxVers]]
  /\ cache = None \/ cache \in [Names -> [is : BOOLEAN, ver : 0..MaxVers]]
  /\ fresh => cache # None

\* Lookup never answers from before a change of the directory that was made
\* through the mount and had returned when it was called, however long the TTL.
\* (Requests on files, without the lock, can store a list read before the change.)
OwnChangesSeen == answer # None => answer.got.ver >= answer.need

\* What Lookup answers was the state of the file on the server at
\* some time: the entry that Create appends, on its own or to an old list, is
\* never taken for the contents of the directory.
AnswersWereTrue == answer # None => answer.got \in was[answer.name]

\* Whatever races on Dir.dirCache and Dir.dirTTL, a wrong list is not believed for
\* ever: when the changes of the directory have come to an end, the TTL ends the
\* use of every list that was read or put together before.
StaleListsExpire == <>[](\A t \in Threads : req[t].pc = "scan" => cache = file)
===============================================================================
