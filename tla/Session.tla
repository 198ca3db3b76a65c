-------------------------------- MODULE Session --------------------------------
(***************************************************************************)
(* A client and a file server on the two ends of a connection: NewClient   *)
(* agrees on the message size, then the program calls one method.  The     *)
(* method followed to the end is Client.Readdir, which reads a directory   *)
(* in pieces: the server finds the place to go on from the byte offset,    *)
(* by adding up the lengths of the entries as they are then.  Any other    *)
(* method is a request and its reply.                                      *)
(*                                                                         *)
(* The two directions carry bytes, encoded and framed as in module Wire;   *)
(* module Channel says what they promise.                                  *)
(***************************************************************************)
EXTENDS Wire, FiniteSets

CONSTANTS
  Children,    \* the nodes of the directory, in the order of its listing
  FirstName,   \* their names when the directory is opened
  NewNames,    \* names given to them by another client
  MaxRenames,  \* bound on the renames in a behaviour
  ReadSizes,   \* how many bytes one Read of the connection may return
  Rooms,       \* the room bytes.Buffer.ReadFrom may offer to File.Read
  IOUnit,      \* proto.IOUnit
  Exchanges    \* the requests and replies of the other methods

ASSUME SessionAssumption ==
  /\ ReadSizes \subseteq Nat \ {0} /\ ReadSizes # {}
  /\ Rooms \subseteq Nat \ {0} /\ Rooms # {}
  /\ IOUnit \in 1..(Base^4 - 1) /\ MaxRenames \in Nat
  /\ \A x \in Exchanges : {x.req.type, x.rep.type} \subseteq Types

Dirs == {"up", "down"}     \* requests, replies

VARIABLES
  wire, rx,      \* the bytes on their way and the ParseCall in progress
  sent, recv,    \* the messages sent and received so far
  conn,          \* "up" or "down"
  client,        \* the goroutine that calls the client
  msize, smsize, \* Client.msize and the msize of the server's conn
  names,         \* the names of the children
  renames,       \* number of renames so far
  panic

wireVars   == <<wire, rx, sent, recv, conn>>
serverVars == <<smsize, names, renames>>
vars       == <<wireVars, serverVars, client, msize, panic>>

Tag     == 2
Root    == 0
NewFid  == 1
NoFid   == Base^4 - 1
Version == <<1>>
Name    == <<2>>
DirQid  == <<1, 0, 1>>

Message(type, tag, args) == [type |-> type, tag |-> tag, args |-> args]

Init ==
  /\ wire = [d \in Dirs |-> <<>>]
  /\ rx   = [d \in Dirs |-> NewReader]
  /\ sent = [d \in Dirs |-> <<>>]
  /\ recv = [d \in Dirs |-> <<>>]
  /\ conn = "up"
  /\ client = [pc |-> "start", off |-> 0, count |-> 0, iounit |-> 0, buf |-> <<>>, list |-> <<>>]
  /\ msize = 0 /\ smsize = 0
  /\ names = FirstName
  /\ renames = 0
  /\ panic = FALSE

-------------------------------------------------------------------------------
(* The connection                                                           *)

\* Write(m.Compose()): a write on a broken connection fails.
Send(d, m) ==
  LET written == conn = "up" /\ Composes(m)
  IN /\ wire' = [wire EXCEPT ![d] = IF written THEN @ \o Compose(m) ELSE @]
     /\ sent' = [sent EXCEPT ![d] = IF written THEN Append(@, m) ELSE @]
     /\ panic' = ~Composes(m)

\* One Read of the connection inside ParseCall.
ReadCall(d) ==
  /\ ~panic
  /\ wire[d] # <<>> /\ rx[d].st \in {"size", "body"}
  /\ \E n \in ReadSizes :
       LET k == Min({n, Len(wire[d]), rx[d].need - Len(rx[d].got)})
       IN /\ rx' = [rx EXCEPT ![d] = AfterBytes(readBytes(@, SubSeq(wire[d], 1, k)))]
          /\ wire' = [wire EXCEPT ![d] = From(@, k)]
  /\ UNCHANGED <<sent, recv, conn, client, msize, serverVars, panic>>

\* The Read fails: the reader on this end stops.
ReadFails(d) ==
  /\ ~panic
  /\ conn = "down" /\ wire[d] = <<>> /\ rx[d].st \in {"size", "body"}
  /\ rx' = [rx EXCEPT ![d].st = "dead"]
  /\ UNCHANGED <<wire, sent, recv, conn, client, msize, serverVars, panic>>

\* ParseCall returns the message m.
Parsed(d)      == ~panic /\ rx[d].st = "parsed"
Received(d, m) ==
  /\ recv' = [recv EXCEPT ![d] = Append(@, m)]
  /\ rx' = [rx EXCEPT ![d] = NewReader]
  /\ UNCHANGED conn

\* The connection breaks: what is on its way arrives, or is lost.
Break ==
  /\ ~panic
  /\ conn = "up"
  /\ conn' = "down"
  /\ wire' \in {wire, [d \in Dirs |-> <<>>]}
  /\ UNCHANGED <<rx, sent, recv, client, msize, serverVars, panic>>

-------------------------------------------------------------------------------
(* The server                                                               *)

\* The Stat of the i-th child, as it is now.
StatOf(i, n) == <<0, 0, <<0, 0, i>>, 0, 0, 0, 0, n, <<>>, <<>>, <<>>>>
Entry(i)     == ComposeStat(StatOf(i, names[Children[i]]))

\* The length of the entries from the i-th to the j-th.
Lengths(i, j) == FoldLeft(LAMBDA n, k : n + Len(Entry(k)), 0, [k \in 1..(j - i + 1) |-> i + k - 1])

\* Mutant: the lengths of the entries passed over are not added up.
readDirNoSum(offset, count) ==
  LET N     == Len(Children)
      start == {i \in 1..N : Len(Entry(i)) > offset}
      first == Min(start)
      upto  == {j \in first..N : Lengths(first, j) <= count}
  IN IF start = {} \/ upto = {} THEN <<>>
     ELSE Concat([k \in 1..(Max(upto) - first + 1) |-> Entry(first + k - 1)])

\* readDir: start at the first child that ends behind the offset, and add
\* whole entries as long as they fit.
readDir(offset, count) ==
  LET N     == Len(Children)
      start == {i \in 1..N : Lengths(1, i) > offset}
      first == Min(start)
      upto  == {j \in first..N : Lengths(first, j) <= count}
  IN IF start = {} \/ upto = {} THEN <<>>
     ELSE Concat([k \in 1..(Max(upto) - first + 1) |-> Entry(first + k - 1)])

\* server.Read of a directory: the count is cut down to what msize leaves.
Read(m) ==
  Message("Rread", m.tag, <<readDir(m.args[2], Min({m.args[3], smsize - 11}))>>)

\* Mutant: server.Version takes the size the client asks for.
AgreedAny(m) == m.args[1]

\* server.Version: the size the client asks for, at most MaxMsgLen.
Agreed(m) == Min({m.args[1], MaxMsgLen})

Reply(m) ==
  CASE m.type = "Tversion" -> Message("Rversion", m.tag, <<Agreed(m), m.args[2]>>)
    [] m.type = "Tattach"  -> Message("Rattach", m.tag, <<DirQid>>)
    [] m.type = "Twalk"    -> Message("Rwalk", m.tag, <<[i \in DOMAIN m.args[3] |-> DirQid]>>)
    [] m.type = "Topen"    -> Message("Ropen", m.tag, <<DirQid, IOUnit>>)
    [] m.type = "Tread"    -> Read(m)
    [] OTHER               -> Message("Rclunk", m.tag, <<>>)

\* The reply of another method is the one that Exchanges has for it.
Answers(m) == {x.rep : x \in {y \in Exchanges : y.req.type = m.type}}

ServerHandle ==
  /\ Parsed("up")
  /\ LET m == Parse(rx["up"].got) IN
       /\ Received("up", m)
       /\ smsize' = IF m.type = "Tversion" THEN Agreed(m) ELSE smsize
       /\ \E r \in IF Answers(m) = {} THEN {Reply(m)} ELSE Answers(m) : Send("down", r)
  /\ UNCHANGED <<client, msize, names, renames>>

\* Another client changes the name of a child.
Rename ==
  /\ ~panic
  /\ renames < MaxRenames
  /\ \E i \in DOMAIN Children, n \in NewNames : names' = [names EXCEPT ![Children[i]] = n]
  /\ renames' = renames + 1
  /\ UNCHANGED <<wireVars, client, msize, smsize, panic>>

-------------------------------------------------------------------------------
(* The client: NewClient, Readdir, File.Read                                *)

\* The method sends a request and waits at pc; if the write fails, it ends.
Call(c, pc, m) ==
  /\ client' = [c EXCEPT !.pc = IF conn = "up" THEN pc ELSE "done"]
  /\ Send("up", m)

\* NewClient asks for messages of 65536 bytes.
NewClient ==
  /\ ~panic
  /\ client.pc = "start"
  /\ Call(client, "version", Message("Tversion", 0, <<MaxMsgLen + 1, Version>>))
  /\ UNCHANGED <<rx, recv, conn, msize, serverVars>>

\* Readdir opens the directory: walkFid, then Topen.
Readdir ==
  /\ ~panic
  /\ client.pc = "ready"
  /\ Call(client, "walk", Message("Twalk", Tag, <<Root, NewFid, <<Name>>>>))
  /\ UNCHANGED <<rx, recv, conn, msize, serverVars>>

OtherMethod ==
  /\ ~panic
  /\ client.pc = "ready"
  /\ \E x \in Exchanges : Call(client, "other", x.req)
  /\ UNCHANGED <<rx, recv, conn, msize, serverVars>>

\* How much File.Read asks for.
Count(room) == Min({room, msize - 11, client.iounit})

\* File.Read, called by bytes.Buffer.ReadFrom.  If the write fails the error is
\* dropped: Readdir parses what it has.
ReadNext ==
  /\ ~panic
  /\ client.pc = "reading"
  /\ \E room \in Rooms :
       LET n == Count(room)
       IN Call([client EXCEPT !.count = n, !.list = IF conn = "up" THEN @ ELSE ParseStats(client.buf)],
               "read", Message("Tread", Tag, <<NewFid, client.off, n>>))
  /\ UNCHANGED <<rx, recv, conn, msize, serverVars>>

\* The reply to Tread: more data than asked for panics; none is the end, where
\* Readdir parses the entries and its deferred Close clunks the fid.
AfterRead(data) ==
  IF Len(data) > client.count
  THEN /\ panic' = TRUE
       /\ UNCHANGED <<client, wire, sent>>
  ELSE IF data = <<>>
  THEN Call([client EXCEPT !.list = ParseStats(client.buf)], "clunk",
            Message("Tclunk", Tag, <<NewFid>>))
  ELSE /\ client' = [client EXCEPT !.pc = "reading", !.buf = @ \o data, !.off = @ + Len(data)]
       /\ UNCHANGED <<wire, sent, panic>>

ClientHandle ==
  /\ Parsed("down")
  /\ LET m == Parse(rx["down"].got) IN
       /\ Received("down", m)
       /\ msize' = IF client.pc = "version" THEN m.args[1] ELSE msize
       /\ CASE client.pc = "version" ->
                 Call(client, "attach", Message("Tattach", 0, <<Root, NoFid, <<1>>, <<>>>>))
            [] client.pc = "walk" -> Call(client, "open", Message("Topen", Tag, <<NewFid, 0>>))
            [] client.pc = "read" -> AfterRead(m.args[1])
            [] OTHER ->
                 /\ client' = [client EXCEPT
                      !.pc = CASE @ = "attach" -> "ready" [] @ = "open" -> "reading" [] OTHER -> "done",
                      !.iounit = IF client.pc = "open" THEN m.args[2] ELSE @]
                 /\ UNCHANGED <<wire, sent, panic>>
  /\ UNCHANGED serverVars

-------------------------------------------------------------------------------
Caller == NewClient \/ Readdir \/ OtherMethod \/ ReadNext

Next ==
  \/ Caller \/ ClientHandle \/ ServerHandle
  \/ \E d \in Dirs : ReadCall(d) \/ ReadFails(d)
  \/ Break \/ Rename

Spec == Init /\ [][Next]_vars

-------------------------------------------------------------------------------
(* Properties                                                               *)

\* The types of the variables.
TypeOK ==
  /\ \A d \in Dirs : /\ rx[d].st \in {"size", "body", "parsed", "dead"}
                     /\ Len(rx[d].got) <= rx[d].need
                     /\ \A m \in ToSet(sent[d]) \cup ToSet(recv[d]) : m.type \in Types
  /\ conn \in {"up", "down"}
  /\ client.pc \in {"start", "version", "attach", "ready", "walk", "open", "reading", "read",
                    "clunk", "other", "done"}
  /\ client.off = Len(client.buf)
  /\ {msize, smsize} \subseteq 0..MaxMsgLen
  /\ renames \in 0..MaxRenames
  /\ panic \in BOOLEAN

Requests == INSTANCE Channel WITH sent <- sent["up"], recv <- recv["up"]
Replies  == INSTANCE Channel WITH sent <- sent["down"], recv <- recv["down"]

\* The requests arrive at the server, and the replies at the client, as the other
\* side composed them: ParseCall and Compose implement two channels of messages,
\* whatever pieces the connection hands out, up to where it breaks.
MessagesArrive == Requests!Spec /\ Replies!Spec

\* What Version agreed on is enough for what follows: no Rread is longer than
\* the server's msize, no message is longer than the other end's ParseCall
\* accepts, and the data never exceed what File.Read asked for ("Sent too much
\* data.").
WithinMsize ==
  /\ ~panic
  /\ \A d \in Dirs : \A m \in ToSet(sent[d]) :
       /\ Size(m) <= MaxMsgLen
       /\ m.type = "Rread" => Size(m) <= smsize

\* What Readdir returns: every entry is the whole Stat that a child has had, and
\* the entries are those of all the children, once and in order, provided that
\* nobody renames one meanwhile (the server finds its place by the present
\* lengths), that the connection lasts (the error of a read is dropped) and that
\* an entry fits in the room that bytes.Buffer offers (one that does not looks
\* like the end).
ListingRight ==
  /\ \A k \in DOMAIN client.list :
       \E i \in DOMAIN Children : \E n \in {FirstName[Children[i]]} \cup NewNames :
         client.list[k] = StatOf(i, n)
  /\ /\ client.pc = "clunk" \/ (client.pc = "done" /\ client.off > 0 /\ conn = "up")
     /\ renames = 0
     /\ \A i \in DOMAIN Children : Len(Entry(i)) <= Min(Rooms \cup {IOUnit, MaxMsgLen - 11})
     => client.list = [i \in DOMAIN Children |-> StatOf(i, names[Children[i]])]

\* A method that waits for its reply does not wait in vain: while the connection
\* is up a message is on its way, and its reader has bytes to read or has read it
\* all.  No reader waits for bytes that nobody will send.
ReplyUnderWay ==
  client.pc \notin {"start", "ready", "reading", "done"} /\ conn = "up" /\ ~panic =>
    \E d \in Dirs : /\ Len(recv[d]) < Len(sent[d])
                    /\ rx[d].st = "parsed" \/ (rx[d].st # "dead" /\ wire[d] # <<>>)
===============================================================================
