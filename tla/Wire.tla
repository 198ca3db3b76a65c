--------------------------------- MODULE Wire ---------------------------------
(***************************************************************************)
(* The messages of package proto and how they are put on a connection:     *)
(* Compose turns a message into bytes, ParseCall reads one from an         *)
(* io.Reader that returns as many bytes as it likes.                       *)
(*                                                                         *)
(* A message is [type, tag, args]; its layout lists the fields that follow *)
(* the header, in the order in which parse reads and Compose writes them:  *)
(* u4 is an unsigned integer of four bytes.  Base is the number of values  *)
(* of a byte (256 in the code), so that the edge of the 16-bit lengths, at *)
(* Base^2, comes within reach; the type byte keeps its value, 100 to 127.  *)
(***************************************************************************)
EXTENDS Integers, SequencesExt

CONSTANTS
  Base,        \* values of a byte
  MaxMsgLen    \* proto.MaxMsgLen, 65535 in the code: Base^2 - 1

ASSUME WireAssumption == Base \in Nat \ {0, 1} /\ MaxMsgLen \in 12..(Base^2 - 1)

uint16(n) == n % Base^2
Width     == [u1 |-> 1, u2 |-> 2, u4 |-> 4, u8 |-> 8]

-------------------------------------------------------------------------------
(* The layouts of the messages, one for each type of package proto.         *)

Qid       == <<"u1", "u4", "u8">>
Stat      == <<"u2", "u4", "qid", "u4", "u4", "u4", "u8", "string", "string", "string", "string">>
TRVersion == <<"u4", "string">>
TAuth     == <<"u4", "string", "string">>
RAuth     == <<"qid">>
TAttach   == <<"u4", "u4", "string", "string">>
RAttach   == <<"qid">>
RError    == <<"string">>
TFlush    == <<"u2">>
RFlush    == <<>>
TWalk     == <<"u4", "u4", "names">>
RWalk     == <<"qids">>
TOpen     == <<"u4", "u1">>
ROpen     == <<"qid", "u4">>
TCreate   == <<"u4", "string", "u4", "u1">>
RCreate   == <<"qid", "u4">>
TRead     == <<"u4", "u8", "u4">>
RRead     == <<"data">>
TWrite    == <<"u4", "u8", "data">>
RWrite    == <<"u4">>
TClunk    == <<"u4">>
RClunk    == <<>>
TRemove   == <<"u4">>
RRemove   == <<>>
TStat     == <<"u4">>
RStat     == <<"stat">>
TWstat    == <<"u4", "stat">>
RWstat    == <<>>

\* The switch of ParseCall.  Terror has no case there.
Layout ==
  [Tversion |-> TRVersion, Rversion |-> TRVersion, Tauth   |-> TAuth,   Rauth   |-> RAuth,
   Tattach  |-> TAttach,   Rattach  |-> RAttach,   Rerror  |-> RError,  Tflush  |-> TFlush,
   Rflush   |-> RFlush,    Twalk    |-> TWalk,     Rwalk   |-> RWalk,   Topen   |-> TOpen,
   Ropen    |-> ROpen,     Tcreate  |-> TCreate,   Rcreate |-> RCreate, Tread   |-> TRead,
   Rread    |-> RRead,     Twrite   |-> TWrite,    Rwrite  |-> RWrite,  Tclunk  |-> TClunk,
   Rclunk   |-> RClunk,    Tremove  |-> TRemove,   Rremove |-> RRemove, Tstat   |-> TStat,
   Rstat    |-> RStat,     Twstat   |-> TWstat,    Rwstat  |-> RWstat]

Types == DOMAIN Layout

Code ==
  [Tversion |-> 100, Rversion |-> 101, Tauth   |-> 102, Rauth   |-> 103, Tattach |-> 104,
   Rattach  |-> 105, Rerror   |-> 107, Tflush  |-> 108, Rflush  |-> 109, Twalk   |-> 110,
   Rwalk    |-> 111, Topen    |-> 112, Ropen   |-> 113, Tcreate |-> 114, Rcreate |-> 115,
   Tread    |-> 116, Rread    |-> 117, Twrite  |-> 118, Rwrite  |-> 119, Tclunk  |-> 120,
   Rclunk   |-> 121, Tremove  |-> 122, Rremove |-> 123, Tstat   |-> 124, Rstat   |-> 125,
   Twstat   |-> 126, Rwstat   |-> 127]

-------------------------------------------------------------------------------
(* Compose                                                                  *)

toLittleE(v, w) == [i \in 1..w |-> (v \div Base^(i - 1)) % Base]
toString(s)     == toLittleE(uint16(Len(s)), 2) \o s

Concat(seqs) == FlattenSeq(seqs)

\* The fields that are not themselves made of fields.
ComposeBasic(kind, v) == IF kind = "string" THEN toString(v) ELSE toLittleE(v, Width[kind])

ComposeQid(q) == Concat([i \in 1..3 |-> ComposeBasic(Qid[i], q[i])])

StatBody(s) ==
  Concat([i \in 1..11 |-> IF Stat[i] = "qid" THEN ComposeQid(s[i]) ELSE ComposeBasic(Stat[i], s[i])])

\* Stat.ComposeLength: the length with its own two bytes, as a uint16.
ComposeLength(s) == uint16(2 + Len(StatBody(s)))

\* Stat.Compose
ComposeStat(s) == toLittleE(ComposeLength(s) - 2, 2) \o StatBody(s)

ComposeField(kind, v) ==
  CASE kind = "qid"   -> ComposeQid(v)
    [] kind = "names" -> toLittleE(Len(v), 2) \o Concat([i \in DOMAIN v |-> toString(v[i])])
    [] kind = "qids"  -> toLittleE(Len(v), 2) \o Concat([i \in DOMAIN v |-> ComposeQid(v[i])])
    [] kind = "data"  -> toLittleE(Len(v), 4) \o v
    [] kind = "stat"  -> toLittleE(ComposeLength(v), 2) \o ComposeStat(v)
    [] OTHER          -> ComposeBasic(kind, v)

Fields(m) ==
  Concat([i \in DOMAIN Layout[m.type] |-> ComposeField(Layout[m.type][i], m.args[i])])

\* size[4] type[1] tag[2] and the fields.
Size(m) == 4 + 1 + 2 + Len(Fields(m))

\* The lengths of Rstat, Twstat and Rwalk are computed as uint16; a Compose whose
\* buffer is too short for what it writes panics.
Composes(m) == m.type \in {"Rstat", "Twstat", "Rwalk"} => Size(m) < Base^2

\* The Compose methods.
Compose(m) ==
  toLittleE(Size(m), 4) \o <<Code[m.type]>> \o toLittleE(m.tag, 2) \o Fields(m)

-------------------------------------------------------------------------------
(* Parsing.  A parser returns a value and the bytes that are left.  An       *)
(* integer or a string that is cut off is zero or empty, with no bytes left.*)

From(b, n) == SubSeq(b, n + 1, Len(b))

fromLittleE(b, w) ==
  IF Len(b) < w THEN [val |-> 0, buff |-> <<>>]
  ELSE [val |-> FoldRight(LAMBDA d, v : v * Base + d, SubSeq(b, 1, w), 0), buff |-> From(b, w)]

fromString(b) ==
  LET n == fromLittleE(b, 2)
  IN IF Len(n.buff) < n.val THEN [val |-> <<>>, buff |-> <<>>]
     ELSE [val |-> SubSeq(n.buff, 1, n.val), buff |-> From(n.buff, n.val)]

ParseBasic(kind, b) == IF kind = "string" THEN fromString(b) ELSE fromLittleE(b, Width[kind])

Then(acc, p) == [val |-> Append(acc.val, p.val), buff |-> p.buff]
Start(b)     == [val |-> <<>>, buff |-> b]

ParseQid(b) == FoldLeft(LAMBDA a, k : Then(a, ParseBasic(k, a.buff)), Start(b), Qid)

\* Stat.parse throws the length away.
ParseStat(b) ==
  FoldLeft(LAMBDA a, k : Then(a, IF k = "qid" THEN ParseQid(a.buff) ELSE ParseBasic(k, a.buff)),
           Start(fromLittleE(b, 2).buff), Stat)

\* A counted list: n elements, each read with Parse.
ParseMany(Parse(_), w, b) ==
  LET n == fromLittleE(b, w)
  IN FoldLeft(LAMBDA a, i : Then(a, Parse(a.buff)), Start(n.buff), [i \in 1..n.val |-> i])

ParseField(kind, b) ==
  CASE kind = "qid"   -> ParseQid(b)
    [] kind = "names" -> ParseMany(fromString, 2, b)
    [] kind = "qids"  -> ParseMany(ParseQid, 2, b)
    [] kind = "data"  -> LET n == fromLittleE(b, 4)
                         IN [val |-> SubSeq(n.buff, 1, n.val), buff |-> From(n.buff, n.val)]
    [] kind = "stat"  -> ParseStat(fromLittleE(b, 2).buff)
    [] OTHER          -> ParseBasic(kind, b)

\* Header.parse, then the parse method of the type.
Parse(b) ==
  LET type   == CHOOSE t \in Types : Code[t] = Head(b)
      tag    == fromLittleE(Tail(b), 2)
      fields == FoldLeft(LAMBDA a, k : Then(a, ParseField(k, a.buff)), Start(tag.buff), Layout[type])
  IN [type |-> type, tag |-> tag.val, args |-> fields.val]

RECURSIVE ParseStats(_)
ParseStats(b) == IF b = <<>> THEN <<>>
                 ELSE LET s == ParseStat(b) IN <<s.val>> \o ParseStats(s.buff)

-------------------------------------------------------------------------------
(* ParseCall: four bytes of size, then the rest, each read by readBytes.    *)

NewReader == [st |-> "size", need |-> 4, got |-> <<>>]

\* Mutant: readBytes calls Read once; the rest of the buffer stays zero.
readBytesOnce(r, bytes) ==
  [r EXCEPT !.got = [i \in 1..r.need |-> IF i <= Len(bytes) THEN bytes[i] ELSE 0]]

\* One Read of readBytes, which goes on until the buffer is full.
readBytes(r, bytes) == [r EXCEPT !.got = @ \o bytes]

\* Mutant: the four bytes of the size are not subtracted.
AfterBytesLong(r) ==
  IF Len(r.got) < r.need THEN r
  ELSE IF r.st = "size"
       THEN LET n == fromLittleE(r.got, 4).val
            IN IF n > MaxMsgLen THEN [r EXCEPT !.st = "dead"]
               ELSE [st |-> "body", need |-> n, got |-> <<>>]
       ELSE IF Len(r.got) < 3 \/ Head(r.got) \notin Range(Code) THEN [r EXCEPT !.st = "dead"]
       ELSE [r EXCEPT !.st = "parsed"]

\* The buffer is full: a size beyond MaxMsgLen is an error, and a message too
\* short for a header or with an unknown type too.
AfterBytes(r) ==
  IF Len(r.got) < r.need THEN r
  ELSE IF r.st = "size"
       THEN LET n == fromLittleE(r.got, 4).val
            IN IF n > MaxMsgLen THEN [r EXCEPT !.st = "dead"]
               ELSE [st |-> "body", need |-> n - 4, got |-> <<>>]
       ELSE IF Len(r.got) < 3 \/ Head(r.got) \notin Range(Code) THEN [r EXCEPT !.st = "dead"]
       ELSE [r EXCEPT !.st = "parsed"]
===============================================================================
