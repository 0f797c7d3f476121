------------------------------ MODULE Builder ------------------------------
(***************************************************************************)
(* Builder (builder.go) as operators on its state: the bytes written, the  *)
(* first error, whether a record is open and how many units it has, and    *)
(* the same two of every level around.  A primitive writes one code and    *)
(* what follows it; the composed methods are made of primitives.           *)
(*                                                                         *)
(* An optional argument is a sequence of none or one.  A method that takes *)
(* a function (Level) is two calls: what it writes before the function     *)
(* runs, and CAN.                                                          *)
(***************************************************************************)
EXTENDS C0Scan

NewBuilder == [buf |-> <<>>, err |-> "none", inRecord |-> FALSE, units |-> 0,
               stack |-> <<>>]

Errors == {"none", "ErrNotName", "ErrNoLevel", "ErrEmptyNote"}

BuilderType == [buf : Seq(Byte), err : Errors, inRecord : BOOLEAN, units : Nat,
                stack : Seq([inRecord : BOOLEAN, units : Nat])]

Put(b, bytes) == [b EXCEPT !.buf = @ \o bytes]

SetErr(b, err) == IF b.err = "none" THEN [b EXCEPT !.err = err] ELSE b

EndRecord(b) == [b EXCEPT !.inRecord = FALSE, !.units = 0]

WriteName(b, name) ==
  IF IsName(name) THEN Put(b, name) ELSE SetErr(b, "ErrNotName")

Optional(b, arg, Write(_, _)) == IF arg = <<>> THEN b ELSE Write(b, arg[1])

WriteValue(b, v) == Put(b, Spelled(v))
-----------------------------------------------------------------------------
(* Primitives. *)
PutFS(b, name) == WriteName(Put(EndRecord(b), <<FS>>), name)

PutGS(b, name) == Optional(Put(EndRecord(b), <<GS>>), name, WriteName)

FirstValue(b, v) == [WriteValue(b, v) EXCEPT !.units = 1]

PutRS(b, value) ==
  Optional([Put(b, <<RS>>) EXCEPT !.inRecord = TRUE, !.units = 0], value, FirstValue)

PutUS(b, value) == [Optional(Put(b, <<US>>), value, WriteValue) EXCEPT !.units = @ + 1]

(* The new side of a substitution; no unit. *)
PutSUB(b, value) == Optional(Put(b, <<SUB>>), value, WriteValue)

PutSOH(b, name) == Optional(Put(b, <<SOH>>), name, WriteName)

PutDLE(b) ==
  [Put(b, <<DLE>>) EXCEPT
     !.stack = Append(@, [inRecord |-> b.inRecord, units |-> b.units]),
     !.inRecord = FALSE, !.units = 0]

PutCAN_KeepsUnits(b) ==
  IF b.stack = <<>> THEN SetErr(b, "ErrNoLevel")
  ELSE [Put(b, <<CAN>>) EXCEPT !.stack = Front(@),
          !.inRecord = Last(b.stack).inRecord]

PutCAN(b) ==
  IF b.stack = <<>> THEN SetErr(b, "ErrNoLevel")
  ELSE [Put(b, <<CAN>>) EXCEPT !.stack = Front(@),
          !.inRecord = Last(b.stack).inRecord, !.units = Last(b.stack).units]

PutBEL(b, text) ==
  IF text = <<<<>>>> THEN SetErr(b, "ErrEmptyNote")
  ELSE Optional(Put(b, <<BEL>>), text, WriteValue)

WriteSegment(b, seg) ==
  IF seg = <<>> THEN SetErr(b, "ErrNotName") ELSE WriteName(b, seg)

WritePath(b, path) ==
  LET more(x, seg) == WriteSegment(Put(x, <<US>>), seg) IN
  Put(FoldLeft(more, WriteSegment(Put(b, <<STX>>), Head(path)), Tail(path)), <<ETX>>)

PutENQ(b, path) ==
  LET enq == Put(b, <<ENQ>>) IN
  CASE Len(path) = 0 -> SetErr(enq, "ErrNotName")
    [] Len(path) = 1 -> WriteName(enq, path[1])
    [] OTHER -> WritePath(enq, path)

PutSYN(b) == Put(EndRecord(b), <<SYN>>)
PutEOT(b) == Put(EndRecord(b), <<EOT>>)
PutETB(b, payload) == Optional(Put(EndRecord(b), <<ETB>>), payload, WriteName)
PutEM(b, tail) == Put(EndRecord(b), <<EM>> \o tail)
-----------------------------------------------------------------------------
(* Composed methods. *)
Heading(b, key, value) == PutUS(PutSOH(EndRecord(b), <<key>>), <<value>>)

OpenHeadingLevel(b, key) == PutDLE(PutUS(PutSOH(EndRecord(b), <<key>>), <<>>))

Header(b, names) ==
  LET row == PutRS(PutSOH(b, <<>>), <<>>)
      more(x, name) == WriteName(PutUS(x, <<>>), name)
  IN  IF names = <<>> THEN EndRecord(row)
      ELSE EndRecord(FoldLeft(more, WriteName(row, Head(names)), Tail(names)))

(* Headers are optional too: a group without, or with a row of names. *)
GroupAt(b, name, headers, depth) ==
  LET marks == [i \in 1 .. (depth - 1) |-> GS]
      line == PutGS(Put(EndRecord(b), marks), <<name>>)
  IN  IF headers = <<>> THEN line ELSE Header(line, headers[1])

Field(b, v) ==
  CASE ~b.inRecord -> PutRS(b, <<v>>)
    [] b.inRecord /\ b.units = 0 -> FirstValue(b, v)
    [] OTHER -> PutUS(b, <<v>>)

Record_ForgetsOpen(b, fields) == FoldLeft(Field, Put(b, <<RS>>), fields)

Record(b, fields) == FoldLeft(Field, PutRS(b, <<>>), fields)

OpenRecord(b) == IF b.inRecord THEN b ELSE PutRS(b, <<>>)

Key(b, name, value) == PutUS(PutSOH(OpenRecord(b), <<name>>), <<value>>)

OpenKeyLevel(b, name) == PutDLE(PutUS(PutSOH(OpenRecord(b), <<name>>), <<>>))

NextUnit_NoSeparator(b) == [OpenRecord(b) EXCEPT !.units = @ + 1]

NextUnit(b) ==
  LET at == IF b.inRecord /\ b.units > 0 THEN Put(b, <<US>>) ELSE OpenRecord(b) IN
  [at EXCEPT !.units = @ + 1]

OpenLevel(b) == PutDLE(NextUnit(b))

List(b, items) ==
  LET level == PutDLE(NextUnit(b)) IN
  PutCAN(IF items = <<>> THEN level ELSE FoldLeft(Field, PutRS(level, <<>>), items))

RefPath(b, path) == PutENQ(NextUnit(b), path)

Note(b, text) == PutBEL(b, <<text>>)
=============================================================================
