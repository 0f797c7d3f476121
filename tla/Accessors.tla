----------------------------- MODULE Accessors -----------------------------
(***************************************************************************)
(* Lookups in what was parsed (body.go, document.go): by a group's name, a *)
(* column's, a key; a unit as a list; the heading's keys and the blob      *)
(* table.  As in BodyIndex the result of what may panic is a set; what may *)
(* be absent is a sequence of none or one.                                 *)
(*                                                                         *)
(* Words the code compares with are a byte each: 115 is "shape", 98        *)
(* "blob", 110, 111 and 108 "name", "offset" and "length".                 *)
(***************************************************************************)
EXTENDS Document

CONSTANT MaxInt \* the largest int of the build, a natural number

ShapeWord == <<115>>
BlobWord == <<98>>
NameWord == <<110>>
OffsetWord == <<111>>
LengthWord == <<108>>
BlobColumns == <<NameWord, OffsetWord, LengthWord>>
-----------------------------------------------------------------------------
(* Values, and Headers: none when there is no header row. *)
Values(raw) == UNION {Each([i \in DOMAIN us |-> ValueOf(us[i])]) : us \in Fields(raw)}

Headers(g) == IF g.header = <<>> THEN {<<>>} ELSE Values(g.header[1])

GroupByName(file, name) ==
  FirstOf(file.groups, [i \in DOMAIN file.groups |-> file.groups[i].name = name])

(* Column: a position from 0, or -1. *)
Column(g, name) ==
  {LET at == {i \in DOMAIN h : h[i] = name} IN IF at = {} THEN -1 ELSE Min(at) - 1 :
     h \in Headers(g)}

(* FieldByKey (and HasKey): the last unit of the key. *)
FieldByKey_FirstWins(raw, key) ==
  {FirstOf([i \in DOMAIN ps |-> ps[i].raw], [i \in DOMAIN ps |-> ps[i].key = key]) :
     ps \in Pairs(raw)}

FieldByKey(raw, key) ==
  {LastOf([i \in DOMAIN ps |-> ps[i].raw], [i \in DOMAIN ps |-> ps[i].key = key]) :
     ps \in Pairs(raw)}

Get(raw, key) ==
  UNION {IF f = <<>> THEN {<<>>} ELSE {<<v>> : v \in ValueOf(f[1])} : f \in FieldByKey(raw, key)}

LevelByKey(raw, key) ==
  UNION {IF f = <<>> \/ ~StartsWith(f[1], DLE) THEN {} ELSE LevelOf(f[1]) :
           f \in FieldByKey(raw, key)}

(* Records of a body, which are those of its first group. *)
Records(files) == IF files[1].groups = <<>> THEN <<>> ELSE files[1].groups[1].records

IsBare(files) ==
  /\ Len(files) = 1 /\ files[1].name = <<>>
  /\ \/ files[1].groups = <<>>
     \/ Len(files[1].groups) = 1 /\ files[1].groups[1].depth = 0

(* listOf, and List of a unit: {} where the code returns ErrNotList or     *)
(* ErrNotLevel.                                                            *)
ListOf(files) ==
  CASE Records(files) = <<>> /\ IsBare(files) -> {<<>>}
    [] Len(Records(files)) = 1 /\ IsBare(files) /\ IsKeyed(Records(files)[1]) = {FALSE}
       /\ files[1].groups[1].header = <<>> -> Values(Records(files)[1])
    [] OTHER -> {}

List(raw) == IF StartsWith(raw, DLE) THEN UNION {ListOf(files) : files \in LevelOf(raw)} ELSE {}
-----------------------------------------------------------------------------
(* The heading of a document, its pairs as Document has them. *)
HeadingGet(pairs, key) ==
  LastOf([i \in DOMAIN pairs |-> pairs[i].value], [i \in DOMAIN pairs |-> pairs[i].key = key])

Shape(pairs) == FlattenSeq(HeadingGet(pairs, ShapeWord))

RawBlob(pairs) ==
  FlattenSeq(LastOf([i \in DOMAIN pairs |-> pairs[i].raw],
                    [i \in DOMAIN pairs |-> pairs[i].key = BlobWord]))

(* Blob: the files of the table, none when there is none. *)
Blob(pairs) ==
  LET raw == RawBlob(pairs) IN
  IF Peek(raw, 0, Len(raw)) # DLE THEN {<<>>}
  ELSE BodyOf(raw, 1, ScanLevel(raw, 0, Len(raw)) - 1)

(* strconv.Atoi: a sign and digits, in the range of an int. *)
Digits == 48 .. 57
Signs == {43, 45}

Atoi(v) ==
  LET from == IF v # <<>> /\ v[1] \in Signs THEN 2 ELSE 1
      digits == SubSeq(v, from, Len(v))
      n == FoldLeft(LAMBDA x, d : 10 * x + d - 48, 0, digits)
      signed == IF v[1] = 45 THEN -n ELSE n
  IN  IF digits = <<>> \/ Range(digits) \ Digits # {} THEN {}
      ELSE {signed} \cap (-(MaxInt + 1) .. MaxInt)

(* The sum of two ints, which wraps. *)
IntSum(i, j) == ((i + j + MaxInt + 1) % (2 * (MaxInt + 1))) - (MaxInt + 1)

(* The bytes a row of the table names: none where the row is passed over,  *)
(* {} where slicing the tail panics.                                       *)
InTail_NotToItsEnd(off, length, tail) ==
  off >= 0 /\ length >= 0 /\ IntSum(off, length) < Len(tail)

InTail(off, length, tail) ==
  off >= 0 /\ length >= 0 /\ IntSum(off, length) <= Len(tail)

Slices(offs, lengths, tail) ==
  IF offs = {} \/ lengths = {} THEN {<<>>}
  ELSE UNION {IF ~InTail(off, length, tail) THEN {<<>>}
              ELSE IF IntSum(off, length) < off THEN {}
              ELSE {<<Slice(tail, off, off + length)>>} : off \in offs, length \in lengths}

RowBytes(values, columns, name, tail) ==
  IF Len(values) <= Max(Range(columns)) \/ values[columns[1] + 1] # name THEN {<<>>}
  ELSE Slices(Atoi(values[columns[2] + 1]), Atoi(values[columns[3] + 1]), tail)

(* Container.BlobBytes of the first document: the last row of the name     *)
(* that lies in the tail.  Units that are no values are not looked at      *)
(* here: the rows hold values.                                             *)
RowsBytes(g, columns, name, tail) ==
  UNION {LET in == [i \in DOMAIN rows |-> rows[i] # <<>>] IN {FlattenSeq(LastOf(rows, in))} :
           rows \in Each([i \in DOMAIN g.records |->
             UNION {RowBytes(vs, columns, name, tail) : vs \in Values(g.records[i])}])}

TableBytes(files, name, tail) ==
  LET groups == FlattenSeq([i \in DOMAIN files |-> files[i].groups])
      columns(g) == Each([i \in 1 .. 3 |-> Column(g, BlobColumns[i])])
  IN  IF groups = <<>> THEN {<<>>}
      ELSE UNION {IF -1 \in Range(cs) THEN {<<>>} ELSE RowsBytes(groups[1], cs, name, tail) :
                    cs \in columns(groups[1])}

BlobBytes(pairs, name, tail) == UNION {TableBytes(files, name, tail) : files \in Blob(pairs)}
=============================================================================
