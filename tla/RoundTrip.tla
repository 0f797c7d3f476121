----------------------------- MODULE RoundTrip -----------------------------
(***************************************************************************)
(* A caller of the builder and a reader of its bytes.  Every call changes  *)
(* the builder and, beside it, the outline of what was meant; the bytes,   *)
(* read back as documents and a tail, have to be that outline.             *)
(*                                                                         *)
(* The caller writes what the grammar has a place for, where Builder does  *)
(* not keep it from anything else: a record is keyed or positional, its    *)
(* notes follow a unit that is no reference, a header row is the first of  *)
(* its group, a commit does not stand in a level, a group and a reference  *)
(* have a name (if not Nameless), a document begins outside of levels, and *)
(* in a diff and behind one there is nothing but replacements, and no note *)
(* stands behind what makes it a diff.                                     *)
(***************************************************************************)
EXTENDS Builder, StreamScan

CONSTANTS Vocabularies, \* what is written: values, names, blob tables, raw regions
          Nameless,     \* whether groups and references may have an empty name
          MaxInt,       \* the largest int of the build
          MaxCalls      \* bound on the calls of one builder

(* A table is the names of its columns and rows of values. *)
IsVocabulary(w) ==
  /\ DOMAIN w = {"values", "names", "tables", "tails"}
  /\ w.values \cup w.names \cup w.tails \subseteq Seq(Byte)
  /\ \A table \in w.tables : table.columns \in Seq(Seq(Byte)) /\ table.rows \in Seq(Seq(Seq(Byte)))
  /\ \A name \in w.names : IsName(name)

ASSUME VocabulariesAssumption == \A w \in Vocabularies : IsVocabulary(w)
ASSUME NamelessAssumption == Nameless \in BOOLEAN
ASSUME MaxIntAssumption == MaxInt \in Nat
ASSUME MaxCallsAssumption == MaxCalls \in Nat

O == INSTANCE Outline
A == INSTANCE Accessors
V == INSTANCE Validator

VARIABLES b,       \* the builder
          place,   \* where in the document the caller is
          heading, \* the pairs of the heading, as units
          meant,   \* the bodies open in it, outermost first
          keys,    \* the keys under which the open levels were written
          past,    \* the documents before this one
          tail,    \* the raw region
          bare,    \* whether nothing but data was asked for
          read,    \* what the reader has, once the builder is done
          words,   \* what this caller writes
          calls    \* how many calls there were

vars == <<b, place, heading, meant, keys, past, tail, bare, read, words, calls>>

Init == /\ b = NewBuilder
        /\ place = "start"
        /\ heading = <<>>
        /\ meant = <<O!EmptyBody>>
        /\ keys = <<>>
        /\ past = <<>>
        /\ tail = <<>>
        /\ bare = TRUE
        /\ read = <<>>
        /\ words \in Vocabularies
        /\ calls = 0

Body == Last(meant)
SetMeant(bodies) == /\ meant' = bodies
                    /\ place' = IF keys = <<>> THEN "body" ELSE place
                    /\ UNCHANGED <<heading, past, tail>>
SetBody(w) == SetMeant(Append(Front(meant), w)) /\ UNCHANGED <<keys, bare>>

IsDiff(pairs) == \E i \in DOMAIN pairs :
                   pairs[i] = O!ValueUnit(<<V!ShapeKey>>, V!DiffShape)
InDiff == IsDiff(heading) \/ \E i \in DOMAIN past : IsDiff(past[i].heading)

Counted == /\ read = <<>> /\ calls < MaxCalls
           /\ calls' = calls + 1
           /\ UNCHANGED <<read, words>>
Call == place \notin {"ended", "tail"} /\ Counted
DataCall == Call /\ ~InDiff

InHeading == place = "heading" /\ keys = <<>>

(* What kind of unit the open record takes. *)
Units == IF Body.open THEN O!OpenUnits(Body) ELSE <<>>
TakesKey == \A i \in DOMAIN Units : Units[i].key # <<>>
TakesField == \A i \in DOMAIN Units : Units[i].key = <<>>
TakesNote == /\ Body.open => Units # <<>> /\ Last(Units).is # "reference"
             /\ ~(InHeading /\ heading # <<>> /\ IsDiff(<<Last(heading)>>))
MayName(name) == Nameless \/ name # <<>>
TakesHeader ==
  O!Groups(Body) # <<>> => O!RecordsIn(Body) = <<>> /\ Last(O!Groups(Body)).headers = <<>>

(* The documents written, the one at hand among them. *)
Document == [heading |-> heading, files |-> O!Normal(Body.files)]
Written == IF b.buf = <<>> \/ place = "tail" THEN past ELSE Append(past, Document)
-----------------------------------------------------------------------------
(* The first document may do without a SYN, and then has no heading. *)
DoSYN == /\ keys = <<>> /\ place # "tail"
         /\ IF b = NewBuilder THEN read = <<>> /\ UNCHANGED <<read, words, calls>> ELSE Counted
         /\ b' = PutSYN(b)
         /\ place' = "heading"
         /\ past' = Written
         /\ heading' = <<>>
         /\ meant' = <<O!EmptyBody>>
         /\ bare' = FALSE
         /\ UNCHANGED <<keys, tail>>

AddPair(unit) == /\ heading' = Append(heading, unit)
                 /\ UNCHANGED <<place, meant, keys, past, tail, bare>>

DoHeading(key, v) == /\ Call /\ InHeading
                     /\ b' = Heading(b, key, v)
                     /\ AddPair(O!ValueUnit(<<key>>, v))

(* A blob table, HeadingLevel with all its calls in one. *)
DoBlobTable(table) ==
  LET more(x, row) == Record(x, row)
      add(w, row) == O!AddRecord(w, [i \in DOMAIN row |-> O!ValueUnit(<<>>, row[i])])
      opened == Header(OpenHeadingLevel(b, A!BlobWord), table.columns)
      body == FoldLeft(add, O!AddHeader(O!EmptyBody, table.columns), table.rows)
  IN  /\ Call /\ InHeading
      /\ b' = PutCAN(FoldLeft(more, opened, table.rows))
      /\ AddPair(O!LevelUnit(<<A!BlobWord>>, O!Normal(body.files)))

DoOpenHeadingLevel(key) == /\ Call /\ InHeading
                           /\ b' = OpenHeadingLevel(b, key)
                           /\ meant' = Append(meant, O!EmptyBody)
                           /\ keys' = Append(keys, <<key>>)
                           /\ UNCHANGED <<place, heading, past, tail, bare>>

DoEOT == /\ Call /\ keys = <<>>
         /\ b' = PutEOT(b)
         /\ place' = "ended"
         /\ meant' = <<O!Close(Body)>>
         /\ bare' = FALSE
         /\ UNCHANGED <<heading, keys, past, tail>>

DoEM(raw) == /\ Counted /\ keys = <<>> /\ place # "tail"
             /\ b' = PutEM(b, raw)
             /\ place' = "tail"
             /\ past' = Written
             /\ heading' = <<>>
             /\ meant' = <<O!EmptyBody>>
             /\ tail' = raw
             /\ bare' = FALSE
             /\ UNCHANGED keys

DoFile(name) == /\ DataCall
                /\ b' = PutFS(b, name)
                /\ SetBody(O!AddFile(Body, name))

DoGroup(name, headers, depth) == /\ DataCall /\ MayName(name)
                                 /\ b' = GroupAt(b, name, headers, depth)
                                 /\ SetBody(O!AddGroup(Body, name, headers, depth))

DoHeader(names) == /\ DataCall /\ TakesHeader
                   /\ b' = Header(b, names)
                   /\ SetBody(O!AddHeader(Body, names))

DoRecord(fields) ==
  /\ DataCall
  /\ b' = Record(b, fields)
  /\ SetBody(O!AddRecord(Body, [i \in DOMAIN fields |-> O!ValueUnit(<<>>, fields[i])]))

DoField(v) == /\ DataCall /\ TakesField
              /\ b' = Field(b, v)
              /\ SetBody(O!AddUnit(Body, O!ValueUnit(<<>>, v)))

DoKey(name, v) == /\ DataCall /\ TakesKey
                  /\ b' = Key(b, name, v)
                  /\ SetBody(O!AddUnit(Body, O!ValueUnit(<<name>>, v)))

DoRef(path) == /\ DataCall /\ TakesField
               /\ MayName(path[1])
               /\ b' = RefPath(b, path)
               /\ SetBody(O!AddUnit(Body, O!RefUnit(path)))

DoList(items) ==
  LET record == O!AddRecord(O!EmptyBody, [i \in DOMAIN items |-> O!ValueUnit(<<>>, items[i])])
      body == IF items = <<>> THEN O!EmptyBody ELSE record
  IN  /\ DataCall /\ TakesField
      /\ b' = List(b, items)
      /\ SetBody(O!AddUnit(Body, O!LevelUnit(<<>>, O!Normal(body.files))))

DoOpenLevel == /\ DataCall /\ TakesField
               /\ b' = OpenLevel(b)
               /\ SetMeant(Append(meant, O!EmptyBody))
               /\ keys' = Append(keys, <<>>)
               /\ UNCHANGED bare

DoOpenKeyLevel(name) == /\ DataCall /\ TakesKey
                        /\ b' = OpenKeyLevel(b, name)
                        /\ SetMeant(Append(meant, O!EmptyBody))
                        /\ keys' = Append(keys, <<name>>)
                        /\ UNCHANGED bare

(* The end of the function given to Level, KeyLevel or HeadingLevel. *)
DoCloseLevel ==
  LET outer == meant[Len(meant) - 1]
      unit == O!LevelUnit(Last(keys), O!Normal(Body.files))
      ofHeading == place = "heading" /\ Len(keys) = 1
  IN  /\ keys # <<>>
      /\ b' = PutCAN(b)
      /\ meant' = Append(Front(Front(meant)),
                        IF ofHeading THEN outer ELSE O!AddUnit(outer, unit))
      /\ heading' = IF ofHeading THEN Append(heading, unit) ELSE heading
      /\ keys' = Front(keys)
      /\ UNCHANGED <<place, past, tail, bare, read, words, calls>>

(* A note is meant for no reader. *)
DoNote(text) == /\ Call /\ TakesNote
                /\ b' = Note(b, text)
                /\ bare' = FALSE
                /\ UNCHANGED <<place, heading, meant, keys, past, tail>>

DoCommit(payload) == /\ Call /\ b.stack = <<>>
                     /\ b' = PutETB(b, payload)
                     /\ SetMeant(Append(Front(meant), O!Close(Body)))
                     /\ bare' = FALSE
                     /\ UNCHANGED keys

(* The calls of a diff, made of primitives: a value, which is not empty,   *)
(* is replaced everywhere, or one of a group is.                           *)
DiffCall == Call /\ IsDiff(heading) /\ keys = <<>>

DoReplace(old, new) == /\ DiffCall /\ old # <<>>
                       /\ b' = PutSUB(PutRS(b, <<old>>), <<new>>)
                       /\ place' = "body"
                       /\ UNCHANGED <<heading, meant, keys, past, tail, bare>>

DoSubstitute(name, old, new) ==
  /\ DiffCall
  /\ b' = PutSUB(PutUS(PutGS(b, <<name>>), <<old>>), <<new>>)
  /\ place' = "body"
  /\ UNCHANGED <<heading, meant, keys, past, tail, bare>>

(* Every level is closed, and no call failed: Build returns bytes. *)
Complete == keys = <<>> /\ b.err = "none"

(* ParseContainer: it validates, then reads. *)
Parsed(log, v) ==
  [canonical |-> V!CanonicalEnd(v), containers |-> IF V!Failed(v) THEN {} ELSE A!Containers(log)]

DoRead == /\ Complete /\ read = <<>>
          /\ read' = <<Parsed(b.buf, V!Validated(b.buf))>>
          /\ UNCHANGED <<b, place, heading, meant, keys, past, tail, bare, words, calls>>

Next ==
  \/ DoRead
  \/ DoSYN \/ DoEOT \/ \E raw \in words.tails : DoEM(raw)
  \/ DoHeading(V!ShapeKey, V!DiffShape) \/ \E table \in words.tables : DoBlobTable(table)
  \/ \E name \in words.names : DoOpenHeadingLevel(name) \/ DoFile(name) \/ DoOpenKeyLevel(name)
                         \/ DoRef(<<name>>) \/ DoHeader(<<name>>) \/ DoCommit(<<name>>)
  \/ \E name \in words.names, depth \in 1 .. 2 :
       \E headers \in {<<>>, << <<name, name>> >>} : DoGroup(name, headers, depth)
  \/ \E v \in words.values : DoField(v) \/ DoRecord(<<v>>) \/ DoList(<<v>>) \/ DoNote(v)
  \/ \E name \in words.names, v \in words.values :
       DoKey(name, v) \/ DoHeading(name, v) \/ DoReplace(v, v) \/ DoSubstitute(name, v, v)
  \/ DoRecord(<<>>) \/ DoList(<<>>)
  \/ DoOpenLevel \/ DoCloseLevel \/ DoCommit(<<>>)

Spec == Init /\ [][Next]_vars
-----------------------------------------------------------------------------
(* Types; outside a record and a heading no unit is counted (endRecord). *)
TypeOK == /\ b \in BuilderType
          /\ b.units > 0 => b.inRecord \/ place = "heading" \/ InDiff
          /\ place \in {"start", "heading", "body", "ended", "tail"}
          /\ Len(meant) = Len(keys) + 1
          /\ tail # <<>> => place = "tail"
          /\ read # <<>> => Complete
          /\ calls \in 0 .. MaxCalls

(* "Cannot write ill-formed output" (builder.go:21). *)
OutputIsWellFormed == \A r \in Range(read) : r.containers # {}

(* Where a name is first, 0 if it is not there. *)
FirstOfName(names, name) ==
  CHOOSE i \in 0 .. Len(names) :
    /\ i = 0 => ~Contains(names, name)
    /\ i > 0 => names[i] = name /\ ~Contains(SubSeq(names, 1, i - 1), name)

GroupAgrees(g, m) ==
  \A name \in words.names :
    A!Column(g, name) = {FirstOfName(FlattenSeq(m.headers), name) - 1}

KeyAgrees(raw, units, name) ==
  LET found == O!UnitOfKey(units, name)
      isValue == found # <<>> /\ found[1].is = "value"
  IN  /\ found = <<>> <=> A!FieldByKey(raw, name) = {<<>>}
      /\ isValue => A!Get(raw, name) = {<<found[1].value>>}
      /\ found # <<>> /\ ~isValue => A!LevelByKey(raw, name) # {}

RecordAgrees(raw, units) ==
  IF units[1].key # <<>> THEN \A name \in words.names : KeyAgrees(raw, units, name)
  ELSE \A us \in A!Fields(raw) : \A i \in DOMAIN us :
         units[i].is = "level" => A!List(us[i]) = O!ListIn(units[i].body)

FileAgrees(f, m) ==
  /\ \A name \in words.names :
       LET k == FirstOfName([i \in DOMAIN m.groups |-> m.groups[i].name], name) IN
       A!GroupByName(f, name) = IF k = 0 THEN <<>> ELSE <<f.groups[k]>>
  /\ \A k \in DOMAIN m.groups :
       /\ GroupAgrees(f.groups[k], m.groups[k])
       /\ \A r \in DOMAIN m.groups[k].records :
            RecordAgrees(f.groups[k].records[r], m.groups[k].records[r])

DocumentAgrees(doc, m) ==
  /\ \A name \in words.names :
       \A unit \in Range(O!UnitOfKey(m.heading, name)) :
         unit.is = "value" => A!HeadingGet(doc.heading, name) = <<unit.value>>
  /\ IsDiff(m.heading) => A!Shape(doc.heading) = V!DiffShape
  /\ ~IsDiff(m.heading) => \A i \in DOMAIN m.files : FileAgrees(doc.files[i], m.files[i])

(* The lookups find what was meant: the first group of a name, the first   *)
(* column of one, the last unit of a key, the values of a list.            *)
LookupsAgree ==
  \A r \in Range(read) : \A c \in r.containers :
    \A i \in DOMAIN Written : DocumentAgrees(c.documents[i], Written[i])

(* A row of a blob table; whether its bytes lie in the tail. *)
Cells(at, units) ==
  [name |-> units[at[1]].value, offs |-> A!Atoi(units[at[2]].value),
   lengths |-> A!Atoi(units[at[3]].value)]

Lies(cells) == \E off \in cells.offs, length \in cells.lengths :
                 off >= 0 /\ length >= 0 /\ off + length <= Len(tail)
Wraps(cells) == \E off \in cells.offs, length \in cells.lengths : off + length > MaxInt

BlobAgrees(pairs, name, rows) ==
  LET mine == SelectSeq(rows, LAMBDA c : c.name = name)
      lies == SelectSeq(mine, Lies)
      blob(c) == UNION {{Slice(tail, off, off + length) : off \in c.offs} : length \in c.lengths}
  IN  (\A i \in DOMAIN mine : ~Wraps(mine[i])) =>
        A!BlobBytes(pairs, name, tail) =
          IF lies = <<>> THEN {<<>>} ELSE {<<bytes>> : bytes \in blob(Last(lies))}

CellsOf(table) ==
  LET g == table.body[1].groups[1]
      at == [i \in 1 .. 3 |-> FirstOfName(g.headers[1], A!BlobColumns[i])]
  IN  [r \in DOMAIN g.records |-> Cells(at, g.records[r])]

(* "BlobBytes returns the bytes of a named blob from the tail.  It reports *)
(* false when the table does not declare the name, or the row's offset or  *)
(* length is missing, not an integer, or outside the tail"                 *)
(* (document.go:306); of rows with one name the last such counts.  Where   *)
(* offset and length together are no int the code panics instead.          *)
BlobsReadBack ==
  \A r \in Range(read) : \A c \in r.containers :
    Written # <<>> =>
      \A table \in Range(O!UnitOfKey(Written[1].heading, A!BlobWord)), name \in words.names :
        BlobAgrees(c.documents[1].heading, name, CellsOf(table))

UnitsAgree ==
  /\ b.inRecord = Body.open
  /\ b.inRecord => b.units = Len(Units)
  /\ Len(b.stack) = Len(keys)

LevelsAgree ==
  LET s == Scan(b.buf) IN ~s.inText /\ s.depth = Len(b.stack) /\ s.damaged = {}

(* The builder's counters, which decide where a US goes, are what a reader *)
(* would count, at every depth (a diff has no records); and a scan of the  *)
(* bytes is as deep in levels as the builder, and in no text.              *)
CountersAgree == place # "tail" => LevelsAgree /\ (~InDiff => UnitsAgree)
=============================================================================
