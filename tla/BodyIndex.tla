----------------------------- MODULE BodyIndex -----------------------------
(***************************************************************************)
(* Body, Record and Reference (body.go): how a body is indexed into files, *)
(* groups and records, and how a record is read.  The code keeps slices of *)
(* one buffer; here a name, a record and a unit are the bytes of theirs.   *)
(* An operator that may fail returns the set of its result, {} where the   *)
(* code panics.                                                            *)
(***************************************************************************)
EXTENDS C0Scan

(* A header is a sequence of at most one record. *)
GroupType == [depth : Nat, name : Seq(Byte), header : Seq(Seq(Byte)),
              records : Seq(Seq(Byte))]

NewGroup(depth, name) ==
  [depth |-> depth, name |-> name, header |-> <<>>, records |-> <<>>]

IsEmptyGroup(g) == g.header = <<>> /\ g.records = <<>>

(* A record from its RS's position to end, layout trimmed at the end. *)
TrimEnd(buf, start, stop) ==
  Max({q \in start .. stop : q = start \/ ~IsLayout(At(buf, q - 1))})

RecordBytes(buf, start, end) == Slice(buf, start, TrimEnd(buf, start, end))

(* Behind a commit and its payload. *)
BehindCommit_ReadsPayload(buf, etb, stop) == etb + 1

BehindCommit(buf, etb, stop) == ScanPlain(buf, ScanLayout(buf, etb + 1, stop), stop)

(* A header row may follow notes and a dead header row, not a record. *)
StaysFirst_ForgetsNotes(firstItem, marked) == FALSE

StaysFirst(firstItem, marked) == firstItem /\ marked # RS

(* A BEL that marks the group or file line behind it dead. *)
MarksDead_GroupsForgotten(buf, p, stop, code) ==
  code = FS /\ Peek(buf, p, stop) = BEL /\ PeekBehind(buf, p, stop) = code

MarksDead(buf, p, stop, code) ==
  Peek(buf, p, stop) = BEL /\ PeekBehind(buf, p, stop) = code

(***************************************************************************)
(* indexGroupContents: reads items from pos on into group g.  It returns   *)
(* the group and the position of the next GS or FS (or of what is neither).*)
(* The ends of records and comments are those of scan (C0Scan's Ends).     *)
(***************************************************************************)
ReadItems(buf, pos, stop, group, scan) ==
  LET read[p \in Positions(stop), g \in GroupType, firstItem \in BOOLEAN] ==
        LET q == ScanLayout(buf, p, stop)
            c == Peek(buf, q, stop)
            marked == PeekBehind(buf, q, stop)
            rs == ScanLayout(buf, q + 1, stop) + 1
            end == scan["record", q + 1]
            rowEnd == scan["record", rs]
            record == RecordBytes(buf, q + 1, end)
            row == RecordBytes(buf, rs, rowEnd)
        IN  CASE p = Malformed -> [at |-> Malformed, group |-> g]
              [] p # Malformed /\ c = RS ->
                   read[end, IF end = Malformed THEN g
                             ELSE [g EXCEPT !.records = Append(@, record)], FALSE]
              [] p # Malformed /\ c = SOH ->
                   IF marked # RS \/ ~firstItem \/ rowEnd = Malformed
                   THEN [at |-> Malformed, group |-> g]
                   ELSE read[rowEnd, [g EXCEPT !.header = <<row>>], FALSE]
              [] p # Malformed /\ c = ETB -> read[BehindCommit(buf, q, stop), g, firstItem]
              [] p # Malformed /\ c = BEL /\ (marked \in {None, STX, RS, SOH} \/ marked >= 32) ->
                   read[scan["comment", q], g, StaysFirst(firstItem, marked)]
              [] OTHER -> [at |-> q, group |-> g]
  IN  read[pos, group, TRUE]

IndexGroupContents(buf, pos, stop, group) ==
  ReadItems(buf, pos, stop, group, Ends(buf, stop))

(***************************************************************************)
(* indexPartInto: leading items go to the last of the file's groups, or    *)
(* to an unnamed group that is listed once it has something; then groups,  *)
(* where the contents of a dead one go to the group before it.             *)
(***************************************************************************)
IndexPartInto(buf, pos, stop, groups) ==
  LET grow[p \in Positions(stop), gs \in Seq(GroupType)] ==
        LET follow(r) ==
              LET filled == Append(Front(gs), r.group)
                  live == Peek(buf, r.at, stop) = GS
                  mark == IF live THEN r.at ELSE ScanLayout(buf, r.at + 1, stop)
                  name == ScanGroupMark(buf, mark, stop)
                  end == ScanPlain(buf, name, stop)
                  depth == Cardinality({q \in mark .. (name - 1) : At(buf, q) = GS})
              IN  CASE live ->
                         grow[end, Append(filled, NewGroup(depth, Trim(Slice(buf, name, end))))]
                    [] MarksDead(buf, r.at, stop, GS) -> grow[end, filled]
                    [] OTHER -> [at |-> r.at, groups |-> filled]
        IN  follow(IndexGroupContents(buf, p, stop, Last(gs)))
      listed(all) == IF groups = <<>> /\ IsEmptyGroup(Head(all.groups))
                     THEN [all EXCEPT !.groups = Tail(@)] ELSE all
  IN  listed(grow[pos, IF groups = <<>> THEN <<NewGroup(0, <<>>)>> ELSE groups])

FileType == [name : Seq(Byte), groups : Seq(GroupType)]

NewFile(name) == [name |-> name, groups |-> <<>>]

(***************************************************************************)
(* index: the files of buf[start:stop].  The leading unnamed file is left  *)
(* out when it is empty and a file line follows; a dead file line leaves   *)
(* what follows to the file before it.  At is where indexing ended.        *)
(***************************************************************************)
Index(buf, start, stop) ==
  LET grow[p \in Positions(stop), files \in Seq(FileType), leading \in BOOLEAN] ==
        LET follow(r) ==
              LET filled == Append(Front(files), [Last(files) EXCEPT !.groups = r.groups])
                  listed == IF leading /\ r.groups = <<>> THEN <<>> ELSE filled
                  live == Peek(buf, r.at, stop) = FS
                  mark == IF live THEN r.at ELSE ScanLayout(buf, r.at + 1, stop)
                  name == ScanLayout(buf, mark + 1, stop)
                  end == ScanPlain(buf, name, stop)
              IN  CASE live ->
                         grow[end, Append(listed, NewFile(Trim(Slice(buf, name, end)))), FALSE]
                    [] MarksDead(buf, r.at, stop, FS) -> grow[end, filled, FALSE]
                    [] OTHER -> [at |-> r.at, files |-> filled]
        IN  follow(IndexPartInto(buf, p, stop, Last(files).groups))
  IN  grow[ScanLayout(buf, start, stop), <<NewFile(<<>>)>>, TRUE]

(* newBody *)
BodyOf(buf, start, stop) ==
  {i.files : i \in {x \in {Index(buf, start, stop)} : x.at # Malformed}}
-----------------------------------------------------------------------------
(* A record is keyed when its first unit is an SOH, live or dead. *)
IsKeyed(raw) ==
  LET n == Len(raw)
      kind[p \in Positions(n)] ==
        LET q == ScanLayout(raw, p, n)
            c == Peek(raw, q, n)
            marked == PeekBehind(raw, q, n)
        IN  CASE p = Malformed -> {}
              [] p # Malformed /\ c = BEL /\ marked # SOH
                   /\ (~IsControl(marked) \/ marked \in {STX, DLE}) ->
                   kind[ScanComment(raw, q, n)]
              [] OTHER -> {c = SOH \/ (c = BEL /\ marked = SOH)}
  IN  kind[0]

(* eachUnit: the raw positional units (Fields; FieldCount is how many). *)
Fields(raw) ==
  LET n == Len(raw)
      first == ScanLayout(raw, 0, n)
      units[start \in 0 .. n, p \in 0 .. n] ==
        LET upTo(end) ==
              CASE end = Malformed -> {}
                [] end # Malformed /\ Peek(raw, end, n) = US ->
                     {<<Slice(raw, start, end)>> \o rest : rest \in units[end + 1, end + 1]}
                [] OTHER -> {<<Slice(raw, start, end)>>}
        IN  upTo(ScanUnit(raw, p, n))
  IN  IF Peek(raw, first, n) = SOH THEN {<<>>} ELSE units[0, first]

(* eachKeyed: the live keyed units, key and raw value. *)
Pairs(raw) ==
  LET n == Len(raw)
      pairs[p \in Positions(n)] ==
        LET c == Peek(raw, p, n)
            key == ScanLayout(raw, p + 1, n)
            us == ScanPlain(raw, key, n)
            upTo(end) ==
              IF Peek(raw, us, n) # US \/ end = Malformed THEN {}
              ELSE {<<[key |-> Trim(Slice(raw, key, us)), raw |-> Slice(raw, us + 1, end)]>>
                      \o rest : rest \in pairs[end]}
        IN  CASE p = Malformed -> {}
              [] c = SOH -> upTo(ScanUnit(raw, us + 1, n))
              [] c = BEL -> pairs[ScanComment(raw, p, n)]
              [] IsLayout(c) -> pairs[p + 1]
              [] OTHER -> {<<>>}
  IN  pairs[ScanLayout(raw, 0, n)]

(* All the ways to choose one of each: {} if one cannot be read. *)
Each(sets) ==
  IF \E i \in DOMAIN sets : sets[i] = {} THEN {}
  ELSE {[i \in DOMAIN sets |-> CHOOSE x \in sets[i] : TRUE]}

(* The first and the last of the items that P marks: none or one. *)
FirstOf(items, marked) ==
  LET found == {i \in DOMAIN items : marked[i]} IN
  IF found = {} THEN <<>> ELSE <<items[Min(found)]>>

LastOf(items, marked) ==
  LET found == {i \in DOMAIN items : marked[i]} IN
  IF found = {} THEN <<>> ELSE <<items[Max(found)]>>

StartsWith(raw, code) == Peek(Trim(raw), 0, Len(Trim(raw))) = code

(* Level: the files of the nested level that is the unit. *)
LevelOf(raw) ==
  LET t == Trim(raw)
      end == ScanLevel(t, 0, Len(t))
  IN  IF end = Malformed THEN {} ELSE BodyOf(t, 1, end - 1)

(* ParseReference: its segments. *)
ParseReference(raw) ==
  LET t == Trim(raw)
      n == Len(t)
      p == ScanLayout(t, 1, n)
      end == ScanText(t, p, n)
      segments == SplitAt(US, DecodeText(Slice(t, p + 1, end - 1)))
      name == Trim(Slice(t, p, n))
  IN  CASE Peek(t, p, n) = STX ->
             IF end # Malformed /\ Len(segments) <= 3
                /\ \A i \in DOMAIN segments : segments[i] # <<>> /\ IsName(segments[i])
             THEN {segments} ELSE {}
        [] OTHER -> IF name # <<>> THEN {<<name>>} ELSE {}
=============================================================================
