----------------------------- MODULE Validator -----------------------------
(***************************************************************************)
(* Validate and IsCanonical (validator.go): the recursive descent over a   *)
(* buffer.  Its state s is the position, whether the buffer is canonical   *)
(* so far, whether a commit may stand here (depth 0), whether bodies are   *)
(* diff bodies, and the keys of the keyed record at hand.  A rule takes a  *)
(* state to the one behind what it accepts, at Malformed where the code    *)
(* fails.                                                                  *)
(*                                                                         *)
(* The rules call each other and loop: each is given the function go that  *)
(* they make up.  The validator passes its buffer's end down everywhere.   *)
(***************************************************************************)
EXTENDS C0Scan

(* The words of a heading the code compares with, a byte for each. *)
ShapeKey == <<115>>
DiffShape == <<100>>

(* Where the code stays in a loop for ever. *)
Stuck == -3

States(buf) == [at : Positions(Len(buf)) \cup {Stuck}, canonical : BOOLEAN, top : BOOLEAN,
                diff : BOOLEAN, keys : Seq(Seq(Byte))]

Fresh == [at |-> 0, canonical |-> TRUE, top |-> TRUE, diff |-> FALSE, keys |-> <<>>]

Failed(s) == s.at \in {Malformed, Stuck}
Fail(s) == [s EXCEPT !.at = Malformed]
To(s, p) == [s EXCEPT !.at = p]

(* notCanonical, and on to p. *)
Marked(s, p) == [s EXCEPT !.at = p, !.canonical = FALSE]

Here(buf, s) == Peek(buf, s.at, Len(buf))
Next1(buf, s) == ScanLayout(buf, s.at + 1, Len(buf))
Behind(buf, s) == Peek(buf, Next1(buf, s), Len(buf))
IsNoteCode(b) == b >= 32 \/ b = STX

SkipLayout(buf, s) ==
  IF Failed(s) THEN s
  ELSE LET p == ScanLayout(buf, s.at, Len(buf)) IN
       [s EXCEPT !.at = p, !.canonical = @ /\ p = s.at]

(* A plain run: layout at its end is not canonical. *)
PlainRun(buf, s) ==
  LET p == ScanPlain(buf, s.at, Len(buf)) IN
  [s EXCEPT !.at = p, !.canonical = @ /\ (p = s.at \/ ~IsLayout(At(buf, p - 1)))]

PlainName(buf, s) ==
  LET l == SkipLayout(buf, s) IN
  IF Failed(l) \/ Here(buf, l) = STX THEN Fail(l) ELSE PlainRun(buf, l)
-----------------------------------------------------------------------------
(* Notes.  A BEL at the end of the buffer fails; before a code it is left  *)
(* to the rule of the element it marks dead.                               *)
AtNote(buf, s) ==
  Here(buf, s) = BEL /\ (Behind(buf, s) = None \/ IsNoteCode(Behind(buf, s)))

SkipNote(buf, s) == SkipLayout(buf, Marked(s, ScanNote(buf, s.at, Len(buf))))

Notes(buf, s, go) ==
  LET l == SkipLayout(buf, s) IN
  IF AtNote(buf, l) THEN go["notes", SkipNote(buf, l)] ELSE l

TrailingNotes(buf, s, go) ==
  IF AtNote(buf, s) THEN go["trailing", SkipNote(buf, s)] ELSE s
-----------------------------------------------------------------------------
(* Values. *)
AfterValue(buf, s, go) ==
  LET t == go["trailing", SkipLayout(buf, s)] IN
  IF Here(buf, t) >= 32 \/ Here(buf, t) \in {STX, DLE, ENQ} THEN Fail(t) ELSE t

TextValue_AnyText(buf, s) ==
  LET p == ScanText(buf, s.at, Len(buf)) IN
  IF p = Malformed THEN Fail(s) ELSE To(s, p)

TextValue(buf, s) ==
  LET p == ScanText(buf, s.at, Len(buf))
      inside == Slice(buf, s.at + 1, p - 1)
  IN  IF p = Malformed THEN Fail(s)
      ELSE [s EXCEPT !.at = p,
                     !.canonical = @ /\ inside # <<>> /\ ~IsPlain(DecodeText(inside))]

IsPath(segments) ==
  Len(segments) <= 3 /\ \A seg \in Range(segments) : seg # <<>> /\ IsName(seg)

ReferenceValue(buf, s, go) ==
  LET l == SkipLayout(buf, To(s, s.at + 1))
      p == ScanText(buf, l.at, Len(buf))
      path == DecodeText(Slice(buf, l.at + 1, p - 1))
      end == CASE Here(buf, l) = STX ->
                    IF p = Malformed \/ (path # <<>> /\ ~IsPath(SplitAt(US, path))) THEN Fail(l)
                    ELSE [l EXCEPT !.at = p,
                                   !.canonical = @ /\ (path = <<>> \/ US \in Range(path))]
               [] Here(buf, l) >= 32 -> To(l, ScanPlain(buf, l.at, Len(buf)))
               [] OTHER -> Fail(l)
  IN  go["trailing", SkipLayout(buf, end)]

(* A BEL in unit position: a note or a dead level leaves the unit empty, a *)
(* dead record-level element is the caller's.                              *)
EmptyUnit(buf, s, go) ==
  CASE AtNote(buf, s) -> SkipNote(buf, s)
    [] Behind(buf, s) = DLE -> SkipLayout(buf, go["level", Marked(s, Next1(buf, s))])
    [] OTHER -> s

Value(buf, s, go) ==
  LET l == SkipLayout(buf, s)
      c == Here(buf, l)
  IN  CASE c >= 32 -> AfterValue(buf, PlainRun(buf, l), go)
        [] c = STX -> AfterValue(buf, TextValue(buf, l), go)
        [] c = DLE -> AfterValue(buf, go["level", l], go)
        [] c = ENQ -> ReferenceValue(buf, l, go)
        [] c = BEL -> EmptyUnit(buf, l, go)
        [] OTHER -> l

(* From the DLE to behind its CAN; inside there are no commits. *)
Level(buf, s, go) ==
  LET l == SkipLayout(buf, To(s, s.at + 1))
      end == SkipLayout(buf, go["body", [l EXCEPT !.top = FALSE]])
  IN  CASE Here(buf, l) = CAN -> To(l, l.at + 1)
        [] Here(buf, l) \in {FS, GS, RS, SOH, BEL} ->
             IF Here(buf, end) = CAN THEN [end EXCEPT !.at = @ + 1, !.top = s.top]
             ELSE Fail(end)
        [] OTHER -> Fail(l)
-----------------------------------------------------------------------------
(* Records. *)
KeyedUnit(buf, s, go) ==
  LET l == SkipLayout(buf, s)
      us == ScanPlain(buf, l.at, Len(buf))
  IN  IF Peek(buf, us, Len(buf)) # US THEN Fail(l)
      ELSE [go["value", To(l, us + 1)]
              EXCEPT !.keys = Append(s.keys, Trim(Slice(buf, l.at, us)))]

(* checkKeys *)
KeysDiffer(keys) == \A i, j \in DOMAIN keys : i # j => keys[i] # keys[j]

KeyedEnd(buf, s) ==
  IF Here(buf, s) = US THEN Fail(s)
  ELSE [s EXCEPT !.canonical = @ /\ KeysDiffer(s.keys)]

KeyedUnits(buf, s, go) ==
  LET l == SkipLayout(buf, s)
      c == Here(buf, l)
      dead == go["keyed unit", Marked(l, Next1(buf, l) + 1)]
  IN  CASE c = SOH /\ ~StartsHeaderRow(buf, l.at, Len(buf)) ->
             go["keyed", go["keyed unit", To(l, l.at + 1)]]
        [] c = BEL /\ Behind(buf, l) = SOH
                   /\ ~StartsHeaderRow(buf, Next1(buf, l), Len(buf)) ->
             go["keyed", [dead EXCEPT !.keys = l.keys]]
        [] AtNote(buf, l) -> go["keyed", go["notes", l]]
        [] OTHER -> KeyedEnd(buf, l)

(* keyedStart.  A note whose text does not close fails here in the code,   *)
(* and in the first unit of a positional record in the model.              *)
KeyedStart(buf, pos) ==
  LET n == Len(buf)
      kind[p \in Positions(n)] ==
        LET c == Peek(buf, p, n)
            marked == PeekBehind(buf, p, n)
            note == ScanNote(buf, p, n)
        IN  CASE c = SOH -> "keyed"
              [] c = BEL /\ marked = SOH -> "keyed"
              [] c = BEL /\ IsNoteCode(marked) ->
                   IF note = Malformed THEN "positional" ELSE kind[ScanLayout(buf, note, n)]
              [] OTHER -> "positional"
  IN  kind[pos] = "keyed"

Units(buf, s, go) ==
  LET v == SkipLayout(buf, go["value", s]) IN
  CASE Here(buf, v) = US -> go["units", To(v, v.at + 1)]
    [] Here(buf, v) = SOH ->
         IF StartsHeaderRow(buf, v.at, Len(buf)) THEN v ELSE Fail(v)
    [] OTHER -> v

Record(buf, s, go) ==
  LET l == SkipLayout(buf, s) IN
  IF KeyedStart(buf, l.at) THEN go["keyed", [l EXCEPT !.keys = <<>>]]
  ELSE go["units", l]
-----------------------------------------------------------------------------
(* Bodies. *)
HeaderNames(buf, s, go) ==
  LET name == PlainName(buf, s) IN
  IF Here(buf, name) = US THEN go["names", To(name, name.at + 1)] ELSE name

HeaderRow(buf, s, go) ==
  LET l == SkipLayout(buf, s)
      rs == SkipLayout(buf, To(l, l.at + 1))
  IN  IF StartsHeaderRow(buf, l.at, Len(buf)) THEN go["names", To(rs, rs.at + 1)]
      ELSE l

Commit_Anywhere(buf, s) == Marked(s, ScanPlain(buf, Next1(buf, s), Len(buf)))

Commit(buf, s) ==
  IF s.top THEN Marked(s, ScanPlain(buf, Next1(buf, s), Len(buf))) ELSE Fail(s)

(* What pre and items make of a BEL: notes, a dead record, a dead header   *)
(* row; a keyed unit outside a record fails.                               *)
OpensItem(b) == b = None \/ IsNoteCode(b) \/ b \in {RS, SOH}

BelItem(buf, s, go) ==
  LET p == Next1(buf, s)
      row == Marked(s, ScanLayout(buf, p + 1, Len(buf)) + 1)
  IN  CASE AtNote(buf, s) -> go["notes", s]
        [] Behind(buf, s) = RS -> go["record", Marked(s, p + 1)]
        [] StartsHeaderRow(buf, p, Len(buf)) -> go["names", row]
        [] OTHER -> Fail(s)

Pre(buf, s, go) ==
  LET l == SkipLayout(buf, s) IN
  CASE Here(buf, l) = ETB -> go["pre", Commit(buf, l)]
    [] Here(buf, l) = BEL /\ OpensItem(Behind(buf, l)) -> go["pre", BelItem(buf, l, go)]
    [] OTHER -> l

Items(buf, s, go) ==
  LET l == SkipLayout(buf, s)
      c == Here(buf, l)
  IN  CASE c = RS -> go["items", go["record", To(l, l.at + 1)]]
        [] c = ETB -> go["items", Commit(buf, l)]
        [] c = BEL /\ OpensItem(Behind(buf, l)) -> go["items", BelItem(buf, l, go)]
        [] c = SOH \/ (c = BEL /\ Behind(buf, l) = DLE) -> Fail(l)
        [] OTHER -> l

GroupContents(buf, s, go) == go["items", HeaderRow(buf, go["pre", s], go)]

Group(buf, s, go) ==
  LET p == ScanGroupMark(buf, s.at, Len(buf))
      marks == \A q \in s.at .. (p - 1) : At(buf, q) = GS
  IN  GroupContents(buf, PlainName(buf, [s EXCEPT !.at = p,
                                                  !.canonical = @ /\ marks]), go)

Groups(buf, s, go) ==
  CASE Here(buf, s) = GS -> go["groups", Group(buf, s, go)]
    [] Here(buf, s) = BEL /\ Behind(buf, s) = GS ->
         go["groups", Group(buf, Marked(s, Next1(buf, s)), go)]
    [] OTHER -> s

Part(buf, s, go) == go["groups", GroupContents(buf, s, go)]

Files(buf, s, go) ==
  CASE Here(buf, s) = FS ->
         go["files", Part(buf, PlainName(buf, To(s, s.at + 1)), go)]
    [] Here(buf, s) = BEL /\ Behind(buf, s) = FS ->
         go["files", Part(buf, PlainName(buf, Marked(s, Next1(buf, s) + 1)), go)]
    [] OTHER -> s

Body(buf, s, go) ==
  LET l == SkipLayout(buf, s) IN
  IF l.diff /\ l.top THEN go["diff", l] ELSE go["files", Part(buf, l, go)]
-----------------------------------------------------------------------------
(* Diff bodies. *)
DiffValue(buf, s) ==
  LET l == SkipLayout(buf, s) IN
  CASE Here(buf, l) = STX -> SkipLayout(buf, To(l, ScanText(buf, l.at, Len(buf))))
    [] Here(buf, l) >= 32 -> SkipLayout(buf, To(l, ScanPlain(buf, l.at, Len(buf))))
    [] OTHER -> l

NewValue(buf, old) == DiffValue(buf, To(old, old.at + 1))

Patterns(buf, t, go) ==
  IF Here(buf, t) = US THEN go["pattern", To(t, t.at + 1)] ELSE t

Pattern(buf, s, go) ==
  LET behind(old) == IF Here(buf, old) = SUB THEN NewValue(buf, old) ELSE old IN
  Patterns(buf, go["trailing", behind(DiffValue(buf, s))], go)

Replace(buf, s) ==
  LET behind(old) ==
        IF Here(buf, old) = SUB /\ Trim(Slice(buf, s.at, old.at)) # <<>>
        THEN NewValue(buf, old) ELSE Fail(old)
  IN  behind(DiffValue(buf, s))

(* One element of a diff body, live (from its code) or dead (from the code *)
(* behind the BEL).                                                        *)
DiffElement(buf, s, p, go) ==
  CASE Peek(buf, p, Len(buf)) = FS -> PlainName(buf, To(s, p + 1))
    [] Peek(buf, p, Len(buf)) = GS -> go["pattern", To(s, p + 1)]
    [] Peek(buf, p, Len(buf)) = RS -> Replace(buf, To(s, p + 1))

DiffBody(buf, s, go) ==
  LET l == SkipLayout(buf, s)
      c == Here(buf, l)
      p == IF c = BEL THEN Next1(buf, l) ELSE l.at
      isElement == Peek(buf, p, Len(buf)) \in {FS, GS, RS}
  IN  CASE isElement -> go["diff", DiffElement(buf, l, p, go)]
        [] c = BEL /\ ~isElement ->
             IF AtNote(buf, l) THEN go["diff", go["notes", l]] ELSE To(l, Stuck)
        [] c = ETB -> go["diff", Commit(buf, l)]
        [] c \in {EOT, SYN, EM, None} -> l
        [] OTHER -> Fail(l)
-----------------------------------------------------------------------------
(* Documents. *)
Heading(buf, s, go) ==
  LET l == SkipLayout(buf, s)
      c == Here(buf, l)
      us == ScanPlain(buf, Next1(buf, l), Len(buf))
      unit == go["keyed unit", To(l, l.at + 1)]
      isDiff == /\ Trim(Slice(buf, l.at + 1, us)) = ShapeKey
                /\ Trim(Slice(buf, us + 1, unit.at)) = DiffShape
  IN  CASE c = SOH -> IF StartsHeaderRow(buf, l.at, Len(buf)) THEN l
                      ELSE IF PeekBehind(buf, us, Len(buf)) = ENQ \/ Failed(unit)
                      THEN Fail(l)
                      ELSE go["heading", [unit EXCEPT !.diff = @ \/ isDiff]]
        [] c = BEL -> go["heading", To(l, ScanComment(buf, l.at, Len(buf)))]
        [] c >= 32 -> Fail(l)
        [] OTHER -> l

DocumentEnd_WantsEOT(buf, s, go) ==
  LET l == SkipLayout(buf, s)
      next == SkipLayout(buf, Marked(l, l.at + 1))
  IN  IF Failed(s) \/ Here(buf, l) = None THEN l
      ELSE IF Here(buf, l) = EOT /\ Here(buf, next) \in {SYN, EM, None} THEN go["next", next]
      ELSE Fail(l)

DocumentEnd(buf, s, go) ==
  LET l == SkipLayout(buf, s)
      next == IF Here(buf, l) = EOT THEN SkipLayout(buf, Marked(l, l.at + 1)) ELSE l
  IN  IF Failed(s) \/ Here(buf, next) \in {SYN, EM, None} THEN go["next", next]
      ELSE Fail(next)

(* SYN and a heading, the raw region, or what otherwise is accepted here. *)
Documents(buf, s, otherwise, go) ==
  CASE Here(buf, s) = None -> s
    [] Here(buf, s) = SYN -> go["document", go["heading", Marked(s, s.at + 1)]]
    [] Here(buf, s) = EM -> Marked(s, Len(buf))
    [] OTHER -> otherwise

Rules == {"notes", "trailing", "value", "level", "keyed unit", "keyed", "units",
          "record", "names", "pre", "items", "groups", "files", "body", "diff",
          "pattern", "heading", "document", "next"}

Validated(buf) ==
  LET go[rule \in Rules, s \in States(buf)] ==
        IF Failed(s) THEN s
        ELSE CASE rule = "notes" -> Notes(buf, s, go)
               [] rule = "trailing" -> TrailingNotes(buf, s, go)
               [] rule = "value" -> Value(buf, s, go)
               [] rule = "level" -> Level(buf, s, go)
               [] rule = "keyed unit" -> KeyedUnit(buf, s, go)
               [] rule = "keyed" -> KeyedUnits(buf, s, go)
               [] rule = "units" -> Units(buf, s, go)
               [] rule = "record" -> Record(buf, s, go)
               [] rule = "names" -> HeaderNames(buf, s, go)
               [] rule = "pre" -> Pre(buf, s, go)
               [] rule = "items" -> Items(buf, s, go)
               [] rule = "groups" -> Groups(buf, s, go)
               [] rule = "files" -> Files(buf, s, go)
               [] rule = "body" -> Body(buf, s, go)
               [] rule = "diff" -> DiffBody(buf, s, go)
               [] rule = "pattern" -> Pattern(buf, s, go)
               [] rule = "heading" -> Heading(buf, s, go)
               [] rule = "document" ->
                    Documents(buf, s, DocumentEnd(buf, go["body", s], go), go)
               [] rule = "next" -> Documents(buf, s, Fail(s), go)
  IN  go["document", SkipLayout(buf, Fresh)]

Validate(buf) == ~Failed(Validated(buf))

CanonicalEnd(s) == ~Failed(s) /\ s.canonical

IsCanonical(buf) == CanonicalEnd(Validated(buf))
=============================================================================
