------------------------------- MODULE C0Scan -------------------------------
(***************************************************************************)
(* The scanners that skip one construct (a level, a unit, a record, a      *)
(* comment), and values (c0.go).  A scanner takes a position to the        *)
(* position behind the construct; where the code panics it returns         *)
(* Malformed, and going on from Malformed is Malformed, as nothing of the  *)
(* package goes on scanning before the panic is caught.                    *)
(***************************************************************************)
EXTENDS C0Codes, SequencesExt

None == -2

(* The byte at p, if there is one before stop. *)
Peek(buf, p, stop) == IF p \in 0 .. (stop - 1) THEN At(buf, p) ELSE None

IsControl(b) == b \in 0 .. 31

Positions(stop) == {Malformed} \cup 0 .. stop

(* The byte that follows the one at p and any layout. *)
PeekBehind(buf, p, stop) == Peek(buf, ScanLayout(buf, p + 1, stop), stop)

(* SOH RS, with layout between: a header row. *)
StartsHeaderRow(buf, p, stop) ==
  Peek(buf, p, stop) = SOH /\ PeekBehind(buf, p, stop) = RS

(* scanLevel: from the DLE at pos to behind the CAN that closes it. *)
ScanLevel(buf, pos, stop) ==
  LET after[x \in Positions(stop) \X (Nat \ {0})] ==
        LET p == x[1]
            depth == x[2]
            c == Peek(buf, p, stop)
        IN  CASE p = Malformed \/ c \in Framing \cup {None} -> Malformed
              [] c = STX -> after[<<ScanText(buf, p, stop), depth>>]
              [] c = DLE -> after[<<p + 1, depth + 1>>]
              [] c = CAN -> IF depth = 1 THEN p + 1 ELSE after[<<p + 1, depth - 1>>]
              [] OTHER -> after[<<p + 1, depth>>]
  IN  after[<<pos + 1, 1>>]

(***************************************************************************)
(* scanUnit, scanRecordEnd, scanKeyedUnitEnd and scanComment call each     *)
(* other: each is given the function, end, that all four make up.          *)
(***************************************************************************)
UnitEnd(buf, p, stop, end) ==
  LET c == Peek(buf, p, stop)
      marked == PeekBehind(buf, p, stop)
  IN  CASE c >= 32 \/ IsLayout(c) \/ c = ENQ -> end[<<"unit", p + 1>>]
        [] c = STX -> end[<<"unit", ScanText(buf, p, stop)>>]
        [] c = DLE -> end[<<"unit", ScanLevel(buf, p, stop)>>]
        [] c = BEL -> IF IsControl(marked) /\ marked \notin {STX, DLE} THEN p
                      ELSE end[<<"unit", end[<<"comment", p>>]>>]
        [] OTHER -> p

RecordEnd(buf, p, stop, end) ==
  LET c == Peek(buf, p, stop)
      next == ScanLayout(buf, p + 1, stop)
  IN  CASE c >= 32 \/ IsLayout(c) \/ c \in {US, ENQ} -> end[<<"record", p + 1>>]
        [] c = SOH -> IF StartsHeaderRow(buf, p, stop) THEN p ELSE end[<<"record", p + 1>>]
        [] c = STX -> end[<<"record", ScanText(buf, p, stop)>>]
        [] c = DLE -> end[<<"record", ScanLevel(buf, p, stop)>>]
        [] c = BEL -> IF Peek(buf, next, stop) \in {RS, GS, FS}
                         \/ StartsHeaderRow(buf, next, stop) THEN p
                      ELSE end[<<"record", end[<<"comment", p>>]>>]
        [] OTHER -> p

KeyedUnitEnd(buf, p, stop, end) ==
  LET us == ScanPlain(buf, ScanLayout(buf, p, stop), stop) IN
  IF Peek(buf, us, stop) = US THEN end[<<"unit", us + 1>>] ELSE Malformed

(* The run of GS and layout a group line begins with. *)
ScanGroupMark(buf, pos, stop) ==
  Min({p \in pos .. stop :
         p = stop \/ ~(At(buf, p) = GS \/ IsLayout(At(buf, p)))})

CommentEnd(buf, bel, stop, end) ==
  LET p == ScanLayout(buf, bel + 1, stop)
      c == Peek(buf, p, stop)
  IN  CASE c >= 32 -> ScanPlain(buf, p, stop)
        [] c = STX -> ScanText(buf, p, stop)
        [] c = DLE -> ScanLevel(buf, p, stop)
        [] c = RS -> end[<<"record", p + 1>>]
        [] c = SOH -> IF StartsHeaderRow(buf, p, stop)
                      THEN end[<<"record", ScanLayout(buf, p + 1, stop) + 1>>]
                      ELSE end[<<"keyed", p + 1>>]
        [] c = GS -> ScanPlain(buf, ScanGroupMark(buf, p, stop), stop)
        [] c = FS -> ScanPlain(buf, p + 1, stop)
        [] OTHER -> Malformed

Constructs == {"unit", "record", "keyed", "comment"}

Ends(buf, stop) ==
  LET end[x \in Constructs \X Positions(stop)] ==
        LET k == x[1]
            p == x[2]
        IN  IF p = Malformed THEN Malformed
            ELSE CASE k = "unit" -> IF p < stop THEN UnitEnd(buf, p, stop, end) ELSE p
                   [] k = "record" -> IF p < stop THEN RecordEnd(buf, p, stop, end) ELSE p
                   [] k = "keyed" -> KeyedUnitEnd(buf, p, stop, end)
                   [] k = "comment" -> CommentEnd(buf, p, stop, end)
  IN  end

ScanUnit(buf, pos, stop) == Ends(buf, stop)[<<"unit", pos>>]
ScanRecordEnd(buf, pos, stop) == Ends(buf, stop)[<<"record", pos>>]
ScanComment(buf, pos, stop) == Ends(buf, stop)[<<"comment", pos>>]

(* A set of positions from 1 to last, in order. *)
InOrder(positions, last) == SelectSeq([i \in 1 .. last |-> i], LAMBDA i : i \in positions)

(* Split: the parts of s between its separators. *)
SplitAt(sep, s) ==
  LET seps == InOrder({i \in DOMAIN s : s[i] = sep}, Len(s))
      bounds == <<0>> \o seps \o <<Len(s) + 1>>
  IN  [k \in 1 .. (Len(seps) + 1) |-> SubSeq(s, bounds[k] + 1, bounds[k + 1] - 1)]
-----------------------------------------------------------------------------
(* Values. *)
Trim(raw) ==
  LET solid == {i \in DOMAIN raw : ~IsLayout(raw[i])} IN
  IF solid = {} THEN <<>> ELSE SubSeq(raw, Min(solid), Max(solid))

(* onlyNotesAfter: nothing but notes from pos to the end. *)
OnlyNotesAfter(t, pos) ==
  LET n == Len(t)
      notes[p \in Positions(n)] ==
        IF p = Malformed THEN "fail"
        ELSE LET q == ScanLayout(t, p, n) IN
             CASE Peek(t, q, n) = None -> "ok"
               [] Peek(t, q, n) = BEL -> notes[ScanComment(t, q, n)]
               [] OTHER -> "fail"
  IN  notes[pos] = "ok"

(* DecodeText: the bytes no escape's DLE stands for. *)
DecodeText(inside) ==
  LET n == Len(inside)
      out[i \in 1 .. (n + 2)] ==
        CASE i > n -> <<>>
          [] i <= n /\ inside[i] # DLE -> <<inside[i]>> \o out[i + 1]
          [] i < n /\ inside[i] = DLE -> <<inside[i + 1]>> \o out[i + 2]
          [] i = n /\ inside[i] = DLE -> <<>>
  IN  out[1]

(* value: the logical value of a raw unit, as a set that is empty where    *)
(* the code fails.  A plain value ends before a note, and nothing else.    *)
FollowsPlain_NoNotes == {None}

FollowsPlain == {None, BEL}

PlainEnd(t) == Min({Len(t)} \cup {i \in 0 .. (Len(t) - 1) : IsControl(At(t, i))})

ValueUpTo(t, isText, end) ==
  IF end # Malformed /\ (isText \/ Peek(t, end, Len(t)) \in FollowsPlain) /\ OnlyNotesAfter(t, end)
  THEN {IF isText THEN DecodeText(Slice(t, 1, end - 1)) ELSE Trim(Slice(t, 0, end))}
  ELSE {}

ValueIn(t, isText) == ValueUpTo(t, isText, IF isText THEN ScanText(t, 0, Len(t)) ELSE PlainEnd(t))

ValueOfTrimmed(t) == ValueIn(t, Peek(t, 0, Len(t)) = STX)

ValueOf(raw) == ValueOfTrimmed(Trim(raw))

IsPlain(v) ==
  v # <<>> => /\ ~IsLayout(v[1]) /\ ~IsLayout(v[Len(v)])
              /\ \A i \in DOMAIN v : IsPlainByte(v[i])

IsName(v) == IsPlain(v)

(* AppendValue, the bytes it appends: a value's one spelling. *)
Escaped(v) ==
  FlattenSeq([i \in DOMAIN v |->
    IF v[i] \in TextEscaped THEN <<DLE, v[i]>> ELSE <<v[i]>>])

Spelled_EmptyAsText(v) ==
  IF v # <<>> /\ IsPlain(v) THEN v ELSE <<STX>> \o Escaped(v) \o <<ETX>>

Spelled(v) == IF IsPlain(v) THEN v ELSE <<STX>> \o Escaped(v) \o <<ETX>>
=============================================================================
