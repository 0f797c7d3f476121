----------------------------- MODULE Formatter -----------------------------
(***************************************************************************)
(* FormatWith (pretty.go): a buffer becomes pretty text, one element to a  *)
(* line, nested levels indented; then the text may be aligned.  One step   *)
(* is one turn of run's loop.                                              *)
(*                                                                         *)
(* What a turn writes is a piece: its runes, where reading goes on (or     *)
(* Malformed where the code panics), and whether the line ended with the   *)
(* opening of a level.                                                     *)
(***************************************************************************)
EXTENDS PrettyForm

CONSTANTS Vocabularies, \* sets of runs of bytes; one of them makes a buffer
          MaxPieces,    \* bound on how many of its runs make it
          Indent        \* the indentation of one level

ASSUME VocabulariesAssumption == \A pieces \in Vocabularies : pieces \subseteq Seq(Byte)
ASSUME MaxPiecesAssumption == MaxPieces \in Nat
ASSUME IndentAssumption == Indent \in Seq({SP, HT})

VARIABLES buf,       \* the bytes to show
          pos,       \* how far they are read
          text,      \* the text written
          depth,     \* nesting depth
          gdepth,    \* depth of groups within the level
          lineStart, \* whether a line has just been ended
          stack,     \* gdepth of every level around
          phase      \* whether FormatWith runs, or what mode it returned in

vars == <<buf, pos, text, depth, gdepth, lineStart, stack, phase>>

Buffers == {FlattenSeq(s) : s \in UNION {[1 .. n -> pieces] :
                                      n \in 0 .. MaxPieces, pieces \in Vocabularies}}

Init == /\ buf \in Buffers
        /\ pos = 0
        /\ text = <<>>
        /\ depth = 0 /\ gdepth = 0
        /\ lineStart = TRUE
        /\ stack = <<>>
        /\ phase = "run"
-----------------------------------------------------------------------------
Piece(at, runes) == [at |-> at, runes |-> runes, opens |-> FALSE]
Panic == Piece(Malformed, <<>>)

Prefixed(runes, piece) == [piece EXCEPT !.runes = runes \o @]
Marked(b, piece) == Prefixed(<<Glyph(b)>>, piece)

(* writeData and writeText refuse a value that holds a Control Picture. *)
DataPiece(at, data) == IF HasGlyph(data) THEN Panic ELSE Piece(at, Runes(data))

(* writePlain: the trimmed run behind any layout. *)
PlainPiece(log, p) ==
  LET start == ScanLayout(log, p, Len(log))
      end == ScanPlain(log, start, Len(log))
  IN  DataPiece(end, Trim(Slice(log, start, end)))

(* writeText: the control bytes of a text are glyphs. *)
Shown(r) == IF IsControl(r) /\ ~IsLayout(r) THEN Glyph(r) ELSE r

TextPiece(log, p, end) ==
  LET inside == Slice(log, p + 1, end - 1)
      shown(runes) == [i \in DOMAIN runes |-> Shown(runes[i])]
  IN  IF end = Malformed \/ HasGlyph(inside) THEN Panic
      ELSE Piece(end, <<Glyph(STX)>> \o shown(Runes(inside)) \o <<Glyph(ETX)>>)

(* What comes next, read by a function of positions. *)
ThenAll(piece, next) == Prefixed(piece.runes, next[piece.at])

(* The codes of a unit that are shown by themselves. *)
UnitMarks_DataOnly == {US, ENQ}

UnitMarks == {US, ENQ, SUB}

(* A BEL in a unit: of a note or a dead level, not of a dead element. *)
MarksUnit(b) == b >= 32 \/ b \in {STX, DLE}

(***************************************************************************)
(* writeUnits: up to a record-level code, or behind the opening of a level.*)
(***************************************************************************)
Units(log) ==
  LET n == Len(log)
      units[p \in Positions(n)] ==
        LET c == Peek(log, p, n) IN
        CASE c >= 32 -> ThenAll(PlainPiece(log, p), units)
          [] p = Malformed -> Panic
          [] IsLayout(c) /\ c < 32 -> units[p + 1]
          [] c \in UnitMarks \/ (c = SOH /\ ~StartsHeaderRow(log, p, n)) ->
               Marked(c, units[p + 1])
          [] c = STX -> ThenAll(TextPiece(log, p, ScanText(log, p, n)), units)
          [] c = DLE -> [at |-> p + 1, runes |-> <<Glyph(DLE), LF>>, opens |-> TRUE]
          [] c = BEL /\ MarksUnit(PeekBehind(log, p, n)) ->
               Marked(BEL, units[ScanLayout(log, p + 1, n)])
          [] c = ETB -> Marked(ETB, ThenAll(PlainPiece(log, p + 1), units))
          [] OTHER -> Piece(p, <<>>)
  IN  units

(* writeInlineLevel *)
InlineLevel(log, start, stop) ==
  LET inline[p \in Positions(stop)] ==
        LET c == Peek(log, p, stop) IN
        CASE p = Malformed -> Panic
          [] c = STX -> ThenAll(TextPiece(log, p, ScanText(log, p, stop)), inline)
          [] c >= 32 -> ThenAll(PlainPiece(log, p), inline)
          [] IsLayout(c) /\ c < 32 -> inline[p + 1]
          [] c = None -> Piece(p, <<>>)
          [] OTHER -> Marked(c, inline[p + 1])
  IN  inline[start]

HeadingValue(log, p) ==
  LET n == Len(log) IN
  CASE Peek(log, p, n) = STX -> TextPiece(log, p, ScanText(log, p, n))
    [] Peek(log, p, n) = DLE ->
         IF ScanLevel(log, p, n) = Malformed THEN Panic
         ELSE InlineLevel(log, p, ScanLevel(log, p, n))
    [] OTHER -> PlainPiece(log, p)

(* A key of the heading, and its value where it has one. *)
HeadingUnit(log, key) ==
  IF Peek(log, key.at, Len(log)) # US THEN key
  ELSE Prefixed(key.runes,
              Marked(US, HeadingValue(log, ScanLayout(log, key.at + 1, Len(log)))))

(* writeHeading *)
Heading(log, start) ==
  LET n == Len(log)
      heading[p \in Positions(n)] ==
        LET c == Peek(log, p, n)
            next == ScanLayout(log, p + 1, n)
            marked == PeekBehind(log, p, n)
        IN  CASE c = SOH /\ ~StartsHeaderRow(log, p, n) ->
                   Marked(SOH, ThenAll(HeadingUnit(log, PlainPiece(log, next)), heading))
              [] p = Malformed -> Panic
              [] c = BEL /\ marked = STX ->
                   Marked(BEL, ThenAll(TextPiece(log, next, ScanText(log, next, n)), heading))
              [] c = BEL /\ marked >= 32 -> Marked(BEL, ThenAll(PlainPiece(log, next), heading))
              [] c = BEL /\ marked = SOH -> Marked(BEL, heading[next])
              [] IsLayout(c) -> heading[p + 1]
              [] OTHER -> Piece(p, <<>>)
  IN  heading[start]

(* An element ends its line unless the opening of a level has.             *)
EndLine(piece) == [piece EXCEPT !.runes = Append(@, LF)]
EndElement(piece) == IF piece.opens THEN piece ELSE EndLine(piece)

(* writeElement: an element and its units, or a note.  Behind a BEL stands *)
(* what it marks dead, where a group, a file or a level has a line of its  *)
(* own.                                                                    *)
Element(log, start, units) ==
  LET n == Len(log)
      element[p \in 0 .. n] ==
        LET c == Peek(log, p, n)
            next == ScanLayout(log, p + 1, n)
            marked == PeekBehind(log, p, n)
        IN  CASE c = BEL /\ marked < 32 /\ marked # STX -> Marked(BEL, element[next])
              [] c = BEL /\ (marked >= 32 \/ marked = STX) -> EndLine(Marked(BEL, units[next]))
              [] c = None -> Piece(p, <<>>)
              [] c = SOH /\ marked = RS ->
                   EndElement(Prefixed(<<Glyph(SOH), Glyph(RS)>>, units[next + 1]))
              [] c = SOH /\ marked # RS -> EndElement(Marked(SOH, units[next]))
              [] c = RS -> EndElement(Marked(RS, units[p + 1]))
              [] c = ETB -> EndLine(Marked(ETB, PlainPiece(log, p + 1)))
              [] OTHER -> EndLine(Piece(p, <<>>))
  IN  element[start]

(* Where a run of GS ends, and its glyphs. *)
GroupMarksEnd(log, p) == Min({q \in p .. Len(log) : q = Len(log) \/ At(log, q) # GS})

GroupLine(log, p) ==
  Prefixed([i \in 1 .. (GroupMarksEnd(log, p) - p) |-> Glyph(GS)],
         PlainPiece(log, GroupMarksEnd(log, p)))

(* EM, and the count of the bytes behind it, which is not spelled out. *)
RawRegion(log, p) ==
  Piece(Len(log), <<Glyph(EM)>> \o (IF p + 1 = Len(log) THEN <<>> ELSE <<SP, 98>>))

(* Data that no element holds, as it is. *)
StrayPiece(log, p) ==
  LET end == ScanPlain(log, p, Len(log)) IN DataPiece(end, Slice(log, p, end))
-----------------------------------------------------------------------------
Inline_DataOnly == {STX, DLE, ENQ, US}

Inline == {STX, DLE, ENQ, US, SUB}

Elements == {SOH, RS, BEL, ETB}

(* The byte that a turn of the loop begins with, and what the turn writes. *)
(* failUnassigned panics on any other code.                                *)
Here == IF phase = "run" THEN Peek(buf, pos, Len(buf)) ELSE None

PieceOf(b) ==
  CASE b = SYN -> EndLine(Marked(SYN, Heading(buf, pos + 1)))
    [] b = FS -> EndLine(Marked(FS, PlainPiece(buf, pos + 1)))
    [] b = GS -> EndLine(GroupLine(buf, pos))
    [] b \in Elements -> Element(buf, pos, Units(buf))
    [] b \in Inline -> EndLine(Units(buf)[pos])
    [] b = CAN -> EndElement(Marked(CAN, Units(buf)[pos + 1]))
    [] b = EOT -> EndLine(Piece(pos + 1, <<Glyph(EOT)>>))
    [] b = EM -> EndLine(RawRegion(buf, pos))
    [] IsLayout(b) -> Piece(pos + 1, <<>>)
    [] b > 32 -> StrayPiece(buf, pos)
    [] OTHER -> Panic

(* nl and writeIndent. *)
NewLine == IF lineStart THEN <<>> ELSE <<LF>>
Indented(levels) == FlattenSeq([i \in 1 .. levels |-> Indent])

(* A level that opens keeps the depth of the groups around it. *)
Write(before, piece, level, groups, around) ==
  /\ piece.at # Malformed
  /\ pos' = piece.at
  /\ text' = text \o before \o piece.runes
  /\ lineStart' = (Last(piece.runes) = LF)
  /\ depth' = IF piece.opens THEN level + 1 ELSE level
  /\ stack' = IF piece.opens THEN Append(around, groups) ELSE around
  /\ gdepth' = groups
  /\ UNCHANGED buf

WriteSYN == /\ Here = SYN
            /\ Write(NewLine, PieceOf(Here), depth, 0, stack)
            /\ UNCHANGED phase

WriteFile == /\ Here = FS
             /\ Write(NewLine \o Indented(depth), PieceOf(Here), depth, 1, stack)
             /\ UNCHANGED phase

WriteGroup == /\ Here = GS
              /\ Write(NewLine \o Indented(depth), PieceOf(Here), depth, 1, stack)
              /\ UNCHANGED phase

WriteElement == /\ Here \in Elements
                /\ Write(NewLine \o Indented(depth + gdepth), PieceOf(Here),
                         depth, gdepth, stack)
                /\ UNCHANGED phase

(* A unit-level code at element level, as in a diff. *)
WriteInline == /\ Here \in Inline
               /\ Write(<<>>, PieceOf(Here), depth, gdepth, stack)
               /\ UNCHANGED phase

WriteEOT == /\ Here = EOT
            /\ Write(NewLine, PieceOf(Here), depth, gdepth, stack)
            /\ UNCHANGED phase

(* The record around the level goes on behind its CAN, on the same line. *)
CloseLevel(groups) ==
  LET level == IF depth = 0 THEN 0 ELSE depth - 1
      around == IF stack = <<>> THEN stack ELSE Front(stack)
  IN  /\ Here = CAN
      /\ Write(NewLine \o Indented(level + groups), PieceOf(Here), level, groups, around)
      /\ UNCHANGED phase

WriteCAN_LosesGroup == CloseLevel(0)

WriteCAN == CloseLevel(IF stack = <<>> THEN 0 ELSE Last(stack))

WriteEM == /\ Here = EM
           /\ Write(NewLine, PieceOf(Here), depth, gdepth, stack)
           /\ phase' = "compact"

SkipLayout == /\ IsLayout(Here)
              /\ pos' = pos + 1
              /\ UNCHANGED <<buf, text, depth, gdepth, lineStart, stack, phase>>

WriteStray == /\ Here > 32
              /\ Write(<<>>, PieceOf(Here), depth, gdepth, stack)
              /\ UNCHANGED phase

(* A scanner or failUnassigned panics, or a value holds a glyph. *)
Fail == /\ Here # None
        /\ PieceOf(Here).at = Malformed
        /\ phase' = "failed"
        /\ UNCHANGED <<buf, pos, text, depth, gdepth, lineStart, stack>>

Finish == /\ phase = "run" /\ pos = Len(buf)
          /\ text' = text \o NewLine
          /\ phase' = "compact"
          /\ UNCHANGED <<buf, pos, depth, gdepth, lineStart, stack>>

(* FormatWith in a mode other than compact. *)
AlignText(mode) == /\ phase = "compact"
                   /\ text' = Align(text, mode)
                   /\ phase' = mode
                   /\ UNCHANGED <<buf, pos, depth, gdepth, lineStart, stack>>

Turn == \/ WriteSYN \/ WriteFile \/ WriteGroup \/ WriteElement \/ WriteInline
        \/ WriteEOT \/ WriteCAN \/ WriteEM \/ SkipLayout \/ WriteStray
        \/ Fail \/ Finish

Returned == phase # "run" /\ UNCHANGED vars

Next == Turn \/ (\E mode \in {"aligned", "spaced"} : AlignText(mode)) \/ Returned

Spec == Init /\ [][Next]_vars
-----------------------------------------------------------------------------
TypeOK == /\ buf \in Seq(Byte)
          /\ pos \in 0 .. Len(buf)
          /\ text \in Seq(Nat)
          /\ gdepth \in 0 .. 1
          /\ stack \in Seq(0 .. 1) /\ depth = Len(stack)
          /\ lineStart \in BOOLEAN
          /\ phase \in {"run", "failed", "compact", "aligned", "spaced"}

(* FormatWith returns: every turn of its loop reads on, or is the last.    *)
TurnsAdvance == [][phase = "run" => pos' > pos \/ phase' # "run"]_vars

(* The levels open at p, and in each whether a group or file line indents  *)
(* what follows: one of the level's, or one before it outside.  Behind a   *)
(* CAN that closes no level it is as at the beginning.                     *)
Nesting(log, p) ==
  LET n == Len(log)
      open[x \in Positions(n) \X (Seq(0 .. 1) \ {<<>>})] ==
        LET q == x[1]
            groups == x[2]
            c == Peek(log, q, n)
        IN  CASE q >= p \/ c = None -> groups
              [] q < p /\ c = STX -> open[<<ScanText(log, q, n), groups>>]
              [] q < p /\ c = DLE -> open[<<q + 1, Append(groups, Last(groups))>>]
              [] q < p /\ c = CAN ->
                   open[<<q + 1, IF Len(groups) = 1 THEN <<0>> ELSE Front(groups)>>]
              [] q < p /\ c \in {FS, GS} -> open[<<q + 1, Append(Front(groups), 1)>>]
              [] q < p /\ c = SYN -> open[<<q + 1, Append(Front(groups), 0)>>]
              [] OTHER -> open[<<q + 1, groups>>]
  IN  open[<<0, <<0>>>>]

(* The indentation of each line is that of the level it stands in, also    *)
(* behind a level that has had groups of its own.                          *)
NestingIsKept == phase = "run" => Append(stack, gdepth) = Nesting(buf, pos)
=============================================================================
