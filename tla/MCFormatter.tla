---------------------------- MODULE MCFormatter ----------------------------
(***************************************************************************)
(* The pretty printer over all buffers of a few pieces, with properties    *)
(* that relate Format, Parse, Align and the validator.                     *)
(***************************************************************************)
EXTENDS Formatter

V == INSTANCE Validator
S == INSTANCE StreamScan

(* Tables: rows of different widths, with a text that holds a separator,   *)
(* a header row, a keyed record.  Letters stand for any plain bytes.       *)
TablePieces == {<<RS, 120, US, 121, 121>>, <<RS, 120, 120, 120, US>>,
                <<RS, STX, SP, US, ETX, US, SP, 121>>, <<SOH, RS, 110, US, 109, 109>>,
                <<RS, SOH, 97, US, 120, 120, SOH, 98, 98, US>>, <<GS, 103>>,
                <<RS, SOH, 99, US, SOH, 99, US>>}

(* Levels in records, groups and files, of which some are open before.     *)
LevelPieces == {<<FS, 102>>, <<GS>>, <<RS, 120>>, <<US, DLE>>, <<CAN>>, <<BEL>>,
                <<SOH>>, <<US>>}

(* Texts: of more than one line, with codes in them, with escapes.         *)
TextPieces == {<<RS>>, <<STX, LF, SP, RS, ETX>>, <<STX, LF, SP, 120, ETX>>, <<BEL>>,
               <<STX, DLE, ETX, SP, DLE, DLE, ETX>>, <<SP, 120, SP, SP, 120, SP>>, <<LF>>, <<US>>}

(* Bytes that are not ASCII: of two-byte runes, a glyph, a lone byte, a    *)
(* white space.                                                            *)
RunePieces == {<<RS>>, <<195, 169>>, <<226, 144, 158>>, <<255>>, <<194, 160>>,
               <<US>>, <<STX>>, <<ETX>>}

(* Documents: headings, also with a nested value, commits, ends, tails.    *)
FramePieces == {<<SYN, SOH, 107, US, 118>>, <<SYN, SOH, 107, US, DLE, RS, SP, STX, ETB, ETX, CAN>>,
                <<EOT>>, <<EM, LF, 120>>, <<ETB, 112>>, <<RS, 120>>, <<BEL, 110>>, <<ENQ>>}

(* A diff.                                                                 *)
DiffPieces == {<<SYN, SOH, 115, US, 100>>, <<GS, 103>>, <<RS, 120>>, <<SUB, 121>>,
               <<US>>, <<SUB, STX, SUB, ETX>>, <<ENQ>>, <<SP, LF>>}

(* Comments in a heading, with a code that has no meaning.                 *)
CommentPieces == {<<SYN, BEL>>, <<DLE>>, <<CAN>>, <<6>>, <<RS>>, <<SOH, 107, US>>,
                  <<STX, ETX>>}

TwoSpaces == <<SP, SP>>

AllPieces == {TablePieces, LevelPieces, TextPieces, RunePieces, FramePieces, DiffPieces,
              CommentPieces}
-----------------------------------------------------------------------------
Accepted == V!Validate(buf)

(* The bytes without the layout around plain runs, up to the raw region.   *)
Stripped(log) ==
  LET n == Len(log)
      rest[p \in Positions(n)] ==
        LET c == Peek(log, p, n)
            plain == ScanPlain(log, p, n)
            end == ScanText(log, p, n)
        IN  CASE c = None -> <<>>
              [] c = EM -> <<EM>>
              [] c = STX -> Slice(log, p, end) \o rest[end]
              [] c >= 32 -> Trim(Slice(log, p, plain)) \o rest[plain]
              [] IsLayout(c) /\ c < 32 -> rest[p + 1]
              [] OTHER -> <<c>> \o rest[p + 1]
  IN  rest[0]

(* "Format and Parse are inverses on well-formed input" (pretty.go:9):     *)
(* Parse gives the bytes back, but for layout and the raw region.          *)
ParsesBack == Parse(text) = Stripped(buf)

IsUTF8(log) == LET runes == Runes(log) IN FlattenSeq([i \in DOMAIN runes |-> Encoded(runes[i])]) = log

(* In compact mode that is so for UTF-8; any other byte is replaced.       *)
ParseUndoesFormat == phase = "compact" /\ Accepted /\ IsUTF8(buf) => ParsesBack

(* A text that goes on in a line which begins with a code, and white space *)
(* that is not layout.                                                     *)
GoesOnWithCode(log) ==
  \E p \in 0 .. (Len(log) - 1) :
    /\ At(log, p) = STX
    /\ \E q \in p .. (ScanText(log, p, Len(log)) - 1) :
         At(log, q) = LF /\ PeekBehind(log, q, Len(log)) \in {FS, GS, RS, SOH, US, BEL}

HasOtherSpace(log) == Range(Runes(log)) \cap (White \ Layout) # {}

(* Align changes where things stand, not what they are.  Not so where a    *)
(* text goes on in a line that begins with a code, which Align takes for   *)
(* the mark of an element, and where a value begins or ends with a white   *)
(* space that is not layout.                                               *)
AlignKeepsBytes ==
  phase \in {"aligned", "spaced"} /\ Accepted /\ IsUTF8(buf)
    /\ ~GoesOnWithCode(buf) /\ ~HasOtherSpace(buf) => ParsesBack

(* A code without a meaning in a level behind a comment of a heading: the  *)
(* validator skips the comments of a heading (validator.go:119).           *)
SkippedCode ==
  \E p \in 0 .. (Len(buf) - 1) :
    /\ IsControl(At(buf, p)) /\ At(buf, p) \notin (Assigned \ {ETX}) \cup Layout
    /\ S!Scan(Slice(buf, 0, p)).depth > 0
    /\ \E q \in 0 .. (p - 1) :
         At(buf, q) = BEL /\ \E r \in 0 .. (q - 1) : At(buf, r) = SYN

(* What is well-formed can be shown, unless a value has a glyph in it or a *)
(* code was skipped: the formatter scans what the validator accepts.       *)
FailsOnlyOnGlyph == phase = "failed" /\ Accepted => HasGlyph(buf) \/ SkippedCode

(* Where the fields of a line end. *)
Places(line, table) ==
  LET p == Len(table.prefix) + 1
      cuts == InOrder(Cuts(line, p, Standing(line, p)), Len(line))
  IN  [k \in DOMAIN cuts |-> cuts[k] - p]

LineUp(lines, tables) ==
  \A k \in 1 .. Min({Len(tables[i].fields) : i \in 1 .. 2}) - 1 :
    (\A c \in 1 .. k : tables[1].fields[c].unit = tables[2].fields[c].unit) =>
      Places(lines[1], tables[1])[k] = Places(lines[2], tables[2])[k]

(* In the lines of a table, one behind the other, the fields that end with *)
(* the same separators end at the same place behind the prefix.            *)
ColumnsLineUp ==
  phase \in {"aligned", "spaced"} =>
    LET inLines(lines) ==
          \A i \in 1 .. (Len(lines) - 1) :
            LineUp(SubSeq(lines, i, i + 1), [k \in 1 .. 2 |-> TableLine(lines[i + k - 1])])
    IN  inLines(Lines(text))

HasKeyedRecord(log) ==
  \E p \in 0 .. (Len(log) - 1) :
    At(log, p) = RS /\ PeekBehind(log, p, Len(log)) = SOH

(* Text that is aligned already stays as it is, and so does text that was  *)
(* aligned in another mode in between.  In spaced mode a space stands      *)
(* between the mark of a record and what follows, and a second Align no    *)
(* longer sees that the record is keyed (pretty.go:601).                   *)
AlignSettles ==
  \A mode \in {"aligned", "spaced"} :
    \/ phase = "aligned" /\ mode = "aligned"
    \/ phase \in {"aligned", "spaced"} /\ ~HasKeyedRecord(buf)
    => Align(Align(text, mode), phase) = text
=============================================================================
