----------------------------- MODULE PrettyForm -----------------------------
(***************************************************************************)
(* The pretty form as text (pretty.go): how Parse turns it into compact    *)
(* bytes, and how Align lays it out in columns.  A text is a sequence of   *)
(* runes; data is decoded where it is written.  UTF-8 is that of one and   *)
(* of two bytes, and every byte that is neither becomes the replacement    *)
(* character, as in Go.                                                    *)
(***************************************************************************)
EXTENDS C0Scan

Replacement == 65533

Glyph(b) == 9216 + b
Code(r) == r - 9216
IsGlyph(r) == r \in Glyph(0) .. Glyph(31)

(* The bytes of a Control Picture, which a value must not hold. *)
HasGlyph(data) ==
  \E i \in 1 .. (Len(data) - 2) :
    data[i] = 226 /\ data[i + 1] = 144 /\ data[i + 2] \in 128 .. 159

(* A byte of a two-byte rune, and one that is no part of any. *)
Leads(data, i) ==
  data[i] \in 194 .. 223 /\ i < Len(data) /\ data[i + 1] \in 128 .. 191

Runes(data) ==
  LET n == Len(data)
      from[i \in 1 .. (n + 1)] ==
        CASE i > n -> <<>>
          [] i <= n /\ data[i] < 128 -> <<data[i]>> \o from[i + 1]
          [] i <= n /\ data[i] >= 128 /\ Leads(data, i) ->
               <<(data[i] - 192) * 64 + data[i + 1] - 128>> \o from[i + 2]
          [] OTHER -> <<Replacement>> \o from[i + 1]
  IN  from[1]

Encoded(r) ==
  CASE r < 128 -> <<r>>
    [] r \in 128 .. 2047 -> <<192 + r \div 64, 128 + (r % 64)>>
    [] OTHER -> <<239, 191, 189>>
-----------------------------------------------------------------------------
(***************************************************************************)
(* Parse, a rune at a time.  "in" is where the parser is: behind a code or *)
(* a line's end, where spaces are dropped; in data, where they wait in     *)
(* pending for more data; in a text, or behind a DLE in it; in the summary *)
(* of a raw region.                                                        *)
(***************************************************************************)
Emit(s, bytes, in) == [s EXCEPT !.out = @ \o bytes, !.pending = <<>>, !.in = in]

TextRune_NoEscapes(s, r) ==
  IF ~IsGlyph(r) THEN Emit(s, Encoded(r), "text")
  ELSE Emit(s, <<Code(r)>>, IF Code(r) = ETX THEN "code" ELSE "text")

TextRune(s, r) ==
  CASE ~IsGlyph(r) -> Emit(s, Encoded(r), "text")
    [] IsGlyph(r) /\ s.in = "escape" -> Emit(s, <<Code(r)>>, "text")
    [] OTHER -> Emit(s, <<Code(r)>>, CASE Code(r) = DLE -> "escape"
                                       [] Code(r) = ETX -> "code"
                                       [] OTHER -> "text")

LayoutRune(s, r) ==
  IF r \in {LF, CR} THEN [s EXCEPT !.pending = <<>>, !.in = "code"]
  ELSE IF s.in = "data" THEN [s EXCEPT !.pending = Append(@, r)] ELSE s

GlyphRune(s, r) ==
  Emit(s, <<Code(r)>>, CASE Code(r) = STX -> "text"
                         [] Code(r) = EM -> "summary"
                         [] OTHER -> "code")

ParseRune(s, r) ==
  CASE s.in \in {"text", "escape"} -> TextRune(s, r)
    [] s.in = "summary" -> IF r = LF THEN LayoutRune(s, r) ELSE s
    [] s.in \in {"code", "data"} /\ IsGlyph(r) -> GlyphRune(s, r)
    [] s.in \in {"code", "data"} /\ IsLayout(r) -> LayoutRune(s, r)
    [] OTHER -> Emit(s, s.pending \o Encoded(r), "data")

Parse(text) ==
  LET after[i \in 0 .. Len(text)] ==
        IF i = 0 THEN [out |-> <<>>, pending |-> <<>>, in |-> "code"]
        ELSE ParseRune(after[i - 1], text[i])
  IN  after[Len(text)].out
-----------------------------------------------------------------------------
(* Align.  White space that strings.TrimSpace takes off, and runs of it.   *)
White == Layout \cup {11, 12, 133, 160}

TrimSpace(s) ==
  LET solid == {i \in DOMAIN s : s[i] \notin White} IN
  IF solid = {} THEN <<>> ELSE SubSeq(s, Min(solid), Max(solid))

(* The first position at or behind p that is not in the run of runes. *)
RunEnd(line, p, runes) ==
  Min({q \in p .. (Len(line) + 1) : q > Len(line) \/ line[q] \notin runes})

From(line, p) == SubSeq(line, p, Len(line))

PrefixGlyphs == {Glyph(b) : b \in {FS, GS, RS, SOH, US, SYN, BEL}}

(* The length of the RS or SOH RS that stands at p, 0 where none does. *)
TableMark(line, p) ==
  CASE p <= Len(line) /\ line[p] = Glyph(RS) -> 1
    [] p < Len(line) /\ line[p] = Glyph(SOH) /\ line[p + 1] = Glyph(RS) -> 2
    [] OTHER -> 0

(* Where each rune from p on stands, and the end: in a text or not. *)
Standing(line, p) ==
  LET in[i \in p .. (Len(line) + 1)] ==
        LET follow(before, r) ==
              CASE before = "plain" -> IF r = Glyph(STX) THEN "text" ELSE "plain"
                [] before = "escape" -> "text"
                [] OTHER -> CASE r = Glyph(ETX) -> "plain"
                              [] r = Glyph(DLE) -> "escape"
                              [] OTHER -> "text"
        IN  IF i = p THEN "plain" ELSE follow(in[i - 1], line[i - 1])
  IN  in

(* Where the fields end: at each US, in a keyed record at each SOH but the *)
(* first.                                                                  *)
Cuts_SplitsText(line, p, in) ==
  {i \in p .. Len(line) : line[i] = Glyph(US)}

Cuts(line, p, in) ==
  {i \in p .. Len(line) :
     /\ in[i] = "plain"
     /\ \/ line[i] = Glyph(US)
        \/ line[i] = Glyph(SOH) /\ line[p] = Glyph(SOH) /\ i > p}

FieldsBetween(line, p, cuts) ==
  LET starts == <<p - 1>> \o InOrder(cuts, Len(line))
      end(k) == IF k = Len(starts) THEN Len(line) ELSE starts[k + 1] - 1
      first(k) == IF k > 1 /\ line[starts[k]] = Glyph(SOH) THEN starts[k] ELSE starts[k] + 1
  IN  [k \in DOMAIN starts |->
         [text |-> TrimSpace(SubSeq(line, first(k), end(k))),
          unit |-> k < Len(starts) /\ line[starts[k + 1]] = Glyph(US)]]

(* parseTableLine: the prefix and the fields of a line, each with whether  *)
(* a US follows it; no field when the line is not part of a table.         *)
TableLine(line) ==
  LET mark == RunEnd(line, 1, {SP, HT})
      p == mark + TableMark(line, mark)
      parsed(in) ==
        IF \/ p = mark
           \/ in[Len(line) + 1] # "plain"
           \/ \E i \in p .. Len(line) : in[i] = "plain" /\ line[i] \in {Glyph(DLE), Glyph(CAN)}
           \/ Cuts(line, p, in) = {}
        THEN [prefix |-> <<>>, fields |-> <<>>]
        ELSE [prefix |-> SubSeq(line, 1, p - 1),
              fields |-> FieldsBetween(line, p, Cuts(line, p, in))]
  IN  parsed(Standing(line, p))

Spaces(n) == [i \in 1 .. n |-> SP]

(* A line of a table: each field as wide as its column, but for the last. *)
Cell(field, width, last, sp) ==
  CASE last -> field.text
    [] ~last /\ field.unit -> field.text \o Spaces(width - Len(field.text)) \o sp \o <<Glyph(US)>> \o sp
    [] OTHER -> field.text \o Spaces(width - Len(field.text)) \o <<SP>>

AlignedLine(table, widths, sp) ==
  LET cell(c) == Cell(table.fields[c], widths[c], c = Len(table.fields), sp) IN
  table.prefix \o sp \o FlattenSeq([c \in DOMAIN table.fields |-> cell(c)])

(* Any other line: what follows its marks, at their edge. *)
MarkedLine_KeepsLayout(line, sp) ==
  LET marks == RunEnd(line, 1, {SP, HT})
      end == RunEnd(line, marks, PrefixGlyphs)
  IN  IF end = marks \/ end > Len(line) THEN line
      ELSE SubSeq(line, 1, end - 1) \o sp \o From(line, end)

MarkedLine(line, sp) ==
  LET marks == RunEnd(line, 1, {SP, HT})
      end == RunEnd(line, marks, PrefixGlyphs)
  IN  IF end = marks \/ end > Len(line) THEN line
      ELSE SubSeq(line, 1, end - 1) \o sp \o From(line, RunEnd(line, end, {SP, HT}))

(* findTableGroups: a group is a run of lines of a table.  A column is as  *)
(* wide as the widest of its fields in the group.                          *)
Group(tables, i) ==
  {j \in DOMAIN tables :
     \A k \in DOMAIN tables : (k \in i .. j \/ k \in j .. i) => tables[k].fields # <<>>}

Widths_OfTheLine(tables, i) ==
  [c \in DOMAIN tables[i].fields |-> Len(tables[i].fields[c].text)]

Widths(tables, i) ==
  LET widest(group, c) ==
        Max({Len(tables[j].fields[c].text) : j \in {k \in group : c \in DOMAIN tables[k].fields}})
      all(group) == [c \in DOMAIN tables[i].fields |-> widest(group, c)]
  IN  all(Group(tables, i))

Lines(text) ==
  LET split(all) == IF Last(all) = <<>> THEN Front(all) ELSE all IN split(SplitAt(LF, text))

JoinLines(lines) ==
  IF lines = <<>> THEN <<LF>> ELSE FlattenSeq([i \in DOMAIN lines |-> Append(lines[i], LF)])

Align(text, mode) ==
  LET sp == IF mode = "spaced" THEN <<SP>> ELSE <<>>
      aligned(lines, tables) ==
        [i \in DOMAIN lines |-> IF tables[i].fields = <<>> THEN MarkedLine(lines[i], sp)
                                ELSE AlignedLine(tables[i], Widths(tables, i), sp)]
      all(lines) == aligned(lines, [i \in DOMAIN lines |-> TableLine(lines[i])])
  IN  JoinLines(all(Lines(text)))
=============================================================================
