------------------------------ MODULE Document ------------------------------
(***************************************************************************)
(* One document of a buffer (document.go): its heading, where its body     *)
(* ends, and the index of the body.  As in BodyIndex the result is a set,  *)
(* {} where the code panics.                                               *)
(***************************************************************************)
EXTENDS BodyIndex

(* parseHeading: the keyed units behind SYN, with their values raw and as  *)
(* Pairs has them, and the position of the first body code.  A level stays *)
(* raw, any other value is decoded.                                        *)
PairValue(raw) == IF StartsWith(raw, DLE) THEN {raw} ELSE ValueOf(raw)

HeadingPairs(key, raw) ==
  {[key |-> key, raw |-> raw, value |-> v] : v \in PairValue(raw)}

ParseHeading(log, start) ==
  LET n == Len(log)
      heading[p \in Positions(n)] ==
        LET q == ScanLayout(log, p, n)
            c == Peek(log, q, n)
            key == ScanLayout(log, q + 1, n)
            us == ScanPlain(log, key, n)
            upTo(end) ==
              LET raw == Trim(Slice(log, us + 1, end)) IN
              IF Peek(log, us, n) # US \/ end = Malformed \/ StartsWith(raw, ENQ) THEN {}
              ELSE {[h EXCEPT !.pairs = <<pair>> \o @] :
                      h \in heading[end], pair \in HeadingPairs(Trim(Slice(log, key, us)), raw)}
        IN  IF p = Malformed THEN {}
            ELSE CASE c = SOH /\ ~StartsHeaderRow(log, q, n) -> upTo(ScanUnit(log, us + 1, n))
                   [] c = BEL -> heading[ScanComment(log, q, n)]
                   [] c >= 32 -> {}
                   [] OTHER -> {[at |-> q, pairs |-> <<>>]}
  IN  heading[start]

(* findBodyEnd: EOT, SYN, EM or the end of the input at depth zero. *)
FindBodyEnd(log, start) ==
  LET n == Len(log)
      end[p \in Positions(n)] ==
        LET c == Peek(log, p, n) IN
        CASE p = Malformed \/ c = CAN -> Malformed
          [] c = STX -> end[ScanText(log, p, n)]
          [] c = DLE -> end[ScanLevel(log, p, n)]
          [] c \in {EOT, SYN, EM, None} -> p
          [] OTHER -> end[p + 1]
  IN  end[start]

(* newDocument, with where the index of its body ended. *)
DocumentType(start, hasSYN, h, bodyEnd, index, eot, hasEOT) ==
  [start |-> start, hasSYN |-> hasSYN, heading |-> h.pairs,
   body |-> [start |-> h.at, stop |-> bodyEnd], files |-> index.files,
   indexed |-> index.at, hasEOT |-> hasEOT,
   stop |-> IF hasEOT THEN eot + 1 ELSE eot]

DocumentUpTo(log, start, hasSYN, h, bodyEnd) ==
  LET eot == ScanLayout(log, bodyEnd, Len(log)) IN
  IF bodyEnd = Malformed THEN {}
  ELSE {DocumentType(start, hasSYN, h, bodyEnd, index, eot, Peek(log, eot, Len(log)) = EOT) :
          index \in {i \in {Index(log, h.at, bodyEnd)} : i.at # Malformed}}

NewDocument(log, start) ==
  LET n == Len(log)
      syn == ScanLayout(log, start, n)
      hasSYN == Peek(log, syn, n) = SYN
      headings == IF hasSYN THEN ParseHeading(log, syn + 1)
                  ELSE {[at |-> syn, pairs |-> <<>>]}
  IN  UNION {DocumentUpTo(log, start, hasSYN, h, FindBodyEnd(log, h.at)) : h \in headings}

(* ParseContainer of what the validator accepts, as Container has it step  *)
(* by step: the documents and the tail.                                    *)
Containers(log) ==
  LET n == Len(log)
      rest[p \in 0 .. n] ==
        LET c == Peek(log, p, n)
            behind(doc) == ScanLayout(log, doc.stop, n)
            goesOn(doc) == Peek(log, behind(doc), n) \in {SYN, EM, None}
        IN  CASE c = None -> {[documents |-> <<>>, tail |-> <<>>]}
              [] c = EM -> {[documents |-> <<>>, tail |-> Slice(log, p + 1, n)]}
              [] OTHER -> UNION {{[r EXCEPT !.documents = <<doc>> \o @] : r \in rest[behind(doc)]} :
                                   doc \in {d \in NewDocument(log, p) : goesOn(d)}}
  IN  rest[ScanLayout(log, 0, n)]
=============================================================================
