--------------------------- MODULE ContainerProofs ---------------------------
(***************************************************************************)
(* What holds of ParseContainer's loop for every buffer: it ends, and the  *)
(* documents and the tail it reads tile the buffer.  Neither rests on what *)
(* the validator accepts, nor on how a body is indexed: only on where a    *)
(* heading, a body and a document end.                                     *)
(***************************************************************************)
EXTENDS Container, C0ScanProofs

(* ScanUnit and ScanComment, in the terms of EndsStop. *)
LEMMA ScanUnitStops ==
  ASSUME NEW stop \in Nat, NEW log \in Seq(Byte), stop <= Len(log), NEW p \in 0 .. stop
  PROVE  ScanUnit(log, p, stop) \in {Malformed} \cup p .. stop
<1>1. "unit" \in Constructs /\ p \in Positions(stop)
  BY DEF Constructs, Positions
<1>2. Ends(log, stop)[<<"unit", p>>] \in EndRange(stop, "unit", p)
  BY <1>1, EndsStop
<1> QED
  BY <1>2 DEF ScanUnit, EndRange, Malformed

LEMMA ScanCommentStops ==
  ASSUME NEW stop \in Nat, NEW log \in Seq(Byte), stop <= Len(log), NEW p \in 0 .. (stop - 1)
  PROVE  ScanComment(log, p, stop) \in {Malformed} \cup (p + 1) .. stop
<1>1. "comment" \in Constructs /\ p \in Positions(stop)
  BY DEF Constructs, Positions
<1>2. Ends(log, stop)[<<"comment", p>>] \in EndRange(stop, "comment", p)
  BY <1>1, EndsStop
<1> QED
  BY <1>2 DEF ScanComment, EndRange, Behind, Malformed
-----------------------------------------------------------------------------
(***************************************************************************)
(* findBodyEnd: one turn of its loop, and where it stops: at one of the    *)
(* codes that end a body, before which it has passed something, unless it  *)
(* began at one.                                                           *)
(***************************************************************************)
BodyEndFrom(end, log, p) ==
  LET n == Len(log)
      c == Peek(log, p, n)
  IN  CASE p = Malformed \/ c = CAN -> Malformed
        [] c = STX -> end[ScanText(log, p, n)]
        [] c = DLE -> end[ScanLevel(log, p, n)]
        [] c \in {EOT, SYN, EM, None} -> p
        [] OTHER -> end[p + 1]

BodyRange(log, p) ==
  IF p = Malformed THEN {Malformed}
  ELSE IF Peek(log, p, Len(log)) \in {EOT, SYN, EM, None} THEN {Malformed} \cup p .. Len(log)
  ELSE Behind(Len(log), p)

LEMMA BodyEndTurn ==
  ASSUME NEW log \in Seq(Byte), NEW p \in Positions(Len(log)), NEW f, NEW g,
         \A q \in Positions(Len(log)) : Rest(Len(log))[q] < Rest(Len(log))[p] =>
           f[q] = g[q] /\ f[q] \in BodyRange(log, q)
  PROVE  /\ BodyEndFrom(f, log, p) = BodyEndFrom(g, log, p)
         /\ BodyEndFrom(f, log, p) \in BodyRange(log, p)
<1> DEFINE n == Len(log)
           c == Peek(log, p, n)
           text == ScanText(log, p, n)
           level == ScanLevel(log, p, n)
<1>0. n \in Nat /\ Malformed \in BodyRange(log, p)
  BY DEF BodyRange, Behind
<1>1. CASE p = Malformed \/ c = CAN
  <2>1. p = Malformed => c = None
    BY <1>0, PeekSome DEF Malformed
  <2>2. BodyEndFrom(f, log, p) = Malformed /\ BodyEndFrom(g, log, p) = Malformed
    BY <1>1, <2>1 DEF BodyEndFrom, CAN, STX, DLE, EOT, SYN, EM, None
  <2> QED
    BY <2>2, <1>0
<1>2. CASE p # Malformed /\ c \in {EOT, SYN, EM, None}
  <2>1. BodyEndFrom(f, log, p) = p /\ BodyEndFrom(g, log, p) = p
    BY <1>2 DEF BodyEndFrom, CAN, STX, DLE, EOT, SYN, EM, None
  <2> QED
    BY <2>1, <1>2 DEF BodyRange, Positions
<1>3. CASE p # Malformed /\ c \notin {EOT, SYN, EM, None, CAN}
  <2>1. p \in 0 .. (n - 1)
    BY <1>0, <1>3, PeekSome
  <2>2. ASSUME NEW q \in Behind(n, p)
        PROVE  f[q] = g[q] /\ f[q] \in BodyRange(log, p)
    <3>1. q \in Positions(n) /\ Rest(n)[q] < Rest(n)[p]
      BY <2>1 DEF Rest, Positions, Behind, Malformed
    <3>2. f[q] = g[q] /\ f[q] \in BodyRange(log, q)
      BY <3>1
    <3>3. BodyRange(log, q) \subseteq Behind(n, p)
      BY <2>1 DEF BodyRange, Behind, Malformed
    <3> QED
      BY <3>2, <3>3, <1>3 DEF BodyRange
  <2>3. text \in Behind(n, p) /\ level \in Behind(n, p) /\ p + 1 \in Behind(n, p)
    <3>1. text \in {Malformed} \cup (p + 2) .. n
      BY <1>0, <2>1, ScanTextStops
    <3>2. level \in {Malformed} \cup (p + 2) .. n
      BY <1>0, <2>1, ScanLevelStops
    <3> QED
      BY <2>1, <3>1, <3>2 DEF Behind, Malformed
  <2> HIDE DEF text, level, c
  <2>4. CASE c = STX
    <3>1. BodyEndFrom(f, log, p) = f[text] /\ BodyEndFrom(g, log, p) = g[text]
      BY <1>3, <2>4 DEF BodyEndFrom, text, c, CAN, STX, DLE, EOT, SYN, EM, None
    <3> QED
      BY <3>1, <2>2, <2>3
  <2>5. CASE c = DLE
    <3>1. BodyEndFrom(f, log, p) = f[level] /\ BodyEndFrom(g, log, p) = g[level]
      BY <1>3, <2>5 DEF BodyEndFrom, level, c, CAN, STX, DLE, EOT, SYN, EM, None
    <3> QED
      BY <3>1, <2>2, <2>3
  <2>6. CASE c \notin {STX, DLE}
    <3>1. BodyEndFrom(f, log, p) = f[p + 1] /\ BodyEndFrom(g, log, p) = g[p + 1]
      BY <1>3, <2>6 DEF BodyEndFrom, c
    <3> QED
      BY <3>1, <2>2, <2>3
  <2> QED
    BY <2>4, <2>5, <2>6
<1> QED
  BY <1>1, <1>2, <1>3

LEMMA FindBodyEndStops ==
  ASSUME NEW log \in Seq(Byte), NEW start \in 0 .. Len(log)
  PROVE  LET stop == FindBodyEnd(log, start) IN
         /\ stop \in {Malformed} \cup start .. Len(log)
         /\ stop = start => Peek(log, start, Len(log)) \in {EOT, SYN, EM, None}
<1> DEFINE n == Len(log)
           D == Positions(n)
           m == Rest(n)
           F == {f \in [D -> Int] : \A p \in D : f[p] \in BodyRange(log, p)}
           G == [f \in F |-> [p \in D |-> BodyEndFrom(f, log, p)]]
           N == n + 1
<1>1. m \in [D -> 0 .. N] /\ m \in [D -> Nat] /\ N \in Nat
  <2>1. n \in Nat
    OBVIOUS
  <2> QED
    BY <2>1, RestType
<1>2. ASSUME NEW f \in F, NEW g \in F, NEW p \in D,
             \A q \in D : m[q] < m[p] => f[q] = g[q]
      PROVE  BodyEndFrom(f, log, p) = BodyEndFrom(g, log, p)
             /\ BodyEndFrom(f, log, p) \in BodyRange(log, p)
  <2>1. \A q \in D : m[q] < m[p] => f[q] = g[q] /\ f[q] \in BodyRange(log, q)
    BY <1>2
  <2> HIDE DEF F
  <2> QED
    BY <2>1, BodyEndTurn
<1>3. \A p \in D : BodyRange(log, p) \subseteq Int /\ Malformed \in BodyRange(log, p)
  BY DEF BodyRange, Behind, Positions, Malformed
<1>4. G \in [F -> F]
  <2>1. \A f \in F, p \in D : BodyEndFrom(f, log, p) \in BodyRange(log, p)
    BY <1>2
  <2> QED
    BY <2>1, <1>3
<1>5. \E f \in F : f = G[f]
  <2>1. [p \in D |-> Malformed] \in F
    BY <1>3
  <2>2. F # {} /\ \A f \in F : f = [p \in D |-> f[p]]
    BY <2>1
  <2>3. Contracts(D, F, m, G)
    BY <1>2 DEF Contracts
  <2> HIDE DEF F, D, m, G, N
  <2> QED
    BY <1>1, <1>4, <2>2, <2>3, Fixpoint
<1> DEFINE end == CHOOSE f : f = [p \in D |-> BodyEndFrom(f, log, p)]
<1>6. FindBodyEnd(log, start) = end[start]
  BY DEF FindBodyEnd, BodyEndFrom
<1>7. end = [p \in D |-> BodyEndFrom(end, log, p)]
  BY <1>5
<1> HIDE DEF end
<1> DEFINE T == {p \in D : end[p] \in BodyRange(log, p)}
<1>8. ASSUME NEW p \in D, \A q \in D : m[q] < m[p] => q \in T
      PROVE  p \in T
  <2>1. \A q \in D : m[q] < m[p] => end[q] = end[q] /\ end[q] \in BodyRange(log, q)
    BY <1>8
  <2>2. BodyEndFrom(end, log, p) \in BodyRange(log, p)
    BY <2>1, BodyEndTurn
  <2> QED
    BY <2>2, <1>7
<1>9. D \subseteq T
  <2> HIDE DEF D, T, m
  <2> QED
    BY <1>1, <1>8, MeasureInduct
<1>10. start \in D /\ start # Malformed
  BY DEF Positions, Malformed
<1>11. FindBodyEnd(log, start) \in BodyRange(log, start)
  BY <1>6, <1>9, <1>10
<1> QED
  BY <1>10, <1>11 DEF BodyRange, Behind, Malformed
-----------------------------------------------------------------------------
(***************************************************************************)
(* parseHeading: one turn of its loop, over a function that gives the      *)
(* headings from a position on; and where a heading stops.                 *)
(***************************************************************************)
HeadingFrom(heading, log, p) ==
  LET n == Len(log)
      q == ScanLayout(log, p, n)
      c == Peek(log, q, n)
      key == ScanLayout(log, q + 1, n)
      us == ScanPlain(log, key, n)
      upTo(end) ==
        LET raw == Trim(Slice(log, us + 1, end)) IN
        IF Peek(log, us, n) # US \/ end = Malformed \/ StartsWith(raw, ENQ) THEN {}
        ELSE {[h EXCEPT !.pairs = <<pair>> \o @] :
                h \in heading[end], pair \in HeadingPairs(Trim(Slice(log, key, us)), raw)}
  IN  IF p = Malformed THEN {}
      ELSE CASE c = SOH /\ ~StartsHeaderRow(log, q, n) -> upTo(ScanUnit(log, us + 1, n))
             [] c = BEL -> heading[ScanComment(log, q, n)]
             [] c >= 32 -> {}
             [] OTHER -> {[at |-> q, pairs |-> <<>>]}

(* Every pair that a heading of log may hold, and every heading. *)
PairsIn(log) ==
  UNION {HeadingPairs(Trim(Slice(log, i, j)), Trim(Slice(log, k, l))) :
           i \in Int, j \in Int, k \in Int, l \in Int}

Headings(log, p) ==
  {h \in [at : 0 .. Len(log), pairs : Seq(PairsIn(log))] : p # Malformed /\ h.at >= p}

LEMMA HeadingTurn ==
  ASSUME NEW log \in Seq(Byte), NEW p \in Positions(Len(log)), NEW f, NEW g,
         \A q \in Positions(Len(log)) : Rest(Len(log))[q] < Rest(Len(log))[p] =>
           f[q] = g[q] /\ f[q] \in SUBSET Headings(log, q)
  PROVE  /\ HeadingFrom(f, log, p) = HeadingFrom(g, log, p)
         /\ HeadingFrom(f, log, p) \in SUBSET Headings(log, p)
<1> DEFINE n == Len(log)
           q == ScanLayout(log, p, n)
           c == Peek(log, q, n)
           key == ScanLayout(log, q + 1, n)
           us == ScanPlain(log, key, n)
           end == ScanUnit(log, us + 1, n)
           raw == Trim(Slice(log, us + 1, end))
           note == ScanComment(log, q, n)
           IsPair == c = SOH /\ ~StartsHeaderRow(log, q, n)
           Longer(hs) == {[h EXCEPT !.pairs = <<pair>> \o @] :
                            h \in hs, pair \in HeadingPairs(Trim(Slice(log, key, us)), raw)}
<1>0. n \in Nat
  OBVIOUS
<1>1. CASE p = Malformed
  <2>1. HeadingFrom(f, log, p) = {} /\ HeadingFrom(g, log, p) = {}
    BY <1>1 DEF HeadingFrom
  <2> QED
    BY <2>1
<1>2. CASE p # Malformed
  <2>1. p \in 0 .. n
    BY <1>2 DEF Positions
  <2>2. q \in p .. n
    BY <2>1, <1>0, ScanLayoutStops
  <2>3. ASSUME NEW r \in Behind(n, p)
        PROVE  f[r] = g[r] /\ f[r] \subseteq Headings(log, p)
    <3>1. r \in Positions(n) /\ Rest(n)[r] < Rest(n)[p]
      BY <2>1 DEF Rest, Positions, Behind, Malformed
    <3>2. f[r] = g[r] /\ f[r] \subseteq Headings(log, r)
      BY <3>1
    <3>3. Headings(log, r) \subseteq Headings(log, p)
      BY <2>1 DEF Headings, Behind, Malformed
    <3> QED
      BY <3>2, <3>3
  <2>4. c # None => q \in 0 .. (n - 1)
    BY <1>0, PeekSome
  <2>5. CASE IsPair /\ (Peek(log, us, n) # US \/ end = Malformed \/ StartsWith(raw, ENQ))
    <3>1. HeadingFrom(f, log, p) = {} /\ HeadingFrom(g, log, p) = {}
      BY <2>5, <1>2 DEF HeadingFrom, SOH, BEL
    <3> QED
      BY <3>1
  <2>6. CASE IsPair /\ ~(Peek(log, us, n) # US \/ end = Malformed \/ StartsWith(raw, ENQ))
    <3>1. q \in 0 .. (n - 1)
      BY <2>4, <2>6 DEF SOH, None
    <3>k. key \in (q + 1) .. n
      <4>1. q + 1 \in Nat /\ q + 1 <= n
        BY <3>1, <1>0
      <4> HIDE DEF q
      <4> QED
        BY <4>1, <1>0, ScanLayoutStops
    <3>2. us \in (q + 1) .. n /\ us < n
      <4>1. key \in Nat /\ key <= n
        BY <3>k, <3>1
      <4>2. us \in key .. n
        <5> HIDE DEF key
        <5> QED
          BY <4>1, <1>0, ScanPlainStops
      <4>3. us \in 0 .. (n - 1)
        <5> HIDE DEF us
        <5> QED
          BY <2>6, <1>0, PeekSome DEF US, None
      <4> HIDE DEF us, key, q
      <4> QED
        BY <3>k, <4>2, <4>3, <3>1
    <3>3. end \in (us + 1) .. n
      <4>1. us + 1 \in 0 .. n
        BY <3>1, <3>2
      <4>2. end \in {Malformed} \cup (us + 1) .. n
        BY <4>1, <1>0, ScanUnitStops
      <4> QED
        BY <4>2, <2>6
    <3>4. end \in Behind(n, p)
      BY <3>1, <3>2, <3>3, <2>2, <2>1 DEF Behind, Malformed
    <3>5. f[end] = g[end] /\ f[end] \subseteq Headings(log, p)
      BY <3>4, <2>3
    <3>6. HeadingFrom(f, log, p) = Longer(f[end]) /\ HeadingFrom(g, log, p) = Longer(g[end])
      BY <2>6, <1>2 DEF HeadingFrom, SOH, BEL
    <3>7. ASSUME NEW h \in Headings(log, p),
                 NEW pair \in HeadingPairs(Trim(Slice(log, key, us)), raw)
          PROVE  [h EXCEPT !.pairs = <<pair>> \o @] \in Headings(log, p)
      <4>1. pair \in PairsIn(log)
        <5>1. key \in Int /\ us \in Int /\ us + 1 \in Int /\ end \in Int
          <6> HIDE DEF us, key, q, end
          <6> QED
            BY <3>k, <3>1, <3>2, <3>3
        <5> HIDE DEF key, us, end
        <5> QED
          BY <5>1 DEF PairsIn
      <4> DEFINE S == Seq(PairsIn(log))
      <4>2. h \in [at : 0 .. n, pairs : S] /\ h.at >= p
        BY DEF Headings
      <4>3. <<pair>> \o h.pairs \in S
        BY <4>1, <4>2
      <4>4. [h EXCEPT !.pairs = <<pair>> \o @] \in [at : 0 .. n, pairs : S]
            /\ [h EXCEPT !.pairs = <<pair>> \o @].at = h.at
        <5> DEFINE more == <<pair>> \o h.pairs
        <5> HIDE DEF S, more
        <5>1. [h EXCEPT !.pairs = more] \in [at : 0 .. n, pairs : S]
              /\ [h EXCEPT !.pairs = more].at = h.at
          BY <4>2, <4>3 DEF more
        <5> QED
          BY <5>1 DEF more
      <4> QED
        BY <4>2, <4>4, <1>2 DEF Headings
    <3>8. Longer(f[end]) \subseteq Headings(log, p)
      <4> DEFINE pairs == HeadingPairs(Trim(Slice(log, key, us)), raw)
                 With(h, pair) == [h EXCEPT !.pairs = <<pair>> \o @]
      <4>1. \A h \in f[end], pair \in pairs : With(h, pair) \in Headings(log, p)
        BY <3>5, <3>7
      <4>2. Longer(f[end]) = {With(h, pair) : h \in f[end], pair \in pairs}
        OBVIOUS
      <4> HIDE DEF Longer, With, pairs, end
      <4> QED
        BY <4>1, <4>2
    <3> HIDE DEF Longer, end
    <3>9. Longer(f[end]) = Longer(g[end])
      BY <3>5
    <3> QED
      BY <3>6, <3>8, <3>9
  <2>7. CASE c = BEL
    <3>1. q \in 0 .. (n - 1)
      BY <2>4, <2>7 DEF BEL, None
    <3>2. note \in {Malformed} \cup (q + 1) .. n
      BY <3>1, <1>0, ScanCommentStops
    <3>3. note \in Behind(n, p)
      BY <3>1, <3>2, <2>2, <2>1 DEF Behind, Malformed
    <3>4. HeadingFrom(f, log, p) = f[note] /\ HeadingFrom(g, log, p) = g[note]
      BY <2>7, <1>2 DEF HeadingFrom, SOH, BEL
    <3> QED
      BY <3>3, <3>4, <2>3
  <2>8. CASE c >= 32
    <3>1. HeadingFrom(f, log, p) = {} /\ HeadingFrom(g, log, p) = {}
      BY <2>8, <1>2 DEF HeadingFrom, SOH, BEL
    <3> QED
      BY <3>1
  <2>9. CASE ~IsPair /\ c # BEL /\ ~(c >= 32)
    <3>1. HeadingFrom(f, log, p) = {[at |-> q, pairs |-> <<>>]}
          /\ HeadingFrom(g, log, p) = {[at |-> q, pairs |-> <<>>]}
      BY <2>9, <1>2 DEF HeadingFrom
    <3>2. [at |-> q, pairs |-> <<>>] \in Headings(log, p)
      BY <2>1, <2>2, <1>2 DEF Headings
    <3> QED
      BY <3>1, <3>2
  <2> QED
    BY <2>5, <2>6, <2>7, <2>8, <2>9
<1> QED
  BY <1>1, <1>2

LEMMA ParseHeadingStops ==
  ASSUME NEW log \in Seq(Byte), NEW start \in 0 .. Len(log), NEW h \in ParseHeading(log, start)
  PROVE  h.at \in start .. Len(log)
<1> DEFINE n == Len(log)
           D == Positions(n)
           m == Rest(n)
           All == UNION {Headings(log, p) : p \in D}
           F == {f \in [D -> SUBSET All] : \A p \in D : f[p] \in SUBSET Headings(log, p)}
           G == [f \in F |-> [p \in D |-> HeadingFrom(f, log, p)]]
           N == n + 1
<1>1. m \in [D -> 0 .. N] /\ m \in [D -> Nat] /\ N \in Nat
  <2>1. n \in Nat
    OBVIOUS
  <2> QED
    BY <2>1, RestType
<1>2. ASSUME NEW f \in F, NEW g \in F, NEW p \in D,
             \A q \in D : m[q] < m[p] => f[q] = g[q]
      PROVE  HeadingFrom(f, log, p) = HeadingFrom(g, log, p)
             /\ HeadingFrom(f, log, p) \in SUBSET Headings(log, p)
  <2>1. \A q \in D : m[q] < m[p] => f[q] = g[q] /\ f[q] \in SUBSET Headings(log, q)
    BY <1>2
  <2> HIDE DEF F
  <2> QED
    BY <2>1, HeadingTurn
<1>3. \A p \in D : SUBSET Headings(log, p) \subseteq SUBSET All /\ {} \in SUBSET Headings(log, p)
  OBVIOUS
<1>4. G \in [F -> F]
  <2>1. \A f \in F, p \in D : HeadingFrom(f, log, p) \in SUBSET Headings(log, p)
    BY <1>2
  <2> HIDE DEF All, D
  <2> QED
    BY <2>1, <1>3
<1>5. \E f \in F : f = G[f]
  <2>1. [p \in D |-> {}] \in F
    BY <1>3
  <2>2. F # {} /\ \A f \in F : f = [p \in D |-> f[p]]
    BY <2>1
  <2>3. Contracts(D, F, m, G)
    BY <1>2 DEF Contracts
  <2> HIDE DEF F, D, m, G, N
  <2> QED
    BY <1>1, <1>4, <2>2, <2>3, Fixpoint
<1> DEFINE heading == CHOOSE f : f = [p \in D |-> HeadingFrom(f, log, p)]
<1>6. ParseHeading(log, start) = heading[start]
  BY DEF ParseHeading, HeadingFrom
<1>7. heading = [p \in D |-> HeadingFrom(heading, log, p)]
  BY <1>5
<1> HIDE DEF heading
<1> DEFINE T == {p \in D : heading[p] \in SUBSET Headings(log, p)}
<1>8. ASSUME NEW p \in D, \A q \in D : m[q] < m[p] => q \in T
      PROVE  p \in T
  <2>1. \A q \in D : m[q] < m[p] => heading[q] = heading[q] /\ heading[q] \in SUBSET Headings(log, q)
    BY <1>8
  <2>2. HeadingFrom(heading, log, p) \in SUBSET Headings(log, p)
    BY <2>1, HeadingTurn
  <2> QED
    BY <2>2, <1>7
<1>9. D \subseteq T
  <2> HIDE DEF D, T, m
  <2> QED
    BY <1>1, <1>8, MeasureInduct
<1>10. start \in D
  BY DEF Positions
<1>11. h \in Headings(log, start)
  <2> HIDE DEF D
  <2> QED
    BY <1>6, <1>9, <1>10
<1> QED
  BY <1>11 DEF Headings
-----------------------------------------------------------------------------
(***************************************************************************)
(* newDocument: the document begins where it was asked for, its body lies  *)
(* in it, and unless it begins at the end, or at EM, it holds something.   *)
(***************************************************************************)
LEMMA DocumentLies ==
  ASSUME NEW log \in Seq(Byte), NEW start \in 0 .. Len(log), NEW doc \in NewDocument(log, start)
  PROVE  /\ doc.start = start
         /\ doc.body.start \in start .. doc.body.stop
         /\ doc.body.stop <= doc.stop
         /\ doc.stop \in start .. Len(log)
         /\ ScanLayout(log, start, Len(log)) = start /\ Peek(log, start, Len(log)) \notin {None, EM} =>
              doc.stop > start
<1> DEFINE n == Len(log)
           syn == ScanLayout(log, start, n)
           hasSYN == Peek(log, syn, n) = SYN
           headings == IF hasSYN THEN ParseHeading(log, syn + 1)
                       ELSE {[at |-> syn, pairs |-> <<>>]}
<1>0. n \in Nat
  OBVIOUS
<1>1. PICK h \in headings : doc \in DocumentUpTo(log, start, hasSYN, h, FindBodyEnd(log, h.at))
  BY DEF NewDocument
<1>2. syn \in start .. n
  BY <1>0, ScanLayoutStops
<1>3. /\ hasSYN => h.at \in (syn + 1) .. n
      /\ ~hasSYN => h.at = syn
  <2>1. CASE hasSYN
    <3>1. syn \in 0 .. (n - 1)
      <4> HIDE DEF syn
      <4> QED
        BY <2>1, <1>0, PeekSome DEF SYN, None
    <3>2. syn + 1 \in 0 .. n
      BY <3>1, <1>0
    <3>3. h \in ParseHeading(log, syn + 1)
      BY <2>1
    <3> HIDE DEF syn
    <3>4. h.at \in (syn + 1) .. n
      BY <3>2, <3>3, ParseHeadingStops
    <3> QED
      BY <2>1, <3>4
  <2>2. CASE ~hasSYN
    <3>1. h = [at |-> syn, pairs |-> <<>>]
      BY <2>2
    <3> QED
      BY <2>2, <3>1
  <2> QED
    BY <2>1, <2>2
<1> HIDE DEF headings, hasSYN, syn
<1> DEFINE bodyEnd == FindBodyEnd(log, h.at)
           eot == ScanLayout(log, bodyEnd, n)
           hasEOT == Peek(log, eot, n) = EOT
<1>4. h.at \in start .. n
  BY <1>2, <1>3
<1>5. bodyEnd # Malformed
      /\ \E index \in {Index(log, h.at, bodyEnd)} :
           doc = DocumentType(start, hasSYN, h, bodyEnd, index, eot, hasEOT)
  BY <1>1 DEF DocumentUpTo
<1>6. /\ doc.start = start /\ doc.body.start = h.at /\ doc.body.stop = bodyEnd
      /\ doc.stop = IF hasEOT THEN eot + 1 ELSE eot
  BY <1>5 DEF DocumentType
<1>7. bodyEnd \in h.at .. n
      /\ (bodyEnd = h.at => Peek(log, h.at, n) \in {EOT, SYN, EM, None})
  <2>1. h.at \in 0 .. Len(log)
    BY <1>4, <1>0
  <2>2. bodyEnd \in {Malformed} \cup h.at .. n
        /\ (bodyEnd = h.at => Peek(log, h.at, n) \in {EOT, SYN, EM, None})
    BY <2>1, FindBodyEndStops
  <2> HIDE DEF bodyEnd
  <2> QED
    BY <2>2, <1>5
<1> HIDE DEF bodyEnd
<1>8. eot \in bodyEnd .. n
  <2>1. bodyEnd \in Nat /\ bodyEnd <= n
    BY <1>7, <1>4, <1>0
  <2> QED
    BY <2>1, <1>0, ScanLayoutStops
<1>9. hasEOT => eot < n
  <2> HIDE DEF eot
  <2> QED
    BY <1>0, PeekSome DEF EOT, None
<1>10. ASSUME ScanLayout(log, start, n) = start, Peek(log, start, n) \notin {None, EM}
       PROVE  doc.stop > start
  <2>1. syn = start
    BY <1>10 DEF syn
  <2>2. CASE hasSYN
    <3>1. bodyEnd > start /\ eot >= bodyEnd
      BY <1>3, <1>7, <1>8, <2>1, <2>2, <1>0
    <3> HIDE DEF eot, hasEOT
    <3> QED
      BY <3>1, <1>6, <1>4, <1>7, <1>8
  <2>3. CASE ~hasSYN
    <3>1. h.at = start /\ Peek(log, start, n) # SYN
      BY <1>3, <2>1, <2>3 DEF hasSYN
    <3>2. CASE bodyEnd = h.at
      <4>1. Peek(log, start, n) = EOT
        BY <3>1, <3>2, <1>7, <1>10
      <4>2. eot = start
        BY <3>1, <3>2, <1>10
      <4>3. hasEOT
        BY <4>1, <4>2
      <4> HIDE DEF eot, hasEOT
      <4> QED
        BY <4>2, <4>3, <1>6
    <3>3. CASE bodyEnd # h.at
      <4> HIDE DEF eot, hasEOT
      <4> QED
        BY <3>1, <3>3, <1>6, <1>7, <1>8
    <3> QED
      BY <3>2, <3>3
  <2> QED
    BY <2>2, <2>3
<1> HIDE DEF eot, hasEOT
<1> QED
  BY <1>4, <1>6, <1>7, <1>8, <1>9, <1>10
-----------------------------------------------------------------------------
(***************************************************************************)
(* The inductive invariant: between two turns pos is behind the last       *)
(* document and any layout; the documents lie one behind the other; and    *)
(* the loop ends at the end or at EM, behind which all is tail.            *)
(***************************************************************************)
StopOf(docs) == IF docs = <<>> THEN 0 ELSE docs[Len(docs)].stop

Lies(log, doc, from) ==
  /\ from <= doc.start
  /\ \A q \in from .. (doc.start - 1) : IsLayout(At(log, q))
  /\ doc.body.start \in doc.start .. doc.body.stop
  /\ doc.body.stop <= doc.stop

Typed == buf \in Seq(Byte) /\ documents \in Seq(Range(documents))

InRow == \A i \in DOMAIN documents :
           Lies(buf, documents[i], IF i = 1 THEN 0 ELSE documents[i - 1].stop)

ReadSoFar ==
  /\ StopOf(documents) \in 0 .. Len(buf)
  /\ phase = "validate" => documents = <<>>
  /\ phase # "validate" => pos = ScanLayout(buf, StopOf(documents), Len(buf))

Ended ==
  /\ phase \in {"validate", "read"} => tail = <<>>
  /\ phase = "done" =>
       \/ tail = <<>> /\ pos = Len(buf)
       \/ Peek(buf, pos, Len(buf)) = EM /\ tail = Slice(buf, pos + 1, Len(buf))

IInv == Typed /\ InRow /\ ReadSoFar /\ Ended

LEMMA AppendAny ==
  ASSUME NEW s, s \in Seq(Range(s)), NEW e
  PROVE  LET t == Append(s, e) IN
         /\ t \in Seq(Range(t)) /\ t # <<>>
         /\ Len(t) = Len(s) + 1 /\ t[Len(t)] = e /\ DOMAIN t = 1 .. Len(t)
         /\ \A i \in 1 .. Len(s) : t[i] = s[i]
<1> DEFINE S == Range(s) \cup {e}
           t == Append(s, e)
<1>1. s \in Seq(S) /\ e \in S
  OBVIOUS
<1>2. t \in Seq(S) /\ Len(t) = Len(s) + 1 /\ t[Len(s) + 1] = e
      /\ \A i \in 1 .. Len(s) : t[i] = s[i]
  BY <1>1
<1>3. DOMAIN t = 1 .. Len(t) /\ Len(t) \in Nat
  BY <1>2
<1>4. \A i \in 1 .. Len(t) : t[i] \in Range(t)
  BY <1>3 DEF Range
<1>5. t \in Seq(Range(t))
  BY <1>2, <1>4
<1> QED
  BY <1>1, <1>2, <1>3, <1>5

LEMMA PosInside ==
  ASSUME IInv, phase # "validate"
  PROVE  /\ pos \in 0 .. Len(buf)
         /\ StopOf(documents) <= pos
         /\ OnlyLayout(StopOf(documents), pos)
         /\ ScanLayout(buf, pos, Len(buf)) = pos
<1> DEFINE n == Len(buf)
           last == StopOf(documents)
<1>1. n \in Nat /\ last \in 0 .. n /\ pos = ScanLayout(buf, last, n)
  BY DEF IInv, Typed, ReadSoFar
<1> HIDE DEF last
<1>2. /\ pos \in last .. n /\ (pos < n => ~IsLayout(At(buf, pos)))
      /\ \A q \in last .. (pos - 1) : IsLayout(At(buf, q))
  BY <1>1, ScanLayoutStops
<1>3. ScanLayout(buf, pos, n) = pos
  <2>1. pos \in Nat /\ n \in Nat /\ pos \in pos .. n /\ (pos = n \/ ~IsLayout(At(buf, pos)))
        /\ \A q \in pos .. (pos - 1) : IsLayout(At(buf, q))
    BY <1>1, <1>2
  <2> QED
    BY <2>1, ScanLayoutIs
<1> QED
  BY <1>1, <1>2, <1>3 DEF OnlyLayout, last

LEMMA InitIInv == Init => IInv
<1> SUFFICES ASSUME Init PROVE IInv
  OBVIOUS
<1>1. PICK k \in 0 .. MaxPieces, pieces \in Vocabularies :
        \E s \in [1 .. k -> pieces] : buf = FlattenSeq(s)
  BY DEF Init, Buffers
<1>2. PICK s \in [1 .. k -> pieces] : buf = FlattenSeq(s)
  BY <1>1
<1>3. buf \in Seq(Byte)
  <2>1. k \in Nat /\ s \in [1 .. k -> Seq(Byte)]
    BY MaxPiecesAssumption, VocabulariesAssumption
  <2> QED
    BY <1>2, <2>1, FlattenSeqType
<1>4. documents = <<>> /\ <<>> \in Seq(Range(<<>>)) /\ DOMAIN <<>> = {}
  BY DEF Init
<1> QED
  BY <1>3, <1>4 DEF Init, IInv, Typed, InRow, ReadSoFar, Ended, StopOf

LEMMA NextIInv == IInv /\ [Next]_vars => IInv'
<1> SUFFICES ASSUME IInv, [Next]_vars PROVE IInv'
  OBVIOUS
<1> DEFINE n == Len(buf)
<1>1. buf' = buf
  BY DEF Next, vars, Check, ReadDocument, ReadFails, ReadTail, ReadEnd
<1>2. CASE Check
  <2>1. documents' = <<>> /\ documents = <<>> /\ tail' = <<>> /\ pos' = ScanLayout(buf, 0, n)
        /\ phase' \notin {"validate", "done"}
    BY <1>2 DEF Check, Verdict, IInv, ReadSoFar, Ended
  <2> QED
    BY <1>1, <2>1 DEF IInv, Typed, InRow, ReadSoFar, Ended, StopOf
<1>3. CASE ReadDocument
  <2>1. PICK doc \in NewDocument(buf, pos) :
          /\ documents' = Append(documents, doc)
          /\ pos' = ScanLayout(buf, doc.stop, n)
    BY <1>3 DEF ReadDocument
  <2>2. phase = "read" /\ phase' \in {"read", "failed"} /\ tail' = tail
    BY <1>3 DEF ReadDocument, AtDocument
  <2>3. /\ pos \in 0 .. n /\ StopOf(documents) <= pos /\ OnlyLayout(StopOf(documents), pos)
    BY <2>2, PosInside
  <2>4. /\ doc.start = pos /\ doc.body.start \in pos .. doc.body.stop
        /\ doc.body.stop <= doc.stop /\ doc.stop \in pos .. n
    BY <2>3, DocumentLies DEF IInv, Typed
  <2>5. LET t == documents' IN
        /\ t \in Seq(Range(t)) /\ t # <<>>
        /\ Len(t) = Len(documents) + 1 /\ t[Len(t)] = doc /\ DOMAIN t = 1 .. Len(t)
        /\ \A i \in 1 .. Len(documents) : t[i] = documents[i]
    BY <2>1, AppendAny DEF IInv, Typed
  <2>6. Typed'
    BY <1>1, <2>5 DEF IInv, Typed
  <2>7. Lies(buf, doc, StopOf(documents))
    BY <2>3, <2>4 DEF Lies, OnlyLayout
  <2>8. ASSUME NEW i \in DOMAIN documents'
        PROVE  Lies(buf, documents'[i], IF i = 1 THEN 0 ELSE documents'[i - 1].stop)
    <3>1. DOMAIN documents = 1 .. Len(documents) /\ Len(documents) \in Nat
          /\ (documents = <<>> <=> Len(documents) = 0)
      BY DEF IInv, Typed
    <3>2. CASE i = Len(documents) + 1
      <4>1. StopOf(documents) = IF i = 1 THEN 0 ELSE documents'[i - 1].stop
        BY <2>5, <3>1, <3>2 DEF StopOf
      <4>2. documents'[i] = doc
        BY <2>5, <3>2
      <4> QED
        BY <2>7, <4>1, <4>2
    <3>3. CASE i # Len(documents) + 1
      <4>1. i \in DOMAIN documents /\ (i # 1 => i - 1 \in 1 .. Len(documents))
        BY <2>5, <3>1, <3>3
      <4>2. documents'[i] = documents[i] /\ (i # 1 => documents'[i - 1] = documents[i - 1])
        BY <2>5, <3>1, <4>1
      <4>3. Lies(buf, documents[i], IF i = 1 THEN 0 ELSE documents[i - 1].stop)
        BY <4>1 DEF IInv, InRow
      <4> QED
        BY <4>2, <4>3
    <3> QED
      BY <3>2, <3>3
  <2>9. InRow'
    BY <2>8, <1>1 DEF InRow
  <2>10. StopOf(documents') = doc.stop
    BY <2>5 DEF StopOf
  <2>11. ReadSoFar'
    BY <1>1, <2>1, <2>2, <2>3, <2>4, <2>10 DEF ReadSoFar
  <2>12. Ended'
    BY <2>2 DEF IInv, Ended
  <2> QED
    BY <2>6, <2>9, <2>11, <2>12 DEF IInv
<1>4. CASE ReadFails
  BY <1>4 DEF ReadFails, AtDocument, IInv, Typed, InRow, ReadSoFar, Ended
<1>5. CASE ReadTail
  BY <1>5 DEF ReadTail, IInv, Typed, InRow, ReadSoFar, Ended
<1>6. CASE ReadEnd
  <2>1. phase = "read" /\ phase' = "done" /\ Peek(buf, pos, n) = None
        /\ UNCHANGED <<buf, pos, documents, tail>>
    BY <1>6 DEF ReadEnd
  <2>2. pos \in 0 .. n /\ n \in Nat
    BY <2>1, PosInside DEF IInv, Typed
  <2>3. pos = n
    <3>0. buf \in Seq(Byte) /\ n <= Len(buf)
      BY <2>2 DEF IInv, Typed
    <3>1. pos \notin 0 .. (n - 1)
      <4>1. pos \in 0 .. (n - 1) => Peek(buf, pos, n) \in Byte
        BY <3>0, <2>2, PeekSome
      <4> QED
        BY <4>1, <2>1 DEF None, Byte
    <3> QED
      BY <2>2, <3>1
  <2>4. Ended'
    BY <2>1, <2>3 DEF IInv, Ended
  <2> QED
    BY <2>1, <2>4 DEF IInv, Typed, InRow, ReadSoFar
<1>7. CASE UNCHANGED vars
  BY <1>7 DEF vars, IInv, Typed, InRow, ReadSoFar, Ended
<1> QED
  BY <1>2, <1>3, <1>4, <1>5, <1>6, <1>7 DEF Next

LEMMA Invariant == Spec => []IInv
<1>1. Init => IInv
  BY InitIInv
<1>2. IInv /\ [Next]_vars => IInv'
  BY NextIInv
<1> QED
  BY <1>1, <1>2, PTL DEF Spec

(***************************************************************************)
(* ParseContainer's documents lie in the buffer one behind the other, each *)
(* with its body inside it, and with nothing but layout between them; and  *)
(* when it returns, they, the tail and layout are all of the buffer.       *)
(***************************************************************************)
THEOREM TilesAlways == Spec => []DocumentsTile
<1>1. IInv => DocumentsTile
  <2> SUFFICES ASSUME IInv PROVE DocumentsTile
    OBVIOUS
  <2>1. \A i \in DOMAIN documents :
          LET from == IF i = 1 THEN 0 ELSE documents[i - 1].stop IN
          /\ from <= documents[i].start
          /\ OnlyLayout(from, documents[i].start)
          /\ documents[i].body.start \in documents[i].start .. documents[i].body.stop
          /\ documents[i].body.stop <= documents[i].stop
    BY DEF IInv, InRow, Lies, OnlyLayout
  <2>2. ASSUME phase = "done"
        PROVE  LET behind == IF documents = <<>> THEN 0 ELSE Last(documents).stop
                   end == Len(buf) - Len(tail)
               IN  \/ tail = <<>> /\ OnlyLayout(behind, end)
                   \/ At(buf, end - 1) = EM /\ OnlyLayout(behind, end - 1)
    <3>1. StopOf(documents) = IF documents = <<>> THEN 0 ELSE Last(documents).stop
      BY DEF StopOf, Last
    <3>2. pos \in 0 .. Len(buf) /\ OnlyLayout(StopOf(documents), pos)
      BY <2>2, PosInside
    <3>3. CASE tail = <<>> /\ pos = Len(buf)
      <4>1. Len(buf) - Len(tail) = pos
        BY <3>2, <3>3
      <4> QED
        BY <3>1, <3>2, <3>3, <4>1
    <3>4. CASE Peek(buf, pos, Len(buf)) = EM /\ tail = Slice(buf, pos + 1, Len(buf))
      <4>1. pos \in 0 .. (Len(buf) - 1) /\ At(buf, pos) = EM /\ buf \in Seq(Byte)
        BY <3>4, PeekSome DEF IInv, Typed, EM, None
      <4>2. Len(tail) = Len(buf) - (pos + 1)
        BY <3>4, <4>1 DEF Slice
      <4>3. (Len(buf) - Len(tail)) - 1 = pos
        BY <4>1, <4>2
      <4> QED
        BY <3>1, <3>2, <4>1, <4>3
    <3> QED
      BY <2>2, <3>3, <3>4 DEF IInv, Ended
  <2> QED
    BY <2>1, <2>2 DEF DocumentsTile
<1> QED
  BY <1>1, Invariant, PTL

(***************************************************************************)
(* Every turn of ParseContainer's loop leaves less of the buffer, so for   *)
(* no buffer, accepted by the validator or not, does the loop go on        *)
(* forever.                                                                *)
(***************************************************************************)
THEOREM EveryTurnAdvances == Spec => LoopAdvances
<1>1. IInv /\ [Next]_vars => [phase = "read" => pos' > pos \/ phase' # "read"]_vars
  <2> SUFFICES ASSUME IInv, Next, phase = "read", phase' = "read" PROVE pos' > pos
    OBVIOUS
  <2>1. ReadDocument
    BY DEF Next, Check, ReadDocument, ReadFails, ReadTail, ReadEnd
  <2>2. PICK doc \in NewDocument(buf, pos) : pos' = ScanLayout(buf, doc.stop, Len(buf))
    BY <2>1 DEF ReadDocument
  <2>3. pos \in 0 .. Len(buf) /\ ScanLayout(buf, pos, Len(buf)) = pos /\ buf \in Seq(Byte)
        /\ Peek(buf, pos, Len(buf)) \notin {None, EM}
    BY <2>1, PosInside DEF ReadDocument, AtDocument, IInv, Typed
  <2>4. doc.stop \in pos .. Len(buf) /\ doc.stop > pos
    BY <2>3, DocumentLies
  <2>5. pos' \in doc.stop .. Len(buf)
    <3>1. doc.stop \in Nat /\ Len(buf) \in Nat /\ doc.stop <= Len(buf)
      BY <2>3, <2>4
    <3> QED
      BY <2>2, <3>1, ScanLayoutStops
  <2> QED
    BY <2>3, <2>4, <2>5
<1> QED
  BY <1>1, Invariant, PTL DEF Spec, LoopAdvances
=============================================================================
