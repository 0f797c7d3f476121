-------------------------- MODULE RoundTripProofs --------------------------
(***************************************************************************)
(* What holds of the builder for every vocabulary and any number of calls: *)
(* its counters are those a reader of its bytes would keep.  The bytes it  *)
(* has written are described by where the stream scan of them stands.      *)
(***************************************************************************)
EXTENDS RoundTrip, StreamScanProofs

(***************************************************************************)
(* Where a scan stands that has read u, whatever v follows: in open text   *)
(* or not, so many levels deep, and without damage.                        *)
(***************************************************************************)
Standing(s, pos, x, d) ==
  s.pos = pos /\ s.inText = x /\ s.depth = d /\ s.damaged = {}

Reaches(u, v, x, d) ==
  \E s \in ScanType : /\ Standing(s, Len(u), x, d)
                      /\ ScanEnd(u \o v)[NewScan] = ScanEnd(u \o v)[s]

Settled(u, d) == \A v \in Seq(Byte) : Reaches(u, v, FALSE, d)
InsideText(u, d) == \A v \in Seq(Byte) : Reaches(u, v, TRUE, d)

(* The same where no plain byte follows, which a commit could take for its *)
(* payload.                                                                *)
AtRest(u, d) == \A v \in Seq(Byte) : BeginsWithCode(v) => Reaches(u, v, FALSE, d)

(* The bytes w take the scan one step further. *)
Steps(w, x, d, y, e) ==
  \A s \in ScanType, l \in Seq(Byte) :
    s.inText = x /\ s.depth = d /\ At(l, s.pos) = At(w, 0) =>
      \E k \in Nat : ScanStep(l, s) = Passed(s, Len(w), k, y, e)

LEMMA Appended ==
  ASSUME NEW u \in Seq(Byte), NEW w \in Seq(Byte), NEW v \in Seq(Byte)
  PROVE  (u \o w) \o v = u \o (w \o v)
OBVIOUS

LEMMA Joins ==
  ASSUME NEW u \in Seq(Byte), NEW w \in Seq(Byte)
  PROVE  /\ u \o w \in Seq(Byte) /\ Len(u \o w) = Len(u) + Len(w)
         /\ Len(u) \in Nat /\ Len(w) \in Nat
OBVIOUS

LEMMA ReachesOn ==
  ASSUME NEW u \in Seq(Byte), NEW w \in Seq(Byte), NEW v \in Seq(Byte), Len(w) > 0,
         NEW x \in BOOLEAN, NEW d \in Nat, NEW y \in BOOLEAN, NEW e \in Nat,
         Steps(w, x, d, y, e), Reaches(u, w \o v, x, d)
  PROVE  Reaches(u \o w, v, y, e)
<1> DEFINE l == u \o (w \o v)
<1>1. PICK s \in ScanType : /\ Standing(s, Len(u), x, d)
                            /\ ScanEnd(l)[NewScan] = ScanEnd(l)[s]
  BY DEF Reaches
<1>2. /\ l \in Seq(Byte) /\ Len(l) = Len(u) + (Len(w) + Len(v)) /\ w \o v \in Seq(Byte)
      /\ Len(u \o w) = Len(u) + Len(w) /\ Len(w) \in Nat /\ Len(u) \in Nat /\ Len(v) \in Nat
  OBVIOUS
<1>3. At(w \o v, 0) = At(w, 0)
  BY AtConcat
<1>4. At(l, Len(u)) = At(w, 0)
  <2>1. Len(w \o v) = Len(w) + Len(v) /\ 0 \in 0 .. (Len(w \o v) - 1)
    BY <1>2
  <2>2. \A i \in 0 .. (Len(w \o v) - 1) : At(l, Len(u) + i) = At(w \o v, i)
    BY <1>2, AtConcat
  <2> QED
    BY <1>2, <1>3, <2>1, <2>2
<1>5. (u \o w) \o v = l
  BY Appended
<1> HIDE DEF l
<1>6. PICK k \in Nat : ScanStep(l, s) = Passed(s, Len(w), k, y, e)
  BY <1>1, <1>2, <1>4 DEF Steps, Standing
<1>7. s.pos = Len(u) /\ s.pos < Len(l)
  BY <1>1, <1>2 DEF Standing
<1>8. ScanEnd(l)[s] = ScanEnd(l)[Passed(s, Len(w), k, y, e)]
  BY <1>2, <1>6, <1>7, ScanEndUnfolds
<1>9. Passed(s, Len(w), k, y, e) \in ScanType
  BY <1>2, PassedType
<1>10. Standing(Passed(s, Len(w), k, y, e), Len(u \o w), y, e)
  BY <1>1, <1>2 DEF Standing, Passed
<1> QED
  BY <1>1, <1>5, <1>8, <1>9, <1>10 DEF Reaches

LEMMA SettledRests ==
  ASSUME NEW u, NEW d, Settled(u, d)
  PROVE  AtRest(u, d)
BY DEF Settled, AtRest

(* A byte behind a scan that is settled, a code behind one at rest. *)
LEMMA SettledOn ==
  ASSUME NEW u \in Seq(Byte), NEW w \in Seq(Byte), Len(w) > 0,
         NEW d \in Nat, NEW e \in Nat, Settled(u, d)
  PROVE  /\ Steps(w, FALSE, d, FALSE, e) => Settled(u \o w, e)
         /\ Steps(w, FALSE, d, TRUE, e) => InsideText(u \o w, e)
<1>1. \A v \in Seq(Byte) : w \o v \in Seq(Byte)
  OBVIOUS
<1> QED
  BY <1>1, ReachesOn DEF Settled, InsideText

LEMMA RestOn ==
  ASSUME NEW u \in Seq(Byte), NEW w \in Seq(Byte), Len(w) > 0, BeginsWithCode(w),
         NEW d \in Nat, NEW e \in Nat, AtRest(u, d)
  PROVE  /\ Steps(w, FALSE, d, FALSE, e) => Settled(u \o w, e)
         /\ Steps(w, FALSE, d, TRUE, e) => InsideText(u \o w, e)
<1>1. \A v \in Seq(Byte) : w \o v \in Seq(Byte) /\ BeginsWithCode(w \o v)
  <2> TAKE v \in Seq(Byte)
  <2>1. At(w \o v, 0) = At(w, 0) /\ w # <<>>
    BY AtConcat
  <2> QED
    BY <2>1 DEF BeginsWithCode
<1> QED
  BY <1>1, ReachesOn DEF AtRest, Settled, InsideText

LEMMA TextOn ==
  ASSUME NEW u \in Seq(Byte), NEW w \in Seq(Byte), Len(w) > 0,
         NEW d \in Nat, InsideText(u, d)
  PROVE  /\ Steps(w, TRUE, d, TRUE, d) => InsideText(u \o w, d)
         /\ Steps(w, TRUE, d, FALSE, d) => Settled(u \o w, d)
<1>1. \A v \in Seq(Byte) : w \o v \in Seq(Byte)
  OBVIOUS
<1> QED
  BY <1>1, ReachesOn DEF Settled, InsideText

(* At the end of the bytes this is what the scan of them is. *)
LEMMA RestIsScan ==
  ASSUME NEW u \in Seq(Byte), NEW d \in Nat, AtRest(u, d)
  PROVE  LET s == Scan(u) IN ~s.inText /\ s.depth = d /\ s.damaged = {}
<1>1. <<>> \in Seq(Byte) /\ BeginsWithCode(<<>>) /\ u \o <<>> = u
  BY DEF BeginsWithCode
<1>2. PICK s \in ScanType : Standing(s, Len(u), FALSE, d) /\ ScanEnd(u)[NewScan] = ScanEnd(u)[s]
  BY <1>1 DEF AtRest, Reaches
<1>3. ScanEnd(u)[s] = s
  BY <1>2, ScanEndUnfolds DEF Standing
<1> QED
  BY <1>2, <1>3, ScanEndUnfolds DEF Standing

LEMMA NothingRests == Settled(<<>>, 0)
<1> SUFFICES ASSUME NEW v \in Seq(Byte) PROVE Reaches(<<>>, v, FALSE, 0)
  BY DEF Settled
<1>1. NewScan \in ScanType /\ Standing(NewScan, Len(<<>>), FALSE, 0)
  BY ScanEndUnfolds DEF NewScan, Standing
<1> QED
  BY <1>1 DEF Reaches
-----------------------------------------------------------------------------
(* The steps of the codes and of plain bytes. *)
Silent == {SOH, ETX, EOT, ENQ, BEL, EM, SUB, FS, GS, RS, US}

LEMMA CodeSteps ==
  ASSUME NEW d \in Nat
  PROVE  /\ \A c \in Byte : c \notin {STX, DLE, CAN, ETB, SYN} => Steps(<<c>>, FALSE, d, FALSE, d)
         /\ Steps(<<STX>>, FALSE, d, TRUE, d)
         /\ Steps(<<DLE>>, FALSE, d, FALSE, d + 1)
         /\ d > 0 => Steps(<<CAN>>, FALSE, d, FALSE, d - 1)
         /\ Steps(<<SYN>>, FALSE, 0, FALSE, 0)
<1> USE DEF Steps
<1>1. \A c : At(<<c>>, 0) = c /\ Len(<<c>>) = 1
  BY DEF At
<1>2. \A s \in ScanType : s.blockStart \in Nat /\ s.pos \in Nat
  BY DEF ScanType
<1>3. ASSUME NEW c \in Byte, c \notin {STX, DLE, CAN, ETB, SYN}
      PROVE  Steps(<<c>>, FALSE, d, FALSE, d)
  BY <1>1, <1>2, <1>3, OutsideStepIs
<1>4. Steps(<<STX>>, FALSE, d, TRUE, d)
  BY <1>1, <1>2, OutsideStepIs
<1>5. Steps(<<DLE>>, FALSE, d, FALSE, d + 1)
  BY <1>1, <1>2, OutsideStepIs
<1>6. d > 0 => Steps(<<CAN>>, FALSE, d, FALSE, d - 1)
  BY <1>1, <1>2, OutsideStepIs
<1>7. Steps(<<SYN>>, FALSE, 0, FALSE, 0)
  <2> SUFFICES ASSUME NEW s \in ScanType, NEW l \in Seq(Byte),
                      s.inText = FALSE, s.depth = 0, At(l, s.pos) = SYN
               PROVE  \E k \in Nat : ScanStep(l, s) = Passed(s, 1, k, FALSE, 0)
    BY <1>1
  <2>1. ScanStep(l, s) = IF s.pos > 0 THEN Passed(s, 1, s.pos, FALSE, 0)
                         ELSE Passed(s, 1, s.blockStart, FALSE, s.depth)
    BY OutsideStepIs
  <2> QED
    BY <2>1, <1>2
<1> QED
  BY <1>3, <1>4, <1>5, <1>6, <1>7

LEMMA TextSteps ==
  ASSUME NEW d \in Nat
  PROVE  /\ \A c \in Byte : Steps(<<DLE, c>>, TRUE, d, TRUE, d)
         /\ \A c \in Byte : c \notin TextEscaped => Steps(<<c>>, TRUE, d, TRUE, d)
         /\ Steps(<<ETX>>, TRUE, d, FALSE, d)
<1> USE DEF Steps
<1>1. \A c : /\ At(<<c>>, 0) = c /\ Len(<<c>>) = 1
             /\ At(<<DLE, c>>, 0) = DLE /\ Len(<<DLE, c>>) = 2
  BY DEF At
<1>2. \A s \in ScanType : s.blockStart \in Nat /\ s.pos \in Nat
  BY DEF ScanType
<1>3. ASSUME NEW c \in Byte PROVE Steps(<<DLE, c>>, TRUE, d, TRUE, d)
  <2> SUFFICES ASSUME NEW s \in ScanType, NEW l \in Seq(Byte),
                      s.inText = TRUE, s.depth = d, At(l, s.pos) = DLE
               PROVE  \E k \in Nat : ScanStep(l, s) = Passed(s, 2, k, TRUE, d)
    BY <1>1, Zenon
  <2>1. ScanStep(l, s) = Passed(s, 2, s.blockStart, TRUE, s.depth)
    BY TextStepIs
  <2> QED
    BY <2>1, <1>2
<1>4. ASSUME NEW c \in Byte, c \notin TextEscaped PROVE Steps(<<c>>, TRUE, d, TRUE, d)
  <2> SUFFICES ASSUME NEW s \in ScanType, NEW l \in Seq(Byte),
                      s.inText = TRUE, s.depth = d, At(l, s.pos) = c
               PROVE  \E k \in Nat : ScanStep(l, s) = Passed(s, 1, k, TRUE, d)
    BY <1>1, Zenon
  <2>1. c \notin {DLE, ETX, ETB, SYN, EOT, EM}
    BY <1>4 DEF TextEscaped
  <2>2. ScanStep(l, s) = Passed(s, 1, s.blockStart, TRUE, s.depth)
    BY <2>1, TextStepIs
  <2> QED
    BY <2>2, <1>2
<1>5. Steps(<<ETX>>, TRUE, d, FALSE, d)
  <2> SUFFICES ASSUME NEW s \in ScanType, NEW l \in Seq(Byte),
                      s.inText = TRUE, s.depth = d, At(l, s.pos) = ETX
               PROVE  \E k \in Nat : ScanStep(l, s) = Passed(s, 1, k, FALSE, d)
    BY <1>1, Zenon
  <2>1. ScanStep(l, s) = Passed(s, 1, s.blockStart, FALSE, s.depth)
    BY TextStepIs
  <2> QED
    BY <2>1, <1>2
<1> QED
  BY <1>3, <1>4, <1>5
-----------------------------------------------------------------------------
(* A run of plain bytes outside text is passed. *)
PlainBetween(l, p, m) == \A q \in p .. (m - 1) : IsPlainByte(At(l, q))

ComesTo(l, s, p, d) ==
  \E t \in ScanType : Standing(t, p, FALSE, d) /\ ScanEnd(l)[s] = ScanEnd(l)[t]

LEMMA PlainRun ==
  ASSUME NEW l \in Seq(Byte), NEW k \in Nat, NEW d \in Nat, NEW p \in Nat, p + k <= Len(l),
         PlainBetween(l, p, p + k),
         NEW s \in ScanType, Standing(s, p, FALSE, d)
  PROVE  ComesTo(l, s, p + k, d)
<1> USE DEF ComesTo
<1> DEFINE Runs(i) == ComesTo(l, s, p + i, d)
           T == {i \in Nat : i <= k => Runs(i)}
<1>1. Runs(0)
  <2>1. p + 0 = p
    OBVIOUS
  <2> QED
    BY <2>1
<1>2. ASSUME NEW i \in Nat, Runs(i), i + 1 <= k PROVE Runs(i + 1)
  <2>2. PICK t \in ScanType : Standing(t, p + i, FALSE, d) /\ ScanEnd(l)[s] = ScanEnd(l)[t]
    BY <1>2
  <2>3. t.pos = p + i /\ t.inText = FALSE /\ t.depth = d /\ t.damaged = {}
    BY <2>2 DEF Standing
  <2>4. p + i \in p .. (p + k - 1) /\ t.pos < Len(l)
    BY <1>2, <2>3
  <2>5. At(l, t.pos) \notin {STX, DLE, CAN, ETB, SYN}
    <3>1. IsPlainByte(At(l, t.pos))
      BY <2>3, <2>4 DEF PlainBetween
    <3> QED
      BY <3>1 DEF IsPlainByte, STX, DLE, CAN, ETB, SYN
  <2>6. ScanStep(l, t) = Passed(t, 1, t.blockStart, FALSE, t.depth)
    BY <2>3, <2>5, OutsideStepIs
  <2>7. t.blockStart \in Nat /\ Passed(t, 1, t.blockStart, FALSE, t.depth) \in ScanType
    <3>1. t.blockStart \in Nat /\ t.depth \in Nat
      BY DEF ScanType
    <3> QED
      BY <3>1, PassedType
  <2>8. ScanEnd(l)[s] = ScanEnd(l)[Passed(t, 1, t.blockStart, FALSE, t.depth)]
    BY <2>2, <2>4, <2>6, ScanEndUnfolds
  <2>9. Standing(Passed(t, 1, t.blockStart, FALSE, t.depth), p + (i + 1), FALSE, d)
    BY <2>3 DEF Standing, Passed
  <2> QED
    BY <2>7, <2>8, <2>9
<1>3. k \in T
  <2> HIDE DEF Runs
  <2>1. 0 \in T
    BY <1>1
  <2>2. ASSUME NEW i \in Nat, i \in T PROVE i + 1 \in T
    BY <1>2, <2>2
  <2> HIDE DEF T
  <2> QED
    BY <2>1, <2>2, NatInduct
<1>4. Runs(k)
  <2> HIDE DEF Runs
  <2> QED
    BY <1>3
<1> QED
  BY <1>4

ArePlain(w) == \A i \in DOMAIN w : IsPlainByte(w[i])

LEMMA PlainIs ==
  ASSUME NEW w \in Seq(Byte), IsPlain(w)
  PROVE  ArePlain(w)
BY DEF IsPlain, ArePlain

(* The bytes of w in a longer log. *)
LEMMA PlainAt ==
  ASSUME NEW u \in Seq(Byte), NEW w \in Seq(Byte), NEW v \in Seq(Byte), ArePlain(w)
  PROVE  PlainBetween((u \o w) \o v, Len(u), Len(u) + Len(w))
<1>1. /\ Len(u) \in Nat /\ Len(w) \in Nat /\ u \o w \in Seq(Byte)
      /\ Len(u \o w) = Len(u) + Len(w)
  OBVIOUS
<1> SUFFICES ASSUME NEW q \in Len(u) .. (Len(u) + Len(w) - 1)
             PROVE  IsPlainByte(At((u \o w) \o v, q))
  BY DEF PlainBetween
<1>2. q \in 0 .. (Len(u \o w) - 1) /\ q - Len(u) \in 0 .. (Len(w) - 1)
  BY <1>1
<1>3. At((u \o w) \o v, q) = At(u \o w, q)
  BY <1>1, <1>2, AtConcat
<1>4. At(u \o w, Len(u) + (q - Len(u))) = At(w, q - Len(u))
  BY <1>1, <1>2, AtConcat
<1>5. Len(u) + (q - Len(u)) = q
  BY <1>1
<1>6. IsPlainByte(At(w, q - Len(u)))
  BY <1>2 DEF ArePlain, At
<1> QED
  BY <1>3, <1>4, <1>5, <1>6

LEMMA SettledPlain ==
  ASSUME NEW u \in Seq(Byte), NEW w \in Seq(Byte), NEW d \in Nat, ArePlain(w), Settled(u, d)
  PROVE  Settled(u \o w, d)
<1> SUFFICES ASSUME NEW v \in Seq(Byte) PROVE Reaches(u \o w, v, FALSE, d)
  BY DEF Settled
<1> DEFINE l == (u \o w) \o v
<1>1. w \o v \in Seq(Byte) /\ l = u \o (w \o v)
  BY Appended
<1>2. PICK s \in ScanType : /\ Standing(s, Len(u), FALSE, d)
                            /\ ScanEnd(l)[NewScan] = ScanEnd(l)[s]
  BY <1>1 DEF Settled, Reaches
<1>3. /\ l \in Seq(Byte) /\ Len(u) \in Nat /\ Len(w) \in Nat
      /\ Len(u) + Len(w) <= Len(l) /\ Len(u \o w) = Len(u) + Len(w)
  OBVIOUS
<1>4. PlainBetween(l, Len(u), Len(u) + Len(w))
  BY PlainAt
<1> HIDE DEF l
<1>5. ComesTo(l, s, Len(u) + Len(w), d)
  BY <1>2, <1>3, <1>4, PlainRun
<1> QED
  BY <1>2, <1>3, <1>5 DEF Reaches, ComesTo, l

(* The texts of values. *)
LEMMA TextEscapes ==
  ASSUME NEW u \in Seq(Byte), NEW v \in Seq(Byte), NEW d \in Nat, InsideText(u, d)
  PROVE  Escaped(v) \in Seq(Byte) /\ InsideText(u \o Escaped(v), d)
<1> DEFINE n == Len(v)
           piece(c) == IF c \in TextEscaped THEN <<DLE, c>> ELSE <<c>>
           seqs == [i \in DOMAIN v |-> piece(v[i])]
<1>1. n \in Nat /\ DOMAIN v = 1 .. n /\ \A i \in 1 .. n : v[i] \in Byte
  OBVIOUS
<1>2. \A c \in Byte : piece(c) \in Seq(Byte) /\ Len(piece(c)) > 0
  <2>1. DLE \in Byte
    BY DEF Byte, DLE
  <2>2. \A c \in Byte : /\ <<DLE, c>> \in Seq(Byte) /\ Len(<<DLE, c>>) = 2
                       /\ <<c>> \in Seq(Byte) /\ Len(<<c>>) = 1
    BY <2>1
  <2> QED
    BY <2>2
<1>3. \A c \in Byte : Steps(piece(c), TRUE, d, TRUE, d)
  BY TextSteps
<1>4. Escaped(v) = FlattenSeq(seqs)
  BY DEF Escaped
<1> HIDE DEF piece, n
<1>5. seqs \in [1 .. n -> Seq(Byte)] /\ \A i \in 1 .. n : seqs[i] = piece(v[i])
  BY <1>1, <1>2
<1> HIDE DEF seqs
<1>6. PICK f \in [0 .. n -> Seq(Byte)] : Flattens(f, n, seqs)
  BY <1>1, <1>5, FlattenSeqIs
<1>7. f[0] = <<>> /\ f[n] = Escaped(v) /\ \A i \in 1 .. n : f[i] = f[i - 1] \o seqs[i]
  BY <1>4, <1>6 DEF Flattens
<1> DEFINE T == {i \in Nat : i <= n => InsideText(u \o f[i], d)}
<1>8. 0 \in T
  <2>1. u \o <<>> = u
    OBVIOUS
  <2> QED
    BY <1>7, <2>1
<1>9. ASSUME NEW i \in Nat, i \in T PROVE i + 1 \in T
  <2>1. SUFFICES ASSUME i + 1 <= n PROVE InsideText(u \o f[i + 1], d)
    OBVIOUS
  <2>2. i + 1 \in 1 .. n /\ i \in 0 .. n /\ i + 1 - 1 = i
    BY <1>1, <2>1
  <2>3. InsideText(u \o f[i], d) /\ f[i] \in Seq(Byte)
    BY <1>9, <2>1, <2>2
  <2> DEFINE w == piece(v[i + 1])
  <2>4. w \in Seq(Byte) /\ Len(w) > 0 /\ Steps(w, TRUE, d, TRUE, d)
    BY <1>1, <1>2, <1>3, <2>2
  <2>5. f[i + 1] = f[i] \o w
    <3>1. f[i + 1] = f[i + 1 - 1] \o seqs[i + 1] /\ seqs[i + 1] = w
      BY <1>5, <1>7, <2>2
    <3> QED
      BY <2>2, <3>1
  <2> HIDE DEF w
  <2>6. u \o f[i] \in Seq(Byte)
    BY <2>3
  <2>8. u \o (f[i] \o w) = (u \o f[i]) \o w
    <3> DEFINE g == f[i]
    <3>1. g \in Seq(Byte)
      BY <2>3
    <3> HIDE DEF g
    <3>2. u \o (g \o w) = (u \o g) \o w
      BY <2>4, <3>1, Appended
    <3> QED
      BY <3>2 DEF g
  <2>7. InsideText((u \o f[i]) \o w, d)
    BY <2>3, <2>4, <2>6, TextOn
  <2> QED
    BY <2>5, <2>7, <2>8
<1>10. n \in T
  <2> HIDE DEF T
  <2> QED
    BY <1>1, <1>8, <1>9, NatInduct
<1>11. f[n] \in Seq(Byte)
  BY <1>1
<1> QED
  BY <1>7, <1>10, <1>11

LEMMA SettledSpelled ==
  ASSUME NEW u \in Seq(Byte), NEW v \in Seq(Byte), NEW d \in Nat, Settled(u, d)
  PROVE  Spelled(v) \in Seq(Byte) /\ Settled(u \o Spelled(v), d)
<1>1. CASE IsPlain(v)
  <2>1. Spelled(v) = v
    BY <1>1 DEF Spelled
  <2> QED
    BY <1>1, <2>1, PlainIs, SettledPlain
<1>2. CASE ~IsPlain(v)
  <2>1. Spelled(v) = (<<STX>> \o Escaped(v)) \o <<ETX>>
    BY <1>2 DEF Spelled
  <2>2. <<STX>> \in Seq(Byte) /\ Len(<<STX>>) > 0 /\ <<ETX>> \in Seq(Byte) /\ Len(<<ETX>>) > 0
    BY DEF STX, ETX, Byte
  <2>3. InsideText(u \o <<STX>>, d)
    BY <2>2, CodeSteps, SettledOn
  <2>4. u \o <<STX>> \in Seq(Byte)
    BY <2>2
  <2>5. Escaped(v) \in Seq(Byte) /\ InsideText((u \o <<STX>>) \o Escaped(v), d)
    BY <2>3, <2>4, TextEscapes
  <2>6. (u \o <<STX>>) \o Escaped(v) \in Seq(Byte)
    BY <2>4, <2>5
  <2>7. Settled(((u \o <<STX>>) \o Escaped(v)) \o <<ETX>>, d)
    BY <2>2, <2>5, <2>6, TextSteps, TextOn
  <2>8. <<STX>> \o Escaped(v) \in Seq(Byte)
    BY <2>2, <2>5
  <2>9. ((u \o <<STX>>) \o Escaped(v)) \o <<ETX>> = u \o Spelled(v)
    BY <2>1, <2>2, <2>5, <2>8, Appended
  <2>10. (<<STX>> \o Escaped(v)) \o <<ETX>> \in Seq(Byte)
    BY <2>2, <2>8
  <2> QED
    BY <2>1, <2>7, <2>9, <2>10
<1> QED
  BY <1>1, <1>2

HasParts(h, u, x, w, v) ==
  LET l == h \o v
      z == x \o (w \o v)
  IN  /\ h \in Seq(Byte) /\ Len(h) = Len(u) + 1 + Len(w)
      /\ l \in Seq(Byte) /\ Len(l) = Len(u) + 1 + Len(w) + Len(v)
      /\ z \in Seq(Byte) /\ l = u \o z
      /\ At(z, 0) = At(x, 0) /\ At(l, Len(u)) = At(x, 0)

LEMMA Parted ==
  ASSUME NEW u \in Seq(Byte), NEW x \in Seq(Byte), NEW w \in Seq(Byte), NEW v \in Seq(Byte),
         Len(x) = 1
  PROVE  HasParts((u \o x) \o w, u, x, w, v)
<1> DEFINE y == w \o v
           z == x \o y
           g == u \o x
           h == g \o w
           l == h \o v
<1>1. Len(w) \in Nat /\ Len(v) \in Nat /\ Len(u) \in Nat
  OBVIOUS
<1>2. y \in Seq(Byte) /\ Len(y) = Len(w) + Len(v)
  BY Joins
<1>3. g \in Seq(Byte) /\ Len(g) = Len(u) + 1
  BY Joins
<1>4. \A q \in Seq(Byte) : g \o q = u \o (x \o q)
  BY Appended
<1>12. \A q \in Seq(Byte) : (q \o w) \o v = q \o (w \o v)
  BY Appended
<1> HIDE DEF g, y
<1>5. h \in Seq(Byte) /\ Len(h) = Len(u) + 1 + Len(w)
  BY <1>3, AtConcat
<1>6. l = g \o y
  <2>1. (g \o w) \o v = g \o (w \o v)
    BY <1>3, <1>12
  <2> QED
    BY <2>1, Zenon DEF y
<1>7. z \in Seq(Byte) /\ Len(z) = 1 + Len(w) + Len(v)
  <2>1. z \in Seq(Byte) /\ Len(z) = Len(x) + Len(y)
    BY <1>2, Joins
  <2> QED
    BY <1>1, <1>2, <2>1
<1>8. l = u \o z
  BY <1>2, <1>4, <1>6
<1>9. At(z, 0) = At(x, 0)
  <2>1. 0 \in 0 .. (Len(x) - 1)
    OBVIOUS
  <2>2. At(x \o y, 0) = At(x, 0)
    BY <1>2, <2>1, AtConcat, Zenon
  <2> QED
    BY <2>2
<1> HIDE DEF z, l, h
<1>10. l \in Seq(Byte) /\ Len(l) = Len(u) + 1 + Len(w) + Len(v)
  <2>1. u \o z \in Seq(Byte) /\ Len(u \o z) = Len(u) + Len(z)
    BY <1>7, AtConcat
  <2> QED
    BY <1>1, <1>7, <1>8, <2>1
<1>11. At(l, Len(u)) = At(z, 0)
  <2>1. 0 \in 0 .. (Len(z) - 1) /\ Len(u) + 0 = Len(u)
    BY <1>1, <1>7
  <2>2. At(u \o z, Len(u) + 0) = At(z, 0)
    BY <1>7, <2>1, AtConcat
  <2> QED
    BY <1>8, <2>1, <2>2
<1> QED
  <2>1. HasParts(h, u, x, w, v)
    BY <1>5, <1>7, <1>8, <1>9, <1>10, <1>11 DEF HasParts, y, z, l
  <2> QED
    BY <2>1 DEF g, h

(* A commit without open levels, its payload a name or nothing. *)
LEMMA CommitPlain ==
  ASSUME NEW l \in Seq(Byte), NEW n \in Nat, NEW m \in Nat, n + 1 <= m, m <= Len(l),
         NEW s \in ScanType, Standing(s, n, FALSE, 0), At(l, n) = ETB,
         PayloadEnd(l, n + 1) \in (n + 1) .. m, PlainBetween(l, n + 1, m)
  PROVE  ComesTo(l, s, m, 0)
<1> DEFINE p == PayloadEnd(l, n + 1)
           t == CommitBlock(l, s)
<1>1. s.pos = n /\ s.inText = FALSE /\ s.depth = 0 /\ s.damaged = {}
  BY DEF Standing
<1>2. s.pos < Len(l) /\ At(l, s.pos) = ETB
  BY <1>1
<1>3. /\ t \in ScanType
      /\ t = [pos |-> p, blockStart |-> p, inText |-> FALSE, depth |-> 0,
              blocks |-> Append(s.blocks, [start |-> s.blockStart, stop |-> s.pos]),
              damaged |-> IF s.inText \/ s.depth > 0
                          THEN s.damaged \cup {Len(s.blocks) + 1} ELSE s.damaged,
              committedEnd |-> p]
  <2>1. PayloadEnd(l, s.pos + 1) = p
    BY <1>1
  <2> QED
    BY <1>2, <2>1, CommitIs
<1>4. t.pos = p /\ t.inText = FALSE /\ t.depth = 0 /\ t.damaged = {}
  BY <1>1, <1>3
<1>5. ScanEnd(l)[s] = ScanEnd(l)[t]
  BY <1>2, StepCommits, ScanEndUnfolds
<1> HIDE DEF t, p
<1>6. Standing(t, p, FALSE, 0)
  BY <1>4 DEF Standing
<1>7. p \in Nat /\ m - p \in Nat /\ p + (m - p) = m
  BY DEF p
<1>8. PlainBetween(l, p, m)
  BY <1>7 DEF PlainBetween, p
<1>9. ComesTo(l, t, m, 0)
  <2> DEFINE k == m - p
  <2>1. k \in Nat /\ p + k = m
    BY <1>7
  <2> HIDE DEF k
  <2>2. ComesTo(l, t, p + k, 0)
    BY <1>3, <1>6, <1>7, <1>8, <2>1, PlainRun
  <2> QED
    BY <2>1, <2>2
<1> QED
  BY <1>5, <1>9 DEF ComesTo

LEMMA RestCommitted ==
  ASSUME NEW u \in Seq(Byte), NEW w \in Seq(Byte), ArePlain(w), AtRest(u, 0)
  PROVE  AtRest((u \o <<ETB>>) \o w, 0)
<1> SUFFICES ASSUME NEW v \in Seq(Byte), BeginsWithCode(v)
             PROVE  Reaches((u \o <<ETB>>) \o w, v, FALSE, 0)
  BY DEF AtRest
<1> DEFINE x == <<ETB>>
           log == (u \o x) \o w
           l == log \o v
           rest == x \o (w \o v)
           n == Len(u)
           m == Len(log)
<1>1. x \in Seq(Byte) /\ Len(x) = 1 /\ At(x, 0) = ETB
  BY DEF Byte, ETB, At
<1> HIDE DEF x
<1>2. /\ log \in Seq(Byte) /\ m = n + 1 + Len(w) /\ l \in Seq(Byte)
      /\ Len(l) = n + 1 + Len(w) + Len(v)
      /\ rest \in Seq(Byte) /\ l = u \o rest /\ At(rest, 0) = ETB /\ At(l, n) = ETB
  <2>1. HasParts(log, u, x, w, v)
    BY <1>1, Parted
  <2>2. /\ log \in Seq(Byte) /\ Len(log) = Len(u) + 1 + Len(w)
        /\ log \o v \in Seq(Byte) /\ Len(log \o v) = Len(u) + 1 + Len(w) + Len(v)
        /\ x \o (w \o v) \in Seq(Byte) /\ log \o v = u \o (x \o (w \o v))
        /\ At(x \o (w \o v), 0) = At(x, 0) /\ At(log \o v, Len(u)) = At(x, 0)
    <3> HIDE DEF log
    <3> QED
      BY <2>1, Zenon DEF HasParts
  <2> QED
    BY <1>1, <2>2
<1>3. Len(w) \in Nat /\ Len(v) \in Nat /\ n \in Nat /\ u \o x \in Seq(Byte) /\ Len(u \o x) = n + 1
  <2>1. /\ u \o x \in Seq(Byte) /\ Len(u \o x) = Len(u) + Len(x)
        /\ Len(u) \in Nat
    BY <1>1, Joins
  <2> QED
    BY <1>1, <2>1
<1>4. PlainBetween(l, n + 1, m)
  <2>1. PlainBetween(l, Len(u \o x), Len(u \o x) + Len(w))
    BY <1>3, PlainAt
  <2> QED
    BY <1>2, <1>3, <2>1
<1>5. PayloadEnd(l, n + 1) \in (n + 1) .. m
  <2> DEFINE q == n + 1
  <2>1. q \in Nat /\ q <= m
    BY <1>2, <1>3
  <2> HIDE DEF q, log
  <2>2. PayloadEnd(l, q) = PayloadEnd(log, q)
    BY <1>2, <2>1, PayloadEndExtends
  <2>3. PayloadEnd(log, q) \in q .. Len(log)
    BY <1>2, <2>1, PayloadEndStops
  <2> QED
    BY <2>2, <2>3 DEF q
<1> HIDE DEF log, l, rest, n, m
<1>6. BeginsWithCode(rest)
  BY <1>2 DEF BeginsWithCode, IsPlainByte, IsLayout, Layout, ETB, SP, HT, LF, CR
<1>7. Reaches(u, rest, FALSE, 0)
  BY <1>2, <1>6 DEF AtRest
<1>8. PICK s \in ScanType : Standing(s, n, FALSE, 0) /\ ScanEnd(l)[NewScan] = ScanEnd(l)[s]
  BY <1>2, <1>7 DEF Reaches, n
<1>9. m \in Nat /\ n + 1 <= m /\ m <= Len(l)
  BY <1>2, <1>3
<1>10. ComesTo(l, s, m, 0)
  BY <1>2, <1>3, <1>4, <1>5, <1>8, <1>9, CommitPlain
<1>11. Reaches(log, v, FALSE, 0)
  BY <1>8, <1>10 DEF ComesTo, Reaches, l, m
<1> QED
  BY <1>11 DEF log, x

(* More codes GS that a group line begins with. *)
Marks(n) == [i \in 1 .. n |-> GS]

LEMMA MarksGrow ==
  ASSUME NEW k \in Nat
  PROVE  Marks(k) \in Seq(Byte) /\ Marks(k + 1) = Marks(k) \o <<GS>>
<1>1. GS \in Byte
  BY DEF GS, Byte
<1>2. Marks(k) \in Seq(Byte) /\ Marks(k + 1) \in Seq(Byte) /\ Len(Marks(k)) = k /\ Len(Marks(k + 1)) = k + 1
  BY <1>1 DEF Marks
<1>3. Len(Marks(k) \o <<GS>>) = k + 1 /\ Marks(k) \o <<GS>> \in Seq(Byte)
  BY <1>1, <1>2
<1>4. ASSUME NEW i \in 1 .. (k + 1) PROVE Marks(k + 1)[i] = (Marks(k) \o <<GS>>)[i]
  <2>1. \A m \in Nat : \A j \in 1 .. m : Marks(m)[j] = GS
    BY DEF Marks
  <2>2. i \in 1 .. k \/ i = k + 1
    OBVIOUS
  <2>3. Marks(k + 1)[i] = GS /\ (i \in 1 .. k => Marks(k)[i] = GS)
    BY <2>1
  <2> QED
    BY <1>1, <1>2, <2>2, <2>3
<1> QED
  BY <1>2, <1>3, <1>4

LEMMA RestMarks ==
  ASSUME NEW u \in Seq(Byte), NEW d \in Nat, AtRest(u, d), NEW n \in Nat
  PROVE  Marks(n) \in Seq(Byte) /\ AtRest(u \o Marks(n), d)
<1> DEFINE T == {k \in Nat : AtRest(u \o Marks(k), d)}
<1>2. 0 \in T
  <2>1. Marks(0) = <<>> /\ u \o <<>> = u
    BY DEF Marks
  <2> QED
    BY <2>1
<1>3. ASSUME NEW k \in Nat, k \in T PROVE k + 1 \in T
  <2> DEFINE g == <<GS>>
             w == u \o Marks(k)
  <2>1. g \in Seq(Byte) /\ Len(g) = 1 /\ GS \in Byte /\ At(g, 0) = GS
    BY DEF GS, Byte, At
  <2>2. GS \notin {STX, DLE, CAN, ETB, SYN}
    BY DEF GS, STX, DLE, CAN, ETB, SYN
  <2>7. BeginsWithCode(g)
    BY <2>1 DEF GS, BeginsWithCode, IsPlainByte, IsLayout, Layout, SP, HT, LF, CR
  <2>8. Steps(g, FALSE, d, FALSE, d)
    BY <2>1, <2>2, CodeSteps
  <2> HIDE DEF g
  <2>3. AtRest(w, d) /\ Marks(k) \in Seq(Byte) /\ w \in Seq(Byte)
    BY <1>3, MarksGrow
  <2>9. (u \o Marks(k)) \o g = u \o (Marks(k) \o g)
    BY <2>1, <2>3, Appended
  <2> HIDE DEF w
  <2>4. Settled(w \o g, d)
    <3>1. Len(g) > 0
      BY <2>1
    <3> QED
      BY <2>1, <2>3, <2>7, <2>8, <3>1, RestOn
  <2>5. AtRest(w \o g, d)
    BY <2>4, SettledRests
  <2>6. w \o g = u \o Marks(k + 1)
    BY <2>9, MarksGrow DEF w, g
  <2> QED
    BY <2>5, <2>6
<1>4. n \in T
  <2> HIDE DEF T
  <2> QED
    BY <1>2, <1>3, NatInduct
<1> QED
  BY <1>4, MarksGrow
-----------------------------------------------------------------------------
(***************************************************************************)
(* What the builder's methods do to its counters and to where a scan of    *)
(* its bytes stands.  x waits where it may be called, and mostly stands    *)
(* after it: only a commit leaves a place where no plain byte may follow,  *)
(* and that is outside of records.                                         *)
(***************************************************************************)
IsAt(x, r, u, s) == x \in BuilderType /\ x.inRecord = r /\ x.units = u /\ x.stack = s

Stands(x, r, u, s) == IsAt(x, r, u, s) /\ Settled(x.buf, Len(s))

Waits(x, r, u, s) == /\ IsAt(x, r, u, s) /\ AtRest(x.buf, Len(s))
                     /\ r => Settled(x.buf, Len(s))

Levels == Seq([inRecord : BOOLEAN, units : Nat])

LEMMA AtIs ==
  ASSUME NEW x, NEW r, NEW u, NEW s, IsAt(x, r, u, s)
  PROVE  /\ x.buf \in Seq(Byte) /\ r \in BOOLEAN /\ u \in Nat /\ Len(s) \in Nat
         /\ s \in Levels
<1>1. /\ x.buf \in Seq(Byte) /\ x.inRecord \in BOOLEAN /\ x.units \in Nat
      /\ x.stack \in Levels
  BY DEF IsAt, BuilderType, Levels
<1>2. Len(x.stack) \in Nat
  BY <1>1 DEF Levels
<1> QED
  BY <1>1, <1>2 DEF IsAt

LEMMA StandsWaits ==
  ASSUME NEW x, NEW r, NEW u, NEW s, Stands(x, r, u, s)
  PROVE  Waits(x, r, u, s)
BY SettledRests DEF Stands, Waits

LEMMA PutIs ==
  ASSUME NEW x, NEW r, NEW u, NEW s, IsAt(x, r, u, s), NEW w \in Seq(Byte)
  PROVE  IsAt(Put(x, w), r, u, s) /\ Put(x, w).buf = x.buf \o w
<1>1. x.buf \in Seq(Byte)
  BY AtIs
<1> DEFINE y == x.buf \o w
<1>2. y \in Seq(Byte)
  BY <1>1, Joins
<1>3. Put(x, w) = [x EXCEPT !.buf = y]
  BY DEF Put
<1> HIDE DEF y
<1>4. IsAt([x EXCEPT !.buf = y], r, u, s) /\ [x EXCEPT !.buf = y].buf = y
  BY <1>2 DEF IsAt, BuilderType
<1> QED
  BY <1>3, <1>4 DEF y

LEMMA SetErrIs ==
  ASSUME NEW x, NEW r, NEW u, NEW s, IsAt(x, r, u, s), NEW e \in Errors
  PROVE  IsAt(SetErr(x, e), r, u, s) /\ SetErr(x, e).buf = x.buf
BY DEF IsAt, SetErr, BuilderType

LEMMA EndRecordIs ==
  ASSUME NEW x, NEW r, NEW u, NEW s, IsAt(x, r, u, s)
  PROVE  IsAt(EndRecord(x), FALSE, 0, s) /\ EndRecord(x).buf = x.buf
BY DEF IsAt, EndRecord, BuilderType

WithUnits(x, n) == [x EXCEPT !.units = n]
WithRecord(x, n) == [x EXCEPT !.inRecord = TRUE, !.units = n]

LEMMA UnitsStand ==
  ASSUME NEW x, NEW r, NEW u, NEW s, Stands(x, r, u, s), NEW n \in Nat
  PROVE  Stands(WithUnits(x, n), r, n, s) /\ Stands(WithRecord(x, n), TRUE, n, s)
<1>1. IsAt(WithUnits(x, n), r, n, s) /\ IsAt(WithRecord(x, n), TRUE, n, s)
  BY DEF Stands, IsAt, BuilderType, WithUnits, WithRecord
<1>2. WithUnits(x, n).buf = x.buf /\ WithRecord(x, n).buf = x.buf
  BY DEF Stands, IsAt, BuilderType, WithUnits, WithRecord
<1> QED
  BY <1>1, <1>2 DEF Stands

LEMMA EndRecordStands ==
  ASSUME NEW x, NEW r, NEW u, NEW s, Waits(x, r, u, s)
  PROVE  Waits(EndRecord(x), FALSE, 0, s)
BY EndRecordIs DEF Waits

LEMMA CodesBegin ==
  /\ Silent \subseteq Byte /\ {STX, DLE, CAN, ETB, SYN} \cap Silent = {}
  /\ \A c \in Silent \cup {STX, DLE, CAN, ETB, SYN} :
       c \in Byte /\ <<c>> \in Seq(Byte) /\ Len(<<c>>) > 0 /\ BeginsWithCode(<<c>>)
<1> USE DEF Silent, STX, DLE, CAN, ETB, SYN, SOH, ETX, EOT, ENQ, BEL, EM, SUB, FS, GS, RS, US
<1>1. \A c : At(<<c>>, 0) = c /\ Len(<<c>>) = 1
  BY DEF At
<1>2. \A c \in Silent \cup {STX, DLE, CAN, ETB, SYN} :
        c \in Byte /\ ~IsPlainByte(c) /\ ~IsLayout(c)
  BY DEF Byte, IsPlainByte, IsLayout, Layout, SP, HT, LF, CR
<1> QED
  BY <1>1, <1>2 DEF BeginsWithCode

LEMMA CodeStands ==
  ASSUME NEW x, NEW r, NEW u, NEW s, Waits(x, r, u, s), NEW c \in Silent
  PROVE  Stands(Put(x, <<c>>), r, u, s)
<1>1. x.buf \in Seq(Byte) /\ Len(s) \in Nat /\ IsAt(x, r, u, s) /\ AtRest(x.buf, Len(s))
  BY AtIs DEF Waits
<1>2. <<c>> \in Seq(Byte) /\ Len(<<c>>) > 0 /\ BeginsWithCode(<<c>>)
  BY CodesBegin
<1>3. Steps(<<c>>, FALSE, Len(s), FALSE, Len(s))
  <2>1. c \in Byte /\ c \notin {STX, DLE, CAN, ETB, SYN}
    BY CodesBegin
  <2> QED
    BY <1>1, <2>1, CodeSteps
<1>4. Settled(x.buf \o <<c>>, Len(s))
  BY <1>1, <1>2, <1>3, RestOn
<1> QED
  BY <1>1, <1>2, <1>4, PutIs DEF Stands

LEMMA NameStands ==
  ASSUME NEW x, NEW r, NEW u, NEW s, Stands(x, r, u, s), NEW name \in Seq(Byte)
  PROVE  Stands(WriteName(x, name), r, u, s)
<1>1. x.buf \in Seq(Byte) /\ Len(s) \in Nat /\ IsAt(x, r, u, s) /\ Settled(x.buf, Len(s))
  BY AtIs DEF Stands
<1>2. CASE IsName(name)
  <2>1. Settled(x.buf \o name, Len(s))
    BY <1>1, <1>2, PlainIs, SettledPlain DEF IsName
  <2> QED
    BY <1>1, <1>2, <2>1, PutIs DEF Stands, WriteName
<1>3. CASE ~IsName(name)
  <2>1. "ErrNotName" \in Errors
    BY DEF Errors
  <2> QED
    BY <1>1, <1>3, <2>1, SetErrIs DEF Stands, WriteName
<1> QED
  BY <1>2, <1>3

LEMMA ValueStands ==
  ASSUME NEW x, NEW r, NEW u, NEW s, Stands(x, r, u, s), NEW v \in Seq(Byte)
  PROVE  Stands(WriteValue(x, v), r, u, s)
<1>1. x.buf \in Seq(Byte) /\ Len(s) \in Nat /\ IsAt(x, r, u, s) /\ Settled(x.buf, Len(s))
  BY AtIs DEF Stands
<1>2. Spelled(v) \in Seq(Byte) /\ Settled(x.buf \o Spelled(v), Len(s))
  BY <1>1, SettledSpelled
<1> QED
  BY <1>1, <1>2, PutIs DEF Stands, WriteValue

(* An optional argument: none, or bytes. *)
IsOptional(arg) == arg # <<>> => arg[1] \in Seq(Byte)

LEMMA OptionalIs ==
  IsOptional(<<>>) /\ \A v \in Seq(Byte) : IsOptional(<<v>>) /\ <<v>> # <<>>
BY DEF IsOptional

LEMMA OptionalStands ==
  ASSUME NEW x, NEW r, NEW u, NEW s, Stands(x, r, u, s), NEW arg, IsOptional(arg)
  PROVE  /\ Stands(Optional(x, arg, WriteName), r, u, s)
         /\ Stands(Optional(x, arg, WriteValue), r, u, s)
BY NameStands, ValueStands DEF Optional, IsOptional

(* The primitives. *)
LEMMA PutFSStands ==
  ASSUME NEW x, NEW r, NEW u, NEW s, Waits(x, r, u, s), NEW name \in Seq(Byte)
  PROVE  Stands(PutFS(x, name), FALSE, 0, s)
<1>1. Stands(Put(EndRecord(x), <<FS>>), FALSE, 0, s)
  BY EndRecordStands, CodeStands DEF Silent
<1> QED
  BY <1>1, NameStands DEF PutFS

LEMMA PutGSStands ==
  ASSUME NEW x, NEW r, NEW u, NEW s, Waits(x, r, u, s), NEW arg, IsOptional(arg)
  PROVE  Stands(PutGS(x, arg), FALSE, 0, s)
<1>1. Stands(Put(EndRecord(x), <<GS>>), FALSE, 0, s)
  BY EndRecordStands, CodeStands DEF Silent
<1> QED
  BY <1>1, OptionalStands DEF PutGS

LEMMA FirstValueStands ==
  ASSUME NEW x, NEW r, NEW u, NEW s, Stands(x, r, u, s), NEW v \in Seq(Byte)
  PROVE  Stands(FirstValue(x, v), r, 1, s)
<1>1. Stands(WriteValue(x, v), r, u, s)
  BY ValueStands
<1>2. Stands(WithUnits(WriteValue(x, v), 1), r, 1, s)
  BY <1>1, UnitsStand
<1> QED
  BY <1>2, Zenon DEF FirstValue, WithUnits

LEMMA PutRSStands ==
  ASSUME NEW x, NEW r, NEW u, NEW s, Waits(x, r, u, s), NEW arg, IsOptional(arg)
  PROVE  Stands(PutRS(x, arg), TRUE, IF arg = <<>> THEN 0 ELSE 1, s)
<1> DEFINE y == WithRecord(Put(x, <<RS>>), 0)
<1>1. Stands(Put(x, <<RS>>), r, u, s)
  BY CodeStands DEF Silent
<1>2. Stands(y, TRUE, 0, s)
  BY <1>1, UnitsStand
<1>3. PutRS(x, arg) = Optional(y, arg, FirstValue)
  BY Zenon DEF PutRS, WithRecord
<1> HIDE DEF y
<1>4. CASE arg = <<>>
  BY <1>2, <1>3, <1>4 DEF Optional
<1>5. CASE arg # <<>>
  BY <1>2, <1>3, <1>5, FirstValueStands DEF Optional, IsOptional
<1> QED
  BY <1>4, <1>5

LEMMA PutUSStands ==
  ASSUME NEW x, NEW r, NEW u, NEW s, Waits(x, r, u, s), NEW arg, IsOptional(arg)
  PROVE  Stands(PutUS(x, arg), r, u + 1, s)
<1> DEFINE y == Optional(Put(x, <<US>>), arg, WriteValue)
<1>1. Stands(Put(x, <<US>>), r, u, s)
  BY CodeStands DEF Silent
<1>2. Stands(y, r, u, s)
  BY <1>1, OptionalStands
<1>3. PutUS(x, arg) = [y EXCEPT !.units = @ + 1]
  BY DEF PutUS
<1> HIDE DEF y
<1>4. y.units = u /\ u + 1 \in Nat
  BY <1>2, AtIs DEF Stands, IsAt
<1>5. PutUS(x, arg) = WithUnits(y, u + 1)
  BY <1>3, <1>4 DEF WithUnits
<1>6. Stands(WithUnits(y, u + 1), r, u + 1, s)
  BY <1>2, <1>4, UnitsStand
<1> QED
  BY <1>5, <1>6

LEMMA PutSUBStands ==
  ASSUME NEW x, NEW r, NEW u, NEW s, Waits(x, r, u, s), NEW arg, IsOptional(arg)
  PROVE  Stands(PutSUB(x, arg), r, u, s)
<1>1. Stands(Put(x, <<SUB>>), r, u, s)
  BY CodeStands DEF Silent
<1> QED
  BY <1>1, OptionalStands DEF PutSUB

LEMMA PutSOHStands ==
  ASSUME NEW x, NEW r, NEW u, NEW s, Waits(x, r, u, s), NEW arg, IsOptional(arg)
  PROVE  Stands(PutSOH(x, arg), r, u, s)
<1>1. Stands(Put(x, <<SOH>>), r, u, s)
  BY CodeStands DEF Silent
<1> QED
  BY <1>1, OptionalStands DEF PutSOH

WithStack(x, t, r, u) == [x EXCEPT !.stack = t, !.inRecord = r, !.units = u]

LEMMA WithStackIs ==
  ASSUME NEW x, NEW r, NEW u, NEW s, IsAt(x, r, u, s),
         NEW t \in Levels, NEW q \in BOOLEAN, NEW n \in Nat
  PROVE  IsAt(WithStack(x, t, q, n), q, n, t) /\ WithStack(x, t, q, n).buf = x.buf
<1> DEFINE y == WithStack(x, t, q, n)
<1>1. x \in [buf : Seq(Byte), err : Errors, inRecord : BOOLEAN, units : Nat, stack : Levels]
  BY DEF IsAt, BuilderType, Levels
<1>2. y \in [buf : Seq(Byte), err : Errors, inRecord : BOOLEAN, units : Nat, stack : Levels]
      /\ y.inRecord = q /\ y.units = n /\ y.stack = t /\ y.buf = x.buf
  BY <1>1 DEF WithStack
<1> HIDE DEF y
<1> QED
  BY <1>2 DEF IsAt, BuilderType, Levels, y

Level(r, u) == [inRecord |-> r, units |-> u]

LEMMA PutDLEStands ==
  ASSUME NEW x, NEW r, NEW u, NEW s, Waits(x, r, u, s)
  PROVE  Stands(PutDLE(x), FALSE, 0, Append(s, Level(r, u)))
<1> DEFINE d == Len(s)
           w == <<DLE>>
           t == Append(s, Level(r, u))
<1>1. /\ x.buf \in Seq(Byte) /\ d \in Nat /\ IsAt(x, r, u, s) /\ AtRest(x.buf, d)
      /\ t \in Levels /\ Len(t) = d + 1
  <2>1. /\ x.buf \in Seq(Byte) /\ d \in Nat /\ IsAt(x, r, u, s) /\ AtRest(x.buf, d)
        /\ r \in BOOLEAN /\ u \in Nat /\ s \in Levels
    BY AtIs DEF Waits
  <2>2. Level(r, u) \in [inRecord : BOOLEAN, units : Nat]
    BY <2>1 DEF Level
  <2> QED
    BY <2>1, <2>2 DEF Levels
<1>2. w \in Seq(Byte) /\ Len(w) > 0 /\ BeginsWithCode(w) /\ Steps(w, FALSE, d, FALSE, d + 1)
  BY <1>1, CodesBegin, CodeSteps
<1> HIDE DEF w, d, t
<1>3. Settled(x.buf \o w, d + 1)
  <2> DEFINE e == d + 1
  <2>1. e \in Nat
    BY <1>1
  <2>3. Steps(w, FALSE, d, FALSE, e)
    BY <1>2
  <2> HIDE DEF e
  <2>2. Settled(x.buf \o w, e)
    BY <1>1, <1>2, <2>1, <2>3, RestOn
  <2> QED
    BY <2>2 DEF e
<1> DEFINE p == Put(x, w)
<1>4. IsAt(p, r, u, s) /\ p.buf = x.buf \o w
  BY <1>1, <1>2, PutIs
<1>5. PutDLE(x) = WithStack(p, t, FALSE, 0)
  BY <1>1, <1>4 DEF PutDLE, IsAt, Level, WithStack, w, t
<1> HIDE DEF p
<1>6. IsAt(PutDLE(x), FALSE, 0, t) /\ PutDLE(x).buf = p.buf
  <2>1. IsAt(p, r, u, s) /\ t \in Levels /\ FALSE \in BOOLEAN /\ 0 \in Nat
    BY <1>1, <1>4
  <2>2. /\ IsAt(WithStack(p, t, FALSE, 0), FALSE, 0, t)
        /\ WithStack(p, t, FALSE, 0).buf = p.buf
    BY ONLY <2>1, WithStackIs
  <2> QED
    BY <1>5, <2>2
<1> QED
  BY <1>1, <1>3, <1>4, <1>6 DEF Stands, t

LEMMA FrontIs ==
  ASSUME NEW S, NEW s \in Seq(S), s # <<>>
  PROVE  /\ Front(s) \in Seq(S) /\ Len(Front(s)) = Len(s) - 1
         /\ Len(s) > 0 /\ Len(s) - 1 \in Nat /\ Last(s) \in S /\ Last(s) = s[Len(s)]
         /\ \A i \in 1 .. (Len(s) - 1) : Front(s)[i] = s[i]
<1> DEFINE k == Len(s) - 1
<1>1. Len(s) \in Nat /\ Len(s) > 0 /\ k \in 0 .. Len(s)
  OBVIOUS
<1>2. Front(s) = SubSeq(s, 1, k) /\ Last(s) = s[Len(s)]
  BY DEF Front, Last
<1>3. \A m \in 0 .. Len(s) : /\ SubSeq(s, 1, m) \in Seq(S) /\ Len(SubSeq(s, 1, m)) = m
                             /\ \A i \in 1 .. m : SubSeq(s, 1, m)[i] = s[i]
  BY <1>1
<1>4. Last(s) \in S
  BY <1>1, <1>2
<1> HIDE DEF k
<1>5. Front(s) \in Seq(S) /\ Len(Front(s)) = k /\ \A i \in 1 .. k : Front(s)[i] = s[i]
  BY <1>1, <1>2, <1>3
<1>6. k \in Nat /\ Len(s) > 0
  BY <1>1
<1> QED
  BY <1>2, <1>4, <1>5, <1>6 DEF k

LEMMA PutCANStands ==
  ASSUME NEW x, NEW r, NEW u, NEW s, Waits(x, r, u, s), s # <<>>
  PROVE  Stands(PutCAN(x), Last(s).inRecord, Last(s).units, Front(s))
<1> DEFINE d == Len(s)
           w == <<CAN>>
           t == Front(s)
<1>1. /\ x.buf \in Seq(Byte) /\ d \in Nat /\ IsAt(x, r, u, s) /\ AtRest(x.buf, d)
      /\ s \in Levels
  BY AtIs DEF Waits
<1>2. /\ d > 0 /\ t \in Levels /\ Len(t) = d - 1 /\ d - 1 \in Nat
      /\ Last(s) \in [inRecord : BOOLEAN, units : Nat]
  <2>1. s \in Levels /\ s # <<>>
    BY <1>1
  <2> QED
    BY <2>1, FrontIs DEF Levels
<1>3. w \in Seq(Byte) /\ Len(w) > 0 /\ BeginsWithCode(w) /\ Steps(w, FALSE, d, FALSE, d - 1)
  BY <1>1, <1>2, CodesBegin, CodeSteps
<1> HIDE DEF w, d, t
<1>4. Settled(x.buf \o w, d - 1)
  BY <1>1, <1>2, <1>3, RestOn
<1>5. IsAt(Put(x, w), r, u, s) /\ Put(x, w).buf = x.buf \o w
  BY <1>1, <1>3, PutIs
<1>6. PutCAN(x) = WithStack(Put(x, w), t, Last(s).inRecord, Last(s).units)
  BY <1>1, <1>5 DEF PutCAN, IsAt, WithStack, w, t
<1>7. IsAt(PutCAN(x), Last(s).inRecord, Last(s).units, t) /\ PutCAN(x).buf = x.buf \o w
  <2>1. Last(s).inRecord \in BOOLEAN /\ Last(s).units \in Nat
    BY <1>2
  <2> QED
    <3> DEFINE p == Put(x, w)
               q == Last(s).inRecord
               n == Last(s).units
    <3>1. IsAt(p, r, u, s) /\ t \in Levels /\ q \in BOOLEAN /\ n \in Nat
      BY <1>2, <1>5, <2>1
    <3> HIDE DEF p, q, n
    <3>2. /\ IsAt(WithStack(p, t, q, n), q, n, t)
          /\ WithStack(p, t, q, n).buf = p.buf
      BY ONLY <3>1, WithStackIs
    <3> QED
      BY <1>5, <1>6, <3>2 DEF p, q, n
<1> QED
  BY <1>2, <1>4, <1>7 DEF Stands, t

LEMMA PutBELWaits ==
  ASSUME NEW x, NEW r, NEW u, NEW s, Waits(x, r, u, s), NEW v \in Seq(Byte)
  PROVE  Waits(PutBEL(x, <<v>>), r, u, s)
<1>1. CASE v = <<>>
  <2>1. PutBEL(x, <<v>>) = SetErr(x, "ErrEmptyNote") /\ "ErrEmptyNote" \in Errors
    BY <1>1 DEF PutBEL, Errors
  <2> QED
    BY <2>1, SetErrIs DEF Waits
<1>2. CASE v # <<>>
  <2>1. PutBEL(x, <<v>>) = Optional(Put(x, <<BEL>>), <<v>>, WriteValue)
    BY <1>2 DEF PutBEL
  <2>2. Stands(Put(x, <<BEL>>), r, u, s)
    BY CodeStands DEF Silent
  <2>3. Stands(Optional(Put(x, <<BEL>>), <<v>>, WriteValue), r, u, s)
    BY <2>2, OptionalIs, OptionalStands
  <2> QED
    BY <2>1, <2>3, StandsWaits
<1> QED
  BY <1>1, <1>2

LEMMA PutENQStands ==
  ASSUME NEW x, NEW r, NEW u, NEW s, Waits(x, r, u, s), NEW name \in Seq(Byte)
  PROVE  Stands(PutENQ(x, <<name>>), r, u, s)
<1>1. Stands(Put(x, <<ENQ>>), r, u, s)
  BY CodeStands DEF Silent
<1>2. PutENQ(x, <<name>>) = WriteName(Put(x, <<ENQ>>), name)
  <2>1. Len(<<name>>) = 1 /\ <<name>>[1] = name
    OBVIOUS
  <2> QED
    BY <2>1 DEF PutENQ
<1> QED
  BY <1>1, <1>2, NameStands

LEMMA PutSYNStands ==
  ASSUME NEW x, NEW r, NEW u, Waits(x, r, u, <<>>)
  PROVE  Stands(PutSYN(x), FALSE, 0, <<>>)
<1> DEFINE y == EndRecord(x)
           w == <<SYN>>
<1>1. Waits(y, FALSE, 0, <<>>)
  BY EndRecordStands
<1>2. PutSYN(x) = Put(y, w)
  BY DEF PutSYN
<1> HIDE DEF y
<1>3. y.buf \in Seq(Byte) /\ IsAt(y, FALSE, 0, <<>>) /\ AtRest(y.buf, 0) /\ Len(<<>>) = 0
  BY <1>1, AtIs DEF Waits
<1>4. w \in Seq(Byte) /\ Len(w) > 0 /\ BeginsWithCode(w)
  BY CodesBegin
<1>5. Steps(w, FALSE, 0, FALSE, 0)
  BY CodeSteps
<1> HIDE DEF w
<1>6. Settled(y.buf \o w, 0)
  BY <1>3, <1>4, <1>5, RestOn
<1>7. IsAt(Put(y, w), FALSE, 0, <<>>) /\ Put(y, w).buf = y.buf \o w
  BY <1>3, <1>4, PutIs
<1> QED
  BY <1>2, <1>3, <1>6, <1>7 DEF Stands

LEMMA PutEOTStands ==
  ASSUME NEW x, NEW r, NEW u, NEW s, Waits(x, r, u, s)
  PROVE  Stands(PutEOT(x), FALSE, 0, s)
BY EndRecordStands, CodeStands DEF Silent, PutEOT

LEMMA PayloadWaits ==
  ASSUME NEW z, IsAt(z, FALSE, 0, <<>>), AtRest(z.buf, 0), NEW name \in Seq(Byte),
         ArePlain(name) => AtRest(z.buf \o name, 0)
  PROVE  Waits(WriteName(z, name), FALSE, 0, <<>>)
<1>1. Len(<<>>) = 0
  OBVIOUS
<1>2. CASE IsName(name)
  <2>1. AtRest(z.buf \o name, 0)
    BY <1>2, PlainIs DEF IsName
  <2>2. IsAt(Put(z, name), FALSE, 0, <<>>) /\ Put(z, name).buf = z.buf \o name
    BY PutIs
  <2>3. WriteName(z, name) = Put(z, name)
    BY <1>2 DEF WriteName
  <2> QED
    BY <1>1, <2>1, <2>2, <2>3 DEF Waits
<1>3. CASE ~IsName(name)
  <2>1. "ErrNotName" \in Errors
    BY DEF Errors
  <2>2. IsAt(SetErr(z, "ErrNotName"), FALSE, 0, <<>>) /\ SetErr(z, "ErrNotName").buf = z.buf
    BY <2>1, SetErrIs
  <2>3. WriteName(z, name) = SetErr(z, "ErrNotName")
    BY <1>3 DEF WriteName
  <2> QED
    BY <1>1, <2>2, <2>3 DEF Waits
<1> QED
  BY <1>2, <1>3

LEMMA PutETBWaits ==
  ASSUME NEW x, NEW r, NEW u, Waits(x, r, u, <<>>), NEW arg, IsOptional(arg)
  PROVE  Waits(PutETB(x, arg), FALSE, 0, <<>>)
<1> DEFINE y == EndRecord(x)
           z == Put(y, <<ETB>>)
<1>1. Waits(y, FALSE, 0, <<>>)
  BY EndRecordStands
<1>2. PutETB(x, arg) = Optional(z, arg, WriteName)
  BY DEF PutETB
<1> HIDE DEF y
<1>3. y.buf \in Seq(Byte) /\ IsAt(y, FALSE, 0, <<>>) /\ AtRest(y.buf, 0) /\ Len(<<>>) = 0
  BY <1>1, AtIs DEF Waits
<1>4. <<ETB>> \in Seq(Byte)
  BY CodesBegin
<1>5. IsAt(z, FALSE, 0, <<>>) /\ z.buf = y.buf \o <<ETB>>
  BY <1>3, <1>4, PutIs
<1> HIDE DEF z
<1>6. z.buf \in Seq(Byte)
  BY <1>5, AtIs
<1>7. \A w \in Seq(Byte) : ArePlain(w) => AtRest(z.buf \o w, 0)
  BY <1>3, <1>5, RestCommitted
<1>8. AtRest(z.buf, 0)
  <2>1. <<>> \in Seq(Byte) /\ ArePlain(<<>>) /\ z.buf \o <<>> = z.buf
    BY <1>6 DEF ArePlain
  <2>2. AtRest(z.buf \o <<>>, 0)
    BY <1>7, <2>1
  <2> QED
    BY <2>1, <2>2
<1>9. ASSUME arg # <<>> PROVE Waits(WriteName(z, arg[1]), FALSE, 0, <<>>)
  BY <1>5, <1>7, <1>8, <1>9, PayloadWaits DEF IsOptional
<1>10. Waits(z, FALSE, 0, <<>>)
  BY <1>3, <1>5, <1>8 DEF Waits
<1> QED
  BY <1>2, <1>9, <1>10 DEF Optional

LEMMA PutEMIs ==
  ASSUME NEW x, NEW r, NEW u, NEW s, IsAt(x, r, u, s), NEW w \in Seq(Byte)
  PROVE  IsAt(PutEM(x, w), FALSE, 0, s)
<1>1. <<EM>> \in Seq(Byte)
  BY DEF EM, Byte
<1>2. <<EM>> \o w \in Seq(Byte)
  BY <1>1, Joins
<1> QED
  BY <1>2, EndRecordIs, PutIs DEF PutEM

(* The composed methods. *)
UnitsOf(r, u) == IF r THEN u ELSE 0

LEMMA HeadingStands ==
  ASSUME NEW x, NEW r, NEW u, NEW s, Waits(x, r, u, s),
         NEW key \in Seq(Byte), NEW v \in Seq(Byte)
  PROVE  Stands(Heading(x, key, v), FALSE, 1, s)
<1>1. Stands(PutSOH(EndRecord(x), <<key>>), FALSE, 0, s)
  BY EndRecordStands, PutSOHStands, OptionalIs
<1>2. Stands(PutUS(PutSOH(EndRecord(x), <<key>>), <<v>>), FALSE, 0 + 1, s)
  BY <1>1, StandsWaits, PutUSStands, OptionalIs
<1>3. 0 + 1 = 1
  OBVIOUS
<1> QED
  BY <1>2, <1>3 DEF Heading

LEMMA OpenHeadingLevelStands ==
  ASSUME NEW x, NEW r, NEW u, NEW s, Waits(x, r, u, s), NEW key \in Seq(Byte)
  PROVE  Stands(OpenHeadingLevel(x, key), FALSE, 0, Append(s, Level(FALSE, 1)))
<1> DEFINE y == PutUS(PutSOH(EndRecord(x), <<key>>), <<>>)
<1>1. Stands(PutSOH(EndRecord(x), <<key>>), FALSE, 0, s)
  BY EndRecordStands, PutSOHStands, OptionalIs
<1>2. Stands(y, FALSE, 0 + 1, s)
  BY <1>1, StandsWaits, PutUSStands, OptionalIs
<1>3. OpenHeadingLevel(x, key) = PutDLE(y)
  BY DEF OpenHeadingLevel
<1> HIDE DEF y
<1>5. 0 + 1 = 1
  OBVIOUS
<1>4. Waits(y, FALSE, 1, s)
  BY <1>2, <1>5, StandsWaits
<1> QED
  BY <1>3, <1>4, PutDLEStands

LEMMA OpenRecordStands ==
  ASSUME NEW x, NEW r, NEW u, NEW s, Waits(x, r, u, s)
  PROVE  Stands(OpenRecord(x), TRUE, UnitsOf(r, u), s)
<1>1. x.inRecord = r /\ r \in BOOLEAN
  BY AtIs DEF Waits, IsAt
<1>2. CASE r = TRUE
  BY <1>1, <1>2 DEF OpenRecord, Waits, Stands, UnitsOf
<1>3. CASE r = FALSE
  <2>1. Stands(PutRS(x, <<>>), TRUE, 0, s)
    <3>1. Stands(PutRS(x, <<>>), TRUE, IF <<>> = <<>> THEN 0 ELSE 1, s)
      BY PutRSStands, OptionalIs
    <3> QED
      BY <3>1
  <2> QED
    BY <1>1, <1>3, <2>1 DEF OpenRecord, UnitsOf
<1> QED
  BY <1>1, <1>2, <1>3

LEMMA UnitsOfIs ==
  ASSUME NEW r \in BOOLEAN, NEW u \in Nat
  PROVE  UnitsOf(r, u) \in Nat /\ UnitsOf(r, u) + 1 \in Nat
BY DEF UnitsOf

LEMMA KeyStands ==
  ASSUME NEW x, NEW r, NEW u, NEW s, Waits(x, r, u, s),
         NEW name \in Seq(Byte), NEW v \in Seq(Byte)
  PROVE  Stands(Key(x, name, v), TRUE, UnitsOf(r, u) + 1, s)
<1>1. Waits(OpenRecord(x), TRUE, UnitsOf(r, u), s)
  BY OpenRecordStands, StandsWaits
<1>2. Waits(PutSOH(OpenRecord(x), <<name>>), TRUE, UnitsOf(r, u), s)
  BY <1>1, PutSOHStands, OptionalIs, StandsWaits
<1> QED
  BY <1>2, PutUSStands, OptionalIs DEF Key

LEMMA OpenKeyLevelStands ==
  ASSUME NEW x, NEW r, NEW u, NEW s, Waits(x, r, u, s), NEW name \in Seq(Byte)
  PROVE  Stands(OpenKeyLevel(x, name), FALSE, 0, Append(s, Level(TRUE, UnitsOf(r, u) + 1)))
<1> DEFINE y == PutUS(PutSOH(OpenRecord(x), <<name>>), <<>>)
           n == UnitsOf(r, u) + 1
<1>1. Waits(OpenRecord(x), TRUE, UnitsOf(r, u), s)
  BY OpenRecordStands, StandsWaits
<1>2. Waits(PutSOH(OpenRecord(x), <<name>>), TRUE, UnitsOf(r, u), s)
  BY <1>1, PutSOHStands, OptionalIs, StandsWaits
<1>3. Waits(y, TRUE, n, s)
  BY <1>2, PutUSStands, OptionalIs, StandsWaits
<1>4. OpenKeyLevel(x, name) = PutDLE(y)
  BY DEF OpenKeyLevel
<1> HIDE DEF y, n
<1>5. Stands(PutDLE(y), FALSE, 0, Append(s, Level(TRUE, n)))
  BY <1>3, PutDLEStands
<1> QED
  BY <1>4, <1>5 DEF n

LEMMA NextUnitStands ==
  ASSUME NEW x, NEW r, NEW u, NEW s, Waits(x, r, u, s)
  PROVE  Stands(NextUnit(x), TRUE, UnitsOf(r, u) + 1, s)
<1> DEFINE at == IF x.inRecord /\ x.units > 0 THEN Put(x, <<US>>) ELSE OpenRecord(x)
<1>1. x.inRecord = r /\ x.units = u /\ r \in BOOLEAN /\ u \in Nat
  BY AtIs DEF Waits, IsAt
<1>2. Stands(at, TRUE, UnitsOf(r, u), s)
  <2>1. CASE x.inRecord /\ x.units > 0
    <3>1. Stands(Put(x, <<US>>), r, u, s)
      BY CodeStands DEF Silent
    <3> QED
      BY <1>1, <2>1, <3>1 DEF UnitsOf
  <2>2. CASE ~(x.inRecord /\ x.units > 0)
    BY <2>2, OpenRecordStands
  <2> QED
    BY <2>1, <2>2
<1>3. NextUnit(x) = [at EXCEPT !.units = @ + 1]
  BY DEF NextUnit
<1> HIDE DEF at
<1>4. at.units = UnitsOf(r, u) /\ UnitsOf(r, u) + 1 \in Nat
  BY <1>1, <1>2, UnitsOfIs DEF Stands, IsAt
<1>5. NextUnit(x) = WithUnits(at, UnitsOf(r, u) + 1)
  BY <1>3, <1>4 DEF WithUnits
<1>6. Stands(WithUnits(at, UnitsOf(r, u) + 1), TRUE, UnitsOf(r, u) + 1, s)
  BY <1>2, <1>4, UnitsStand
<1> QED
  BY <1>5, <1>6

LEMMA OpenLevelStands ==
  ASSUME NEW x, NEW r, NEW u, NEW s, Waits(x, r, u, s)
  PROVE  Stands(OpenLevel(x), FALSE, 0, Append(s, Level(TRUE, UnitsOf(r, u) + 1)))
<1> DEFINE n == UnitsOf(r, u) + 1
<1>1. Waits(NextUnit(x), TRUE, n, s)
  BY NextUnitStands, StandsWaits
<1> HIDE DEF n
<1>2. Stands(PutDLE(NextUnit(x)), FALSE, 0, Append(s, Level(TRUE, n)))
  BY <1>1, PutDLEStands
<1> QED
  BY <1>2 DEF OpenLevel, n

LEMMA RefPathStands ==
  ASSUME NEW x, NEW r, NEW u, NEW s, Waits(x, r, u, s), NEW name \in Seq(Byte)
  PROVE  Stands(RefPath(x, <<name>>), TRUE, UnitsOf(r, u) + 1, s)
<1>1. Waits(NextUnit(x), TRUE, UnitsOf(r, u) + 1, s)
  BY NextUnitStands, StandsWaits
<1> QED
  BY <1>1, PutENQStands DEF RefPath

LEMMA FieldStands ==
  ASSUME NEW x, NEW r, NEW u, NEW s, Waits(x, r, u, s), NEW v \in Seq(Byte)
  PROVE  Stands(Field(x, v), TRUE, UnitsOf(r, u) + 1, s)
<1>1. x.inRecord = r /\ x.units = u /\ r \in BOOLEAN /\ u \in Nat
  BY AtIs DEF Waits, IsAt
<1>2. CASE ~x.inRecord
  <2>1. Field(x, v) = PutRS(x, <<v>>)
    BY <1>2 DEF Field
  <2>2. Stands(PutRS(x, <<v>>), TRUE, 1, s)
    <3>1. Stands(PutRS(x, <<v>>), TRUE, IF <<v>> = <<>> THEN 0 ELSE 1, s)
      BY PutRSStands, OptionalIs
    <3> QED
      BY <3>1, OptionalIs
  <2>3. UnitsOf(r, u) + 1 = 1
    BY <1>1, <1>2 DEF UnitsOf
  <2> QED
    BY <2>1, <2>2, <2>3
<1>3. CASE x.inRecord /\ x.units = 0
  <2>1. Field(x, v) = FirstValue(x, v)
    BY <1>3 DEF Field
  <2>2. Stands(x, r, u, s)
    BY <1>1, <1>3 DEF Waits, Stands
  <2>3. Stands(FirstValue(x, v), r, 1, s)
    BY <2>2, FirstValueStands
  <2>4. UnitsOf(r, u) + 1 = 1 /\ r = TRUE
    BY <1>1, <1>3 DEF UnitsOf
  <2> QED
    BY <2>1, <2>3, <2>4
<1>4. CASE x.inRecord /\ x.units # 0
  <2>1. Field(x, v) = PutUS(x, <<v>>)
    BY <1>4 DEF Field
  <2>2. Stands(PutUS(x, <<v>>), r, u + 1, s)
    BY PutUSStands, OptionalIs
  <2>3. UnitsOf(r, u) = u /\ r = TRUE
    BY <1>1, <1>4 DEF UnitsOf
  <2> QED
    BY <2>1, <2>2, <2>3
<1> QED
  BY <1>2, <1>3, <1>4
-----------------------------------------------------------------------------
(***************************************************************************)
(* Folds over sequences: from base, the element at i takes what the one    *)
(* before it left one step further, by g.  The library folds over sets of  *)
(* indices, the greatest last.                                             *)
(***************************************************************************)
Iterates(h, base, n, g) ==
  h = [t \in SUBSET (1 .. n) |->
         IF t = {} THEN base ELSE g[<<h[t \ {Max(t)}], Max(t)>>]]

LEMMA UpTo ==
  ASSUME NEW n \in Nat
  PROVE  /\ \A t \in SUBSET (1 .. n) :
              t # {} => /\ Max(t) \in t /\ Max(t) \in 1 .. n /\ t \ {Max(t)} \in SUBSET (1 .. n)
                        /\ t \ {Max(t)} # {} => Max(t \ {Max(t)}) < Max(t)
         /\ \A i \in 1 .. n : /\ 1 .. i \in SUBSET (1 .. n) /\ 1 .. i # {}
                              /\ Max(1 .. i) = i /\ (1 .. i) \ {i} = 1 .. (i - 1)
         /\ 1 .. 0 = {}
<1>1. ASSUME NEW t \in SUBSET (1 .. n), t # {}
      PROVE  Max(t) \in t /\ \A k \in t : k <= Max(t)
  <2>1. t \subseteq Nat /\ \A k \in t : k <= n
    OBVIOUS
  <2> QED
    BY <1>1, <2>1, MaxNat
<1>2. ASSUME NEW t \in SUBSET (1 .. n), t # {}
      PROVE  /\ Max(t) \in t /\ Max(t) \in 1 .. n /\ t \ {Max(t)} \in SUBSET (1 .. n)
             /\ t \ {Max(t)} # {} => Max(t \ {Max(t)}) < Max(t)
  <2> DEFINE u == t \ {Max(t)}
  <2>1. Max(t) \in t /\ Max(t) \in 1 .. n /\ u \in SUBSET (1 .. n) /\ \A k \in t : k <= Max(t)
    BY <1>1, <1>2
  <2>2. ASSUME u # {} PROVE Max(u) < Max(t)
    <3>1. Max(u) \in u
      BY <1>1, <2>1, <2>2
    <3>2. Max(u) \in t /\ Max(u) # Max(t) /\ Max(u) \in 1 .. n
      BY <2>1, <3>1
    <3>3. Max(u) <= Max(t)
      BY <2>1, <3>2
    <3> HIDE DEF u
    <3> QED
      BY <2>1, <3>2, <3>3
  <2> QED
    BY <2>1, <2>2
<1>3. ASSUME NEW i \in 1 .. n
      PROVE  /\ 1 .. i \in SUBSET (1 .. n) /\ 1 .. i # {}
             /\ Max(1 .. i) = i /\ (1 .. i) \ {i} = 1 .. (i - 1)
  <2>1. 1 .. i \in SUBSET (1 .. n) /\ i \in 1 .. i /\ 1 .. i # {}
    OBVIOUS
  <2>2. Max(1 .. i) \in 1 .. i /\ i <= Max(1 .. i)
    BY <1>1, <2>1
  <2>3. (1 .. i) \ {i} = 1 .. (i - 1)
    OBVIOUS
  <2> QED
    BY <2>1, <2>2, <2>3
<1>4. 1 .. 0 = {}
  OBVIOUS
<1> QED
  BY <1>2, <1>3, <1>4

LEMMA IterExists ==
  ASSUME NEW B, NEW base \in B, NEW n \in Nat, NEW g \in [B \X (1 .. n) -> B]
  PROVE  \E h \in [SUBSET (1 .. n) -> B] : Iterates(h, base, n, g)
<1> DEFINE D == SUBSET (1 .. n)
           F == [D -> B]
           Turn(h, t) == IF t = {} THEN base ELSE g[<<h[t \ {Max(t)}], Max(t)>>]
           G == [h \in F |-> [t \in D |-> Turn(h, t)]]
           at(t) == IF t = {} THEN 0 ELSE Max(t)
           m == [t \in D |-> at(t)]
<1>1. \A t \in D : t # {} => /\ Max(t) \in 1 .. n /\ t \ {Max(t)} \in D
                             /\ m[t \ {Max(t)}] < m[t]
  <2> TAKE t \in D
  <2> HAVE t # {}
  <2>1. /\ Max(t) \in 1 .. n /\ t \ {Max(t)} \in D
        /\ t \ {Max(t)} # {} => Max(t \ {Max(t)}) < Max(t)
    BY UpTo
  <2> QED
    BY <2>1
<1>2. G \in [F -> F]
  <2>1. ASSUME NEW h \in F, NEW t \in D PROVE Turn(h, t) \in B
    <3>1. t # {} => h[t \ {Max(t)}] \in B /\ Max(t) \in 1 .. n
      BY <1>1
    <3>2. t # {} => <<h[t \ {Max(t)}], Max(t)>> \in B \X (1 .. n)
      BY <3>1
    <3> QED
      BY <3>2
  <2> HIDE DEF Turn, D
  <2> QED
    BY <2>1
<1>3. m \in [D -> 0 .. n]
  <2>1. \A t \in D : at(t) \in 0 .. n
    <3>1. \A t \in D : t # {} => Max(t) \in 1 .. n
      BY UpTo
    <3> QED
      BY <3>1
  <2> HIDE DEF D, at
  <2> QED
    BY <2>1
<1>4. F # {}
  <2>1. [t \in D |-> base] \in F
    OBVIOUS
  <2> QED
    BY <2>1
<1>5. \A h \in F : h = [t \in D |-> h[t]]
  OBVIOUS
<1>6. ASSUME NEW h \in F, NEW k \in F, NEW t \in D,
             \A y \in D : m[y] < m[t] => h[y] = k[y]
      PROVE  G[h][t] = G[k][t]
  <2>1. t # {} => h[t \ {Max(t)}] = k[t \ {Max(t)}]
    BY <1>1, <1>6
  <2>2. Turn(h, t) = Turn(k, t)
    BY <2>1
  <2> HIDE DEF Turn
  <2> QED
    BY <2>2
<1>7. Contracts(D, F, m, G)
  BY <1>6 DEF Contracts
<1>8. \E h \in F : h = G[h]
  <2> HIDE DEF F, D, m, G
  <2>1. Recursion(D, F, m, n, G)
    BY <1>2, <1>3, <1>4, <1>5, <1>7 DEF Recursion
  <2> QED
    BY ONLY <2>1, Solution
<1> QED
  BY <1>8 DEF Iterates

(* What a fold leaves at each element, for the method Field. *)
FoldsFields(f, x, n, fields) ==
  /\ f[0] = x /\ f[n] = FoldLeft(Field, x, fields)
  /\ \A i \in 1 .. n : f[i] = Field(f[i - 1], fields[i])

LEMMA FieldsFold ==
  ASSUME NEW B, NEW x \in B, NEW n \in Nat, NEW fields, DOMAIN fields = 1 .. n,
         \A y \in B, i \in 1 .. n : Field(y, fields[i]) \in B
  PROVE  \E f : FoldsFields(f, x, n, fields)
<1> DEFINE D == SUBSET (1 .. n)
           g == [p \in B \X (1 .. n) |-> Field(p[1], fields[p[2]])]
           Turn(h, t) == IF t = {} THEN x ELSE Field(h[t \ {Max(t)}], fields[Max(t)])
           iter == CHOOSE h : h = [t \in D |-> Turn(h, t)]
<1>1. g \in [B \X (1 .. n) -> B] /\ \A y \in B, i \in 1 .. n : g[<<y, i>>] = Field(y, fields[i])
  OBVIOUS
<1>2. PICK h \in [D -> B] : Iterates(h, x, n, g)
  <2> HIDE DEF g
  <2> QED
    BY <1>1, IterExists
<1>3. h = [t \in D |-> Turn(h, t)]
  <2>1. h = [t \in D |-> IF t = {} THEN x ELSE g[<<h[t \ {Max(t)}], Max(t)>>]]
    BY <1>2 DEF Iterates
  <2>2. \A t \in D : t # {} => /\ Max(t) \in 1 .. n /\ t \ {Max(t)} \in D
    BY UpTo
  <2> HIDE DEF g, D
  <2>3. \A t \in D : (IF t = {} THEN x ELSE g[<<h[t \ {Max(t)}], Max(t)>>]) = Turn(h, t)
    BY <1>1, <2>2
  <2> HIDE DEF Turn
  <2> QED
    BY <2>1, <2>3
<1>4. iter = [t \in D |-> Turn(iter, t)]
  <2> HIDE DEF Turn, D
  <2> QED
    BY <1>3
<1>5. FoldLeft(Field, x, fields) = iter[1 .. n]
  BY DEF FoldLeft, MapThenFoldSet
<1> HIDE DEF iter
<1> DEFINE f == [i \in 0 .. n |-> iter[1 .. i]]
<1>6. ASSUME NEW i \in 1 .. n PROVE f[i] = Field(f[i - 1], fields[i])
  <2>1. 1 .. i \in D /\ 1 .. i # {} /\ Max(1 .. i) = i /\ (1 .. i) \ {i} = 1 .. (i - 1)
    BY UpTo
  <2>2. i \in 0 .. n /\ i - 1 \in 0 .. n
    OBVIOUS
  <2>3. f[i] = iter[1 .. i] /\ f[i - 1] = iter[1 .. (i - 1)]
    BY <2>2
  <2>4. iter[1 .. i] = Turn(iter, 1 .. i)
    BY <1>4, <2>1
  <2>5. Turn(iter, 1 .. i) = Field(iter[1 .. (i - 1)], fields[i])
    BY <2>1
  <2> QED
    BY <2>3, <2>4, <2>5
<1>7. f[0] = x
  <2>1. {} \in D /\ 0 \in 0 .. n /\ f[0] = iter[{}]
    BY UpTo
  <2>2. iter[{}] = Turn(iter, {})
    BY <1>4, <2>1
  <2> QED
    BY <2>1, <2>2
<1>8. f[n] = iter[1 .. n]
  OBVIOUS
<1> HIDE DEF f
<1>9. FoldsFields(f, x, n, fields)
  BY <1>5, <1>6, <1>7, <1>8 DEF FoldsFields
<1> QED
  BY <1>9

(* The same for the names of a header row. *)
NextName(x, name) == WriteName(PutUS(x, <<>>), name)

FoldsNames(f, x, n, names) ==
  /\ f[0] = x /\ f[n] = FoldLeft(NextName, x, names)
  /\ \A i \in 1 .. n : f[i] = NextName(f[i - 1], names[i])

LEMMA NamesFold ==
  ASSUME NEW B, NEW x \in B, NEW n \in Nat, NEW names, DOMAIN names = 1 .. n,
         \A y \in B, i \in 1 .. n : NextName(y, names[i]) \in B
  PROVE  \E f : FoldsNames(f, x, n, names)
<1> DEFINE D == SUBSET (1 .. n)
           g == [p \in B \X (1 .. n) |-> NextName(p[1], names[p[2]])]
           Turn(h, t) == IF t = {} THEN x ELSE NextName(h[t \ {Max(t)}], names[Max(t)])
           iter == CHOOSE h : h = [t \in D |-> Turn(h, t)]
<1>1. g \in [B \X (1 .. n) -> B] /\ \A y \in B, i \in 1 .. n : g[<<y, i>>] = NextName(y, names[i])
  OBVIOUS
<1>2. PICK h \in [D -> B] : Iterates(h, x, n, g)
  <2> HIDE DEF g
  <2> QED
    BY <1>1, IterExists
<1>3. h = [t \in D |-> Turn(h, t)]
  <2>1. h = [t \in D |-> IF t = {} THEN x ELSE g[<<h[t \ {Max(t)}], Max(t)>>]]
    BY <1>2 DEF Iterates
  <2>2. \A t \in D : t # {} => /\ Max(t) \in 1 .. n /\ t \ {Max(t)} \in D
    BY UpTo
  <2> HIDE DEF g, D
  <2>3. \A t \in D : (IF t = {} THEN x ELSE g[<<h[t \ {Max(t)}], Max(t)>>]) = Turn(h, t)
    BY <1>1, <2>2
  <2> HIDE DEF Turn
  <2> QED
    BY <2>1, <2>3
<1>4. iter = [t \in D |-> Turn(iter, t)]
  <2> HIDE DEF Turn, D
  <2> QED
    BY <1>3
<1>5. FoldLeft(NextName, x, names) = iter[1 .. n]
  BY DEF FoldLeft, MapThenFoldSet
<1> HIDE DEF iter
<1> DEFINE f == [i \in 0 .. n |-> iter[1 .. i]]
<1>6. ASSUME NEW i \in 1 .. n PROVE f[i] = NextName(f[i - 1], names[i])
  <2>1. 1 .. i \in D /\ 1 .. i # {} /\ Max(1 .. i) = i /\ (1 .. i) \ {i} = 1 .. (i - 1)
    BY UpTo
  <2>2. i \in 0 .. n /\ i - 1 \in 0 .. n
    OBVIOUS
  <2>3. f[i] = iter[1 .. i] /\ f[i - 1] = iter[1 .. (i - 1)]
    BY <2>2
  <2>4. iter[1 .. i] = Turn(iter, 1 .. i)
    BY <1>4, <2>1
  <2>5. Turn(iter, 1 .. i) = NextName(iter[1 .. (i - 1)], names[i])
    BY <2>1
  <2> QED
    BY <2>3, <2>4, <2>5
<1>7. f[0] = x
  <2>1. {} \in D /\ 0 \in 0 .. n /\ f[0] = iter[{}]
    BY UpTo
  <2>2. iter[{}] = Turn(iter, {})
    BY <1>4, <2>1
  <2> QED
    BY <2>1, <2>2
<1>8. f[n] = iter[1 .. n]
  OBVIOUS
<1> HIDE DEF f
<1>9. FoldsNames(f, x, n, names)
  BY <1>5, <1>6, <1>7, <1>8 DEF FoldsNames
<1> QED
  BY <1>9

(* And for the records of a table. *)
FoldsRecords(f, x, n, rows) ==
  /\ f[0] = x /\ f[n] = FoldLeft(Record, x, rows)
  /\ \A i \in 1 .. n : f[i] = Record(f[i - 1], rows[i])

LEMMA RecordsFold ==
  ASSUME NEW B, NEW x \in B, NEW n \in Nat, NEW rows, DOMAIN rows = 1 .. n,
         \A y \in B, i \in 1 .. n : Record(y, rows[i]) \in B
  PROVE  \E f : FoldsRecords(f, x, n, rows)
<1> DEFINE D == SUBSET (1 .. n)
           g == [p \in B \X (1 .. n) |-> Record(p[1], rows[p[2]])]
           Turn(h, t) == IF t = {} THEN x ELSE Record(h[t \ {Max(t)}], rows[Max(t)])
           iter == CHOOSE h : h = [t \in D |-> Turn(h, t)]
<1>1. g \in [B \X (1 .. n) -> B] /\ \A y \in B, i \in 1 .. n : g[<<y, i>>] = Record(y, rows[i])
  OBVIOUS
<1>2. PICK h \in [D -> B] : Iterates(h, x, n, g)
  <2> HIDE DEF g
  <2> QED
    BY <1>1, IterExists
<1>3. h = [t \in D |-> Turn(h, t)]
  <2>1. h = [t \in D |-> IF t = {} THEN x ELSE g[<<h[t \ {Max(t)}], Max(t)>>]]
    BY <1>2 DEF Iterates
  <2>2. \A t \in D : t # {} => /\ Max(t) \in 1 .. n /\ t \ {Max(t)} \in D
    BY UpTo
  <2> HIDE DEF g, D
  <2>3. \A t \in D : (IF t = {} THEN x ELSE g[<<h[t \ {Max(t)}], Max(t)>>]) = Turn(h, t)
    BY <1>1, <2>2
  <2> HIDE DEF Turn
  <2> QED
    BY <2>1, <2>3
<1>4. iter = [t \in D |-> Turn(iter, t)]
  <2> HIDE DEF Turn, D
  <2> QED
    BY <1>3
<1>5. FoldLeft(Record, x, rows) = iter[1 .. n]
  BY DEF FoldLeft, MapThenFoldSet
<1> HIDE DEF iter
<1> DEFINE f == [i \in 0 .. n |-> iter[1 .. i]]
<1>6. ASSUME NEW i \in 1 .. n PROVE f[i] = Record(f[i - 1], rows[i])
  <2>1. 1 .. i \in D /\ 1 .. i # {} /\ Max(1 .. i) = i /\ (1 .. i) \ {i} = 1 .. (i - 1)
    BY UpTo
  <2>2. i \in 0 .. n /\ i - 1 \in 0 .. n
    OBVIOUS
  <2>3. f[i] = iter[1 .. i] /\ f[i - 1] = iter[1 .. (i - 1)]
    BY <2>2
  <2>4. iter[1 .. i] = Turn(iter, 1 .. i)
    BY <1>4, <2>1
  <2>5. Turn(iter, 1 .. i) = Record(iter[1 .. (i - 1)], rows[i])
    BY <2>1
  <2> QED
    BY <2>3, <2>4, <2>5
<1>7. f[0] = x
  <2>1. {} \in D /\ 0 \in 0 .. n /\ f[0] = iter[{}]
    BY UpTo
  <2>2. iter[{}] = Turn(iter, {})
    BY <1>4, <2>1
  <2> QED
    BY <2>1, <2>2
<1>8. f[n] = iter[1 .. n]
  OBVIOUS
<1> HIDE DEF f
<1>9. FoldsRecords(f, x, n, rows)
  BY <1>5, <1>6, <1>7, <1>8 DEF FoldsRecords
<1> QED
  BY <1>9

Waiting(s) == {x \in BuilderType : \E r, u : Waits(x, r, u, s)}

LEMMA WaitingIs ==
  ASSUME NEW s
  PROVE  /\ \A x \in Waiting(s) : \E r, u : Waits(x, r, u, s)
         /\ \A x, r, u : Waits(x, r, u, s) \/ Stands(x, r, u, s) => x \in Waiting(s)
BY StandsWaits DEF Waiting, Waits, IsAt

LEMMA RecordStands ==
  ASSUME NEW x, NEW r, NEW u, NEW s, Waits(x, r, u, s),
         NEW fields \in Seq(Seq(Byte))
  PROVE  Stands(Record(x, fields), TRUE, Len(fields), s)
<1> DEFINE n == Len(fields)
           y == PutRS(x, <<>>)
<1>1. Stands(y, TRUE, 0, s)
  <2>1. Stands(PutRS(x, <<>>), TRUE, IF <<>> = <<>> THEN 0 ELSE 1, s)
    BY PutRSStands, OptionalIs
  <2> QED
    BY <2>1
<1>2. n \in Nat /\ DOMAIN fields = 1 .. n /\ \A i \in 1 .. n : fields[i] \in Seq(Byte)
  OBVIOUS
<1>3. Record(x, fields) = FoldLeft(Field, y, fields)
  BY DEF Record
<1> HIDE DEF y, n
<1>4. y \in Waiting(s) /\ \A z \in Waiting(s), i \in 1 .. n : Field(z, fields[i]) \in Waiting(s)
  <2>1. ASSUME NEW z \in Waiting(s), NEW i \in 1 .. n PROVE Field(z, fields[i]) \in Waiting(s)
    <3>1. PICK q, k : Waits(z, q, k, s)
      BY WaitingIs
    <3>2. Stands(Field(z, fields[i]), TRUE, UnitsOf(q, k) + 1, s)
      BY <1>2, <3>1, FieldStands
    <3> QED
      BY <3>2, WaitingIs
  <2> QED
    BY <1>1, <2>1, WaitingIs
<1>5. PICK f : FoldsFields(f, y, n, fields)
  BY <1>2, <1>4, FieldsFold
<1> DEFINE Fine(i) == Stands(f[i], TRUE, i, s)
           T == {i \in Nat : i <= n => Fine(i)}
<1>6. 0 \in T
  BY <1>1, <1>5 DEF FoldsFields
<1>7. ASSUME NEW i \in Nat, i \in T PROVE i + 1 \in T
  <2>1. SUFFICES ASSUME i + 1 <= n PROVE Stands(f[i + 1], TRUE, i + 1, s)
    BY i + 1 \in Nat
  <2>2. i + 1 \in 1 .. n /\ i + 1 - 1 = i /\ i <= n
    BY <1>2, <2>1
  <2>3. f[i + 1] = Field(f[i], fields[i + 1])
    BY <1>5, <2>2 DEF FoldsFields
  <2>4. Waits(f[i], TRUE, i, s) /\ fields[i + 1] \in Seq(Byte)
    BY <1>2, <1>7, <2>2, StandsWaits
  <2>5. Stands(Field(f[i], fields[i + 1]), TRUE, UnitsOf(TRUE, i) + 1, s)
    BY <2>4, FieldStands
  <2> QED
    BY <2>3, <2>5 DEF UnitsOf
<1>8. n \in T
  <2> HIDE DEF T
  <2> QED
    BY <1>2, <1>6, <1>7, NatInduct
<1>9. f[n] = FoldLeft(Field, y, fields)
  BY <1>5 DEF FoldsFields
<1>10. Fine(n)
  <2> HIDE DEF Fine
  <2> QED
    BY <1>2, <1>8
<1> HIDE DEF T
<1>11. Stands(Record(x, fields), TRUE, n, s)
  BY <1>3, <1>9, <1>10
<1> QED
  BY <1>11 DEF n

LEMMA NextNameStands ==
  ASSUME NEW x, NEW r, NEW u, NEW s, Waits(x, r, u, s), NEW name \in Seq(Byte)
  PROVE  Stands(NextName(x, name), r, u + 1, s)
BY PutUSStands, OptionalIs, NameStands DEF NextName

(* A header row. *)
LEMMA HeaderStands ==
  ASSUME NEW x, NEW r, NEW u, NEW s, Waits(x, r, u, s),
         NEW names \in Seq(Seq(Byte))
  PROVE  Stands(Header(x, names), FALSE, 0, s)
<1> DEFINE row == PutRS(PutSOH(x, <<>>), <<>>)
           y == WriteName(row, Head(names))
           t == Tail(names)
           n == Len(t)
<1>1. Stands(row, TRUE, 0, s)
  <2>1. Waits(PutSOH(x, <<>>), r, u, s)
    BY PutSOHStands, OptionalIs, StandsWaits
  <2>2. Stands(row, TRUE, IF <<>> = <<>> THEN 0 ELSE 1, s)
    BY <2>1, PutRSStands, OptionalIs
  <2> QED
    BY <2>2
<1>2. Header(x, names) = IF names = <<>> THEN EndRecord(row) ELSE EndRecord(FoldLeft(NextName, y, t))
  BY DEF Header, NextName
<1> HIDE DEF row
<1>3. \A z, q, k : Stands(z, q, k, s) => Stands(EndRecord(z), FALSE, 0, s)
  BY EndRecordIs DEF Stands
<1>4. CASE names = <<>>
  BY <1>1, <1>2, <1>3, <1>4
<1>5. CASE names # <<>>
  <2>1. /\ Head(names) \in Seq(Byte) /\ n \in Nat /\ DOMAIN t = 1 .. n
        /\ \A i \in 1 .. n : t[i] \in Seq(Byte)
    BY <1>5
  <2>2. Stands(y, TRUE, 0, s)
    BY <1>1, <2>1, NameStands
  <2> HIDE DEF y, t, n
  <2>3. ASSUME NEW z \in Waiting(s), NEW i \in 1 .. n PROVE NextName(z, t[i]) \in Waiting(s)
    <3>1. PICK q, k : Waits(z, q, k, s)
      BY WaitingIs
    <3>2. Stands(NextName(z, t[i]), q, k + 1, s)
      BY <2>1, <3>1, NextNameStands
    <3> QED
      BY <3>2, WaitingIs
  <2>4. y \in Waiting(s)
    BY <2>2, WaitingIs
  <2>5. PICK f : FoldsNames(f, y, n, t)
    BY <2>1, <2>3, <2>4, NamesFold
  <2> DEFINE Fine(i) == Stands(f[i], TRUE, i, s)
             T == {i \in Nat : i <= n => Fine(i)}
  <2>6. 0 \in T
    BY <2>2, <2>5 DEF FoldsNames
  <2>7. ASSUME NEW i \in Nat, i \in T PROVE i + 1 \in T
    <3>1. SUFFICES ASSUME i + 1 <= n PROVE Stands(f[i + 1], TRUE, i + 1, s)
      BY i + 1 \in Nat
    <3>2. i + 1 \in 1 .. n /\ i + 1 - 1 = i /\ i <= n
      BY <2>1, <3>1
    <3>3. f[i + 1] = NextName(f[i], t[i + 1])
      BY <2>5, <3>2 DEF FoldsNames
    <3>4. Waits(f[i], TRUE, i, s) /\ t[i + 1] \in Seq(Byte)
      BY <2>1, <2>7, <3>2, StandsWaits
    <3> QED
      BY <3>3, <3>4, NextNameStands
  <2>8. n \in T
    <3> HIDE DEF T
    <3> QED
      BY <2>1, <2>6, <2>7, NatInduct
  <2>9. Fine(n)
    <3> HIDE DEF Fine
    <3> QED
      BY <2>1, <2>8
  <2>10. f[n] = FoldLeft(NextName, y, t)
    BY <2>5 DEF FoldsNames
  <2>11. Header(x, names) = EndRecord(f[n])
    BY <1>2, <1>5, <2>10 DEF y, t
  <2> HIDE DEF T
  <2> QED
    BY <1>3, <2>9, <2>11
<1> QED
  BY <1>4, <1>5

LEMMA GroupAtStands ==
  ASSUME NEW x, NEW r, NEW u, NEW s, Waits(x, r, u, s), NEW name \in Seq(Byte),
         NEW headers, headers # <<>> => headers[1] \in Seq(Seq(Byte)),
         NEW depth \in Nat \ {0}
  PROVE  Stands(GroupAt(x, name, headers, depth), FALSE, 0, s)
<1> DEFINE k == depth - 1
           y == EndRecord(x)
           z == Put(y, Marks(k))
           line == PutGS(z, <<name>>)
<1>1. k \in Nat
  OBVIOUS
<1>2. GroupAt(x, name, headers, depth) = IF headers = <<>> THEN line ELSE Header(line, headers[1])
  BY DEF GroupAt, Marks
<1> HIDE DEF k
<1>3. Waits(y, FALSE, 0, s)
  BY EndRecordStands
<1> HIDE DEF y
<1>4. y.buf \in Seq(Byte) /\ Len(s) \in Nat /\ IsAt(y, FALSE, 0, s) /\ AtRest(y.buf, Len(s))
  BY <1>3, AtIs DEF Waits
<1>5. Marks(k) \in Seq(Byte) /\ AtRest(y.buf \o Marks(k), Len(s))
  BY <1>1, <1>4, RestMarks
<1>6. IsAt(z, FALSE, 0, s) /\ z.buf = y.buf \o Marks(k)
  BY <1>4, <1>5, PutIs
<1> HIDE DEF z
<1>7. Waits(z, FALSE, 0, s)
  BY <1>5, <1>6 DEF Waits
<1>8. Stands(line, FALSE, 0, s)
  BY <1>7, PutGSStands, OptionalIs
<1> HIDE DEF line
<1> QED
  BY <1>2, <1>8, StandsWaits, HeaderStands

LEMMA AppendIs ==
  ASSUME NEW S, NEW s \in Seq(S), NEW e \in S
  PROVE  /\ Append(s, e) \in Seq(S) /\ Append(s, e) # <<>> /\ Len(Append(s, e)) = Len(s) + 1
         /\ Last(Append(s, e)) = e /\ Front(Append(s, e)) = s
<1> DEFINE t == Append(s, e)
<1>1. t \in Seq(S) /\ t # <<>> /\ Len(t) = Len(s) + 1 /\ Len(s) \in Nat /\ t[Len(s) + 1] = e
      /\ \A i \in 1 .. Len(s) : t[i] = s[i]
  OBVIOUS
<1> HIDE DEF t
<1>2. Last(t) = e
  BY <1>1 DEF Last
<1>3. Front(t) \in Seq(S) /\ Len(Front(t)) = Len(s) /\ \A i \in 1 .. Len(s) : Front(t)[i] = s[i]
  <2>1. /\ Front(t) \in Seq(S) /\ Len(Front(t)) = Len(t) - 1
        /\ \A i \in 1 .. (Len(t) - 1) : Front(t)[i] = t[i]
    BY <1>1, FrontIs
  <2>2. Len(t) - 1 = Len(s)
    BY <1>1
  <2> QED
    BY <1>1, <2>1, <2>2
<1>4. Front(t) = s
  BY <1>3
<1> QED
  BY <1>1, <1>2, <1>4 DEF t

(* A level closed again. *)
LEMMA LevelCloses ==
  ASSUME NEW x, NEW r, NEW u, NEW s \in Levels, NEW q \in BOOLEAN, NEW n \in Nat,
         Waits(x, r, u, Append(s, Level(q, n)))
  PROVE  Stands(PutCAN(x), q, n, s)
<1> DEFINE e == Level(q, n)
           t == Append(s, e)
<1>1. e \in [inRecord : BOOLEAN, units : Nat] /\ e.inRecord = q /\ e.units = n
  BY DEF Level
<1> HIDE DEF e
<1>2. t # <<>> /\ Last(t) = e /\ Front(t) = s
  <2>1. s \in Seq([inRecord : BOOLEAN, units : Nat])
    BY DEF Levels
  <2> DEFINE S == [inRecord : BOOLEAN, units : Nat]
  <2>2. s \in Seq(S) /\ e \in S
    BY <1>1, <2>1
  <2> HIDE DEF S
  <2> QED
    BY ONLY <2>2, AppendIs
<1>3. Waits(x, r, u, t)
  BY Zenon DEF e
<1> HIDE DEF t
<1>4. Stands(PutCAN(x), Last(t).inRecord, Last(t).units, Front(t))
  BY <1>2, <1>3, PutCANStands
<1> QED
  BY <1>1, <1>2, <1>4

LEMMA ListStands ==
  ASSUME NEW x, NEW r, NEW u, NEW s, Waits(x, r, u, s), NEW items \in Seq(Seq(Byte))
  PROVE  Stands(List(x, items), TRUE, UnitsOf(r, u) + 1, s)
<1> DEFINE n == UnitsOf(r, u) + 1
           level == PutDLE(NextUnit(x))
           t == Append(s, Level(TRUE, n))
<1>1. n \in Nat /\ s \in Levels
  BY AtIs, UnitsOfIs DEF Waits
<1>2. Stands(level, FALSE, 0, t)
  BY OpenLevelStands DEF OpenLevel
<1>3. List(x, items) = PutCAN(IF items = <<>> THEN level ELSE Record(level, items))
  BY DEF List, Record
<1> HIDE DEF level, n
<1>4. Waits(level, FALSE, 0, t) /\ Stands(Record(level, items), TRUE, Len(items), t)
  BY <1>2, StandsWaits, RecordStands
<1>5. Stands(PutCAN(level), TRUE, n, s) /\ Stands(PutCAN(Record(level, items)), TRUE, n, s)
  BY <1>1, <1>4, StandsWaits, LevelCloses
<1>6. Stands(List(x, items), TRUE, n, s)
  BY <1>3, <1>5
<1> QED
  BY <1>6 DEF n

(* A table in a heading level. *)
TableWritten(x, table) ==
  PutCAN(FoldLeft(Record, Header(OpenHeadingLevel(x, A!BlobWord), table.columns), table.rows))

LEMMA WordsAreBytes ==
  A!BlobWord \in Seq(Byte) /\ V!ShapeKey \in Seq(Byte) /\ V!DiffShape \in Seq(Byte)
BY DEF A!BlobWord, V!ShapeKey, V!DiffShape, Byte

LEMMA TableStands ==
  ASSUME NEW x, NEW r, NEW u, NEW s, Waits(x, r, u, s), NEW table,
         table.columns \in Seq(Seq(Byte)), table.rows \in Seq(Seq(Seq(Byte)))
  PROVE  Stands(TableWritten(x, table), FALSE, 1, s)
<1> DEFINE rows == table.rows
           n == Len(rows)
           opened == Header(OpenHeadingLevel(x, A!BlobWord), table.columns)
           t == Append(s, Level(FALSE, 1))
<1>1. s \in Levels
  BY AtIs DEF Waits
<1>2. Waits(OpenHeadingLevel(x, A!BlobWord), FALSE, 0, t)
  BY WordsAreBytes, OpenHeadingLevelStands, StandsWaits
<1> HIDE DEF t
<1>3. Stands(opened, FALSE, 0, t)
  BY <1>2, HeaderStands
<1>4. TableWritten(x, table) = PutCAN(FoldLeft(Record, opened, rows))
  BY DEF TableWritten
<1>5. n \in Nat /\ DOMAIN rows = 1 .. n /\ \A i \in 1 .. n : rows[i] \in Seq(Seq(Byte))
  OBVIOUS
<1> HIDE DEF opened, rows, n
<1>6. ASSUME NEW z \in Waiting(t), NEW i \in 1 .. n PROVE Record(z, rows[i]) \in Waiting(t)
  <2>1. PICK q, k : Waits(z, q, k, t)
    BY WaitingIs
  <2>2. Stands(Record(z, rows[i]), TRUE, Len(rows[i]), t)
    BY <1>5, <2>1, RecordStands
  <2> QED
    BY <2>2, WaitingIs
<1>7. opened \in Waiting(t)
  BY <1>3, WaitingIs
<1>8. PICK f : FoldsRecords(f, opened, n, rows)
  BY <1>5, <1>6, <1>7, RecordsFold
<1> DEFINE Fine(i) == f[i] \in Waiting(t)
           T == {i \in Nat : i <= n => Fine(i)}
<1>9. 0 \in T
  BY <1>7, <1>8 DEF FoldsRecords
<1>10. ASSUME NEW i \in Nat, i \in T PROVE i + 1 \in T
  <2>1. SUFFICES ASSUME i + 1 <= n PROVE f[i + 1] \in Waiting(t)
    BY i + 1 \in Nat
  <2>2. i + 1 \in 1 .. n /\ i + 1 - 1 = i /\ i <= n
    BY <1>5, <2>1
  <2>3. f[i + 1] = Record(f[i], rows[i + 1])
    BY <1>8, <2>2 DEF FoldsRecords
  <2>4. f[i] \in Waiting(t)
    BY <1>10, <2>2
  <2> QED
    BY <1>6, <2>2, <2>3, <2>4
<1>11. n \in T
  <2> HIDE DEF T
  <2> QED
    BY <1>5, <1>9, <1>10, NatInduct
<1>12. Fine(n)
  <2> HIDE DEF Fine
  <2> QED
    BY <1>5, <1>11
<1>13. PICK q, k : Waits(f[n], q, k, t)
  BY <1>12, WaitingIs
<1>14. FALSE \in BOOLEAN /\ 1 \in Nat /\ Waits(f[n], q, k, Append(s, Level(FALSE, 1)))
  BY <1>13 DEF t
<1>15. Stands(PutCAN(f[n]), FALSE, 1, s)
  BY ONLY <1>1, <1>14, LevelCloses
<1>16. f[n] = FoldLeft(Record, opened, rows)
  BY <1>8 DEF FoldsRecords
<1> QED
  BY <1>4, <1>15, <1>16
-----------------------------------------------------------------------------
(***************************************************************************)
(* What is meant, as far as the counters go: bodies over a universe U that *)
(* holds the units, and the names and numbers of their groups, and an open *)
(* one has a record to add to.                                             *)
(***************************************************************************)
GroupsOver(U) == [depth : U, name : U, headers : U, records : Seq(Seq(U))]
FilesOver(U) == [name : U, groups : Seq(GroupsOver(U))]
BodiesOver(U) == [files : Seq(FilesOver(U)), open : BOOLEAN]

TakesMore(w) == w.files # <<>> /\ O!Groups(w) # <<>> /\ O!RecordsIn(w) # <<>>

Fits(w, U) == w \in BodiesOver(U) /\ (w.open => TakesMore(w))

(* The units of the open record, as many as a reader would count. *)
Meaning(w) == IF w.open THEN Len(O!OpenUnits(w)) ELSE 0

(* What every universe has: the names of unnamed groups and files. *)
Grounded(U) == <<>> \in U /\ 0 \in U

LEMMA SeqGrows ==
  ASSUME NEW S, NEW T, S \subseteq T
  PROVE  Seq(S) \subseteq Seq(T)
OBVIOUS

LEMMA FitsGrows ==
  ASSUME NEW U, NEW W, U \subseteq W, NEW w, Fits(w, U)
  PROVE  Fits(w, W)
<1>1. Seq(Seq(U)) \subseteq Seq(Seq(W))
  BY SeqGrows
<1>2. GroupsOver(U) \subseteq GroupsOver(W)
  BY <1>1 DEF GroupsOver
<1>3. Seq(GroupsOver(U)) \subseteq Seq(GroupsOver(W))
  BY <1>2, SeqGrows
<1>4. FilesOver(U) \subseteq FilesOver(W)
  BY <1>3 DEF FilesOver
<1>5. Seq(FilesOver(U)) \subseteq Seq(FilesOver(W))
  BY <1>4, SeqGrows
<1>6. BodiesOver(U) \subseteq BodiesOver(W)
  BY <1>5 DEF BodiesOver
<1> QED
  BY <1>6, Zenon DEF Fits

LEMMA EmptyFits ==
  ASSUME NEW U
  PROVE  Fits(O!EmptyBody, U) /\ O!EmptyBody.open = FALSE
<1>1. <<>> \in Seq(FilesOver(U))
  OBVIOUS
<1> QED
  BY <1>1 DEF Fits, BodiesOver, O!EmptyBody

LEMMA CloseFits ==
  ASSUME NEW U, NEW w, w \in BodiesOver(U)
  PROVE  /\ Fits(O!Close(w), U) /\ O!Close(w).open = FALSE
         /\ O!Close(w).files = w.files /\ O!Groups(O!Close(w)) = O!Groups(w)
<1> DEFINE S == Seq(FilesOver(U))
           v == O!Close(w)
<1>1. w \in [files : S, open : BOOLEAN]
  BY DEF BodiesOver
<1> HIDE DEF S
<1>2. v \in [files : S, open : BOOLEAN] /\ v.open = FALSE /\ v.files = w.files
  BY <1>1 DEF O!Close
<1> HIDE DEF v
<1>3. v \in BodiesOver(U) /\ Fits(v, U) /\ O!Groups(v) = O!Groups(w)
  BY <1>2 DEF BodiesOver, S, Fits, O!Groups
<1> QED
  BY <1>2, <1>3 DEF v

LEMMA AddFileFits ==
  ASSUME NEW U, NEW w, w \in BodiesOver(U), NEW name \in U
  PROVE  /\ Fits(O!AddFile(w, name), U) /\ O!AddFile(w, name).open = FALSE
         /\ O!AddFile(w, name).files # <<>>
<1> DEFINE v == [w EXCEPT !.files = Append(@, O!EmptyFile(name))]
<1>1. O!EmptyFile(name) \in FilesOver(U)
  BY DEF O!EmptyFile, FilesOver
<1>2. Append(w.files, O!EmptyFile(name)) \in Seq(FilesOver(U)) /\ Append(w.files, O!EmptyFile(name)) # <<>>
  <2>1. w.files \in Seq(FilesOver(U))
    BY DEF BodiesOver
  <2> QED
    BY <1>1, <2>1, AppendIs
<1>3. v \in BodiesOver(U) /\ v.files # <<>>
  BY <1>2 DEF BodiesOver
<1>4. O!AddFile(w, name) = O!Close(v)
  BY DEF O!AddFile
<1> HIDE DEF v
<1>5. Fits(O!Close(v), U) /\ O!Close(v).open = FALSE /\ O!Close(v).files = v.files
  BY <1>3, CloseFits
<1> QED
  BY <1>3, <1>4, <1>5

WithGroups(w, gs) == [w EXCEPT !.files[Len(w.files)].groups = gs]

LEMMA WithGroupsIs ==
  ASSUME NEW U, NEW w, w \in BodiesOver(U), w.files # <<>>, NEW gs \in Seq(GroupsOver(U))
  PROVE  /\ WithGroups(w, gs) \in BodiesOver(U) /\ WithGroups(w, gs).files # <<>>
         /\ O!Groups(WithGroups(w, gs)) = gs /\ WithGroups(w, gs).open = w.open
<1> DEFINE F == FilesOver(U)
           fs == w.files
           n == Len(fs)
           file == [fs[n] EXCEPT !.groups = gs]
           gs2 == [fs EXCEPT ![n] = file]
           v == WithGroups(w, gs)
           S == Seq(F)
<1>1. fs \in Seq(F) /\ w \in [files : S, open : BOOLEAN]
  BY DEF BodiesOver
<1>3. n \in Nat /\ n > 0 /\ fs[n] \in F
  <2> HIDE DEF F
  <2> QED
    BY <1>1
<1>4. file \in F /\ file.groups = gs
  <2> DEFINE G == Seq(GroupsOver(U))
  <2>1. fs[n] \in [name : U, groups : G] /\ gs \in G
    BY <1>3 DEF FilesOver
  <2> HIDE DEF G, fs, n
  <2>2. file \in [name : U, groups : G] /\ file.groups = gs
    BY <2>1
  <2> QED
    BY <2>2 DEF FilesOver, G
<1> HIDE DEF F, file
<1>5. gs2 \in Seq(F) /\ Len(gs2) = n /\ gs2[n] = file
  <2> HIDE DEF fs
  <2> QED
    BY <1>1, <1>3, <1>4
<1>2. v = [w EXCEPT !.files = gs2]
  BY DEF WithGroups, gs2, file
<1> HIDE DEF gs2, v, n, fs
<1>6. gs2 # <<>>
  BY <1>3, <1>5
<1>9. gs2 \in S
  BY <1>5
<1> HIDE DEF S
<1>7. v \in [files : S, open : BOOLEAN] /\ v.files = gs2 /\ v.open = w.open
  BY <1>1, <1>2, <1>9
<1>8. O!Groups(v) = gs
  BY <1>4, <1>5, <1>6, <1>7 DEF O!Groups, O!Last
<1> QED
  BY <1>6, <1>7, <1>8 DEF v, BodiesOver, S, F

LEMMA GroupsType ==
  ASSUME NEW U, NEW w, w \in BodiesOver(U)
  PROVE  O!Groups(w) \in Seq(GroupsOver(U))
<1> DEFINE G == Seq(GroupsOver(U))
           F == [name : U, groups : G]
<1>1. w.files \in Seq(F)
  BY DEF BodiesOver, FilesOver
<1>2. <<>> \in G
  OBVIOUS
<1> HIDE DEF F
<1>3. w.files # <<>> => Last(w.files) \in F
  BY <1>1, FrontIs
<1> HIDE DEF G
<1>4. w.files # <<>> => Last(w.files).groups \in G
  BY <1>3 DEF F
<1>5. O!Groups(w) \in G
  BY <1>2, <1>4 DEF O!Groups, O!Last, Last
<1> QED
  BY <1>5 DEF G

LEMMA AddGroupFits ==
  ASSUME NEW U, Grounded(U), NEW w, w \in BodiesOver(U),
         NEW name \in U, NEW headers \in U, NEW depth \in U
  PROVE  LET v == O!AddGroup(w, name, headers, depth) IN
         Fits(v, U) /\ v.open = FALSE /\ v.files # <<>> /\ O!Groups(v) # <<>>
<1> DEFINE in == IF w.files = <<>> THEN O!AddFile(w, <<>>) ELSE w
           g == O!EmptyGroup(depth, name, headers)
           gs == Append(O!Groups(in), g)
           v == WithGroups(in, gs)
<1>1. in \in BodiesOver(U) /\ in.files # <<>>
  <2>1. /\ O!AddFile(w, <<>>) \in BodiesOver(U)
        /\ O!AddFile(w, <<>>).files # <<>>
    BY AddFileFits DEF Grounded, Fits
  <2> QED
    BY <2>1
<1>2. O!AddGroup(w, name, headers, depth) = O!Close(v)
  <2>1. O!AddGroup(w, name, headers, depth) = O!Close(
          [in EXCEPT !.files[Len(in.files)].groups = Append(@, g)])
    BY Zenon DEF O!AddGroup
  <2> HIDE DEF in, g
  <2>2. in.files[Len(in.files)].groups = O!Groups(in)
    BY <1>1 DEF O!Groups, O!Last
  <2> QED
    BY <2>1, <2>2 DEF WithGroups
<1> HIDE DEF in
<1>3. g \in GroupsOver(U)
  <2>1. <<>> \in Seq(Seq(U))
    OBVIOUS
  <2> QED
    BY <2>1 DEF O!EmptyGroup, GroupsOver
<1>4. O!Groups(in) \in Seq(GroupsOver(U))
  BY <1>1, GroupsType
<1>5. gs \in Seq(GroupsOver(U)) /\ gs # <<>>
  BY <1>3, <1>4, AppendIs
<1> HIDE DEF g, gs
<1>6. v \in BodiesOver(U) /\ v.files # <<>> /\ O!Groups(v) = gs
  BY <1>1, <1>5, WithGroupsIs
<1> HIDE DEF v
<1>7. /\ Fits(O!Close(v), U) /\ O!Close(v).open = FALSE
      /\ O!Close(v).files = v.files /\ O!Groups(O!Close(v)) = O!Groups(v)
  BY <1>6, CloseFits
<1> QED
  BY <1>2, <1>5, <1>6, <1>7

ReplaceLast(s, e) == [s EXCEPT ![Len(s)] = e]

LEMMA ReplaceLastIs ==
  ASSUME NEW S, NEW s \in Seq(S), s # <<>>, NEW e \in S
  PROVE  /\ ReplaceLast(s, e) \in Seq(S) /\ ReplaceLast(s, e) # <<>>
         /\ Last(ReplaceLast(s, e)) = e
<1> DEFINE n == Len(s)
           t == ReplaceLast(s, e)
<1>1. n \in Nat /\ n > 0
  OBVIOUS
<1>2. t \in Seq(S) /\ Len(t) = n /\ t[n] = e
  BY <1>1 DEF ReplaceLast
<1> HIDE DEF t, n
<1>3. t # <<>> /\ Last(t) = e
  BY <1>1, <1>2 DEF Last
<1> QED
  BY <1>2, <1>3 DEF t

(* The last group with other records. *)
WithRecords(w, rs) ==
  WithGroups(w, ReplaceLast(O!Groups(w), [Last(O!Groups(w)) EXCEPT !.records = rs]))

LEMMA WithRecordsIs ==
  ASSUME NEW U, NEW w, w \in BodiesOver(U), O!Groups(w) # <<>>, NEW rs \in Seq(Seq(U))
  PROVE  LET v == WithRecords(w, rs) IN
         /\ v \in BodiesOver(U) /\ v.open = w.open
         /\ v.files # <<>> /\ O!Groups(v) # <<>> /\ O!RecordsIn(v) = rs
<1> DEFINE gs == O!Groups(w)
           g == [Last(gs) EXCEPT !.records = rs]
           hs == ReplaceLast(gs, g)
           v == WithGroups(w, hs)
<1>1. gs \in Seq(GroupsOver(U)) /\ gs # <<>>
  BY GroupsType
<1>2. Last(gs) \in GroupsOver(U)
  BY <1>1, FrontIs
<1>3. g \in GroupsOver(U) /\ g.records = rs
  <2> DEFINE R == Seq(Seq(U))
  <2>1. Last(gs) \in [depth : U, name : U, headers : U, records : R] /\ rs \in R
    BY <1>2 DEF GroupsOver
  <2> HIDE DEF R, gs
  <2>2. g \in [depth : U, name : U, headers : U, records : R] /\ g.records = rs
    BY <2>1
  <2> QED
    BY <2>2 DEF GroupsOver, R
<1>4. w.files # <<>>
  BY DEF O!Groups
<1> HIDE DEF gs, g
<1>5. hs \in Seq(GroupsOver(U)) /\ hs # <<>> /\ Last(hs) = g
  BY <1>1, <1>3, ReplaceLastIs
<1> HIDE DEF hs
<1>6. v \in BodiesOver(U) /\ v.files # <<>> /\ O!Groups(v) = hs /\ v.open = w.open
  BY <1>4, <1>5, WithGroupsIs
<1>7. WithRecords(w, rs) = v
  BY DEF WithRecords, hs, g, gs
<1> HIDE DEF v
<1>8. O!RecordsIn(v) = rs
  BY <1>3, <1>5, <1>6 DEF O!RecordsIn, O!Last, Last
<1> QED
  BY <1>5, <1>6, <1>7, <1>8

(* A body to add a record or a header row to. *)
LEMMA GroupToAddTo ==
  ASSUME NEW U, Grounded(U), NEW w, w \in BodiesOver(U)
  PROVE  LET in == IF O!Groups(w) = <<>> THEN O!AddGroup(w, <<>>, <<>>, 0) ELSE w IN
         in \in BodiesOver(U) /\ O!Groups(in) # <<>>
<1>1. /\ O!AddGroup(w, <<>>, <<>>, 0) \in BodiesOver(U)
      /\ O!Groups(O!AddGroup(w, <<>>, <<>>, 0)) # <<>>
  BY AddGroupFits DEF Grounded, Fits
<1> QED
  BY <1>1

LEMMA RecordsType ==
  ASSUME NEW U, NEW w, w \in BodiesOver(U), O!Groups(w) # <<>>
  PROVE  O!RecordsIn(w) \in Seq(Seq(U))
<1>1. Last(O!Groups(w)) \in GroupsOver(U)
  BY GroupsType, FrontIs
<1>2. Last(O!Groups(w)).records \in Seq(Seq(U))
  BY <1>1 DEF GroupsOver
<1> QED
  BY <1>2 DEF O!RecordsIn, O!Last, Last

AsOpen(v) == [v EXCEPT !.open = TRUE]

LEMMA AsOpenIs ==
  ASSUME NEW U, NEW v, v \in BodiesOver(U), TakesMore(v)
  PROVE  /\ Fits(AsOpen(v), U) /\ AsOpen(v).open = TRUE
         /\ O!RecordsIn(AsOpen(v)) = O!RecordsIn(v)
<1> DEFINE S == Seq(FilesOver(U))
           w == AsOpen(v)
<1>1. v \in [files : S, open : BOOLEAN]
  BY DEF BodiesOver
<1> HIDE DEF S
<1>2. w \in [files : S, open : BOOLEAN] /\ w.open = TRUE /\ w.files = v.files
  BY <1>1 DEF AsOpen
<1> HIDE DEF w
<1>3. w \in BodiesOver(U) /\ O!Groups(w) = O!Groups(v)
  BY <1>2 DEF BodiesOver, S, O!Groups
<1>4. O!RecordsIn(w) = O!RecordsIn(v)
  BY <1>3 DEF O!RecordsIn
<1>5. Fits(w, U)
  BY <1>2, <1>3, <1>4 DEF Fits, TakesMore
<1> QED
  BY <1>2, <1>4, <1>5 DEF w

LEMMA AddRecordFits ==
  ASSUME NEW U, Grounded(U), NEW w, w \in BodiesOver(U), NEW units \in Seq(U)
  PROVE  LET v == O!AddRecord(w, units) IN
         Fits(v, U) /\ v.open = TRUE /\ Meaning(v) = Len(units)
<1> DEFINE in == IF O!Groups(w) = <<>> THEN O!AddGroup(w, <<>>, <<>>, 0) ELSE w
           rs == Append(O!RecordsIn(in), units)
           v == WithRecords(in, rs)
<1>1. in \in BodiesOver(U) /\ O!Groups(in) # <<>> /\ in.files # <<>>
  BY GroupToAddTo DEF O!Groups
<1>2. O!AddRecord(w, units) =
        [in EXCEPT !.files[Len(in.files)].groups[Len(O!Groups(in))].records = Append(@, units),
                   !.open = TRUE]
  BY Zenon DEF O!AddRecord
<1> HIDE DEF in
<1>3. in.files[Len(in.files)].groups = O!Groups(in)
  BY <1>1 DEF O!Groups, O!Last
<1>4. O!Groups(in)[Len(O!Groups(in))] = Last(O!Groups(in)) /\ Last(O!Groups(in)).records = O!RecordsIn(in)
  BY DEF O!RecordsIn, O!Last, Last
<1>5. O!AddRecord(w, units) = AsOpen(v)
  BY <1>2, <1>3, <1>4 DEF AsOpen, WithRecords, WithGroups, ReplaceLast
<1>6. rs \in Seq(Seq(U)) /\ rs # <<>> /\ Last(rs) = units
  BY <1>1, RecordsType, AppendIs
<1> HIDE DEF rs
<1>7. v \in BodiesOver(U) /\ v.files # <<>> /\ O!Groups(v) # <<>> /\ O!RecordsIn(v) = rs
  BY <1>1, <1>6, WithRecordsIs
<1> HIDE DEF v
<1>8. Fits(AsOpen(v), U) /\ AsOpen(v).open = TRUE /\ O!RecordsIn(AsOpen(v)) = rs
  BY <1>6, <1>7, AsOpenIs DEF TakesMore
<1>9. O!OpenUnits(AsOpen(v)) = units
  BY <1>6, <1>8 DEF O!OpenUnits, O!Last, Last
<1> QED
  BY <1>5, <1>8, <1>9 DEF Meaning

LEMMA AddHeaderFits ==
  ASSUME NEW U, Grounded(U), NEW w, w \in BodiesOver(U), NEW names, <<names>> \in U
  PROVE  LET v == O!AddHeader(w, names) IN Fits(v, U) /\ v.open = FALSE
<1> DEFINE in == IF O!Groups(w) = <<>> THEN O!AddGroup(w, <<>>, <<>>, 0) ELSE w
           gs == O!Groups(in)
           g == [Last(gs) EXCEPT !.headers = <<names>>]
           hs == ReplaceLast(gs, g)
           v == WithGroups(in, hs)
<1>1. in \in BodiesOver(U) /\ O!Groups(in) # <<>> /\ in.files # <<>>
  BY GroupToAddTo DEF O!Groups
<1>2. O!AddHeader(w, names) = O!Close(
        [in EXCEPT !.files[Len(in.files)].groups[Len(O!Groups(in))].headers = <<names>>])
  BY Zenon DEF O!AddHeader
<1> HIDE DEF in
<1>3. in.files[Len(in.files)].groups = O!Groups(in)
  BY <1>1 DEF O!Groups, O!Last
<1>4. O!AddHeader(w, names) = O!Close(v)
  BY <1>2, <1>3 DEF WithGroups, ReplaceLast, Last
<1>5. gs \in Seq(GroupsOver(U)) /\ gs # <<>>
  BY <1>1, GroupsType
<1>6. g \in GroupsOver(U)
  <2> DEFINE R == Seq(Seq(U))
  <2>1. Last(gs) \in GroupsOver(U)
    BY <1>5, FrontIs
  <2>2. Last(gs) \in [depth : U, name : U, headers : U, records : R]
    BY <2>1 DEF GroupsOver
  <2> HIDE DEF R, gs
  <2> DEFINE h == <<names>>
  <2>3. h \in U
    OBVIOUS
  <2> HIDE DEF h
  <2>4. [Last(gs) EXCEPT !.headers = h] \in [depth : U, name : U, headers : U, records : R]
    BY <2>2, <2>3
  <2> QED
    BY <2>4 DEF GroupsOver, R, h
<1> HIDE DEF gs, g
<1>7. hs \in Seq(GroupsOver(U))
  BY <1>5, <1>6, ReplaceLastIs
<1> HIDE DEF hs
<1>8. v \in BodiesOver(U)
  BY <1>1, <1>7, WithGroupsIs
<1> HIDE DEF v
<1> QED
  BY <1>4, <1>8, CloseFits

(* One more unit, in the open record or in a new one. *)
LEMMA AddUnitFits ==
  ASSUME NEW U, Grounded(U), NEW w, Fits(w, U), NEW unit \in U
  PROVE  LET v == O!AddUnit(w, unit) IN
         Fits(v, U) /\ v.open = TRUE /\ Meaning(v) = Meaning(w) + 1
<1>1. w \in BodiesOver(U)
  BY DEF Fits
<1>2. CASE ~w.open
  <2>1. <<unit>> \in Seq(U) /\ Len(<<unit>>) = 1
    OBVIOUS
  <2>2. O!AddUnit(w, unit) = O!AddRecord(w, <<unit>>)
    BY <1>2, Zenon DEF O!AddUnit
  <2>3. Meaning(w) = 0
    BY <1>2 DEF Meaning
  <2> DEFINE units == <<unit>>
  <2> HIDE DEF units
  <2>4. units \in Seq(U) /\ Len(units) = 1 /\ O!AddUnit(w, unit) = O!AddRecord(w, units)
    BY <2>1, <2>2 DEF units
  <2>5. LET v == O!AddRecord(w, units) IN
        Fits(v, U) /\ v.open = TRUE /\ Meaning(v) = Len(units)
    BY <1>1, <2>4, AddRecordFits
  <2> QED
    BY <2>3, <2>4, <2>5
<1>3. CASE w.open
  <2> DEFINE us == O!OpenUnits(w)
             ws == Append(us, unit)
             rs == ReplaceLast(O!RecordsIn(w), ws)
             v == WithRecords(w, rs)
  <2>1. w.files # <<>> /\ O!Groups(w) # <<>> /\ O!RecordsIn(w) # <<>> /\ w.open = TRUE
    BY <1>1, <1>3 DEF Fits, TakesMore, BodiesOver
  <2>2. O!RecordsIn(w) \in Seq(Seq(U))
    BY <1>1, <2>1, RecordsType
  <2>3. us \in Seq(U) /\ us = Last(O!RecordsIn(w))
    <3>1. Last(O!RecordsIn(w)) \in Seq(U)
      BY <2>1, <2>2, FrontIs
    <3> QED
      BY <3>1 DEF O!OpenUnits, O!Last, Last
  <2>4. w.files[Len(w.files)].groups = O!Groups(w)
    BY <2>1 DEF O!Groups, O!Last
  <2>5. /\ O!Groups(w)[Len(O!Groups(w))] = Last(O!Groups(w))
        /\ Last(O!Groups(w)).records = O!RecordsIn(w)
        /\ O!RecordsIn(w)[Len(O!RecordsIn(w))] = us
    BY DEF O!RecordsIn, O!OpenUnits, O!Last, Last
  <2>6. O!AddUnit(w, unit) = v
    <3>1. O!AddUnit(w, unit) =
            [w EXCEPT !.files[Len(w.files)].groups[Len(O!Groups(w))].records[Len(O!RecordsIn(w))]
                 = Append(@, unit)]
      BY <1>3, Zenon DEF O!AddUnit
    <3> HIDE DEF us
    <3> QED
      BY <2>4, <2>5, <3>1 DEF WithRecords, WithGroups, ReplaceLast
  <2> HIDE DEF us
  <2>7. ws \in Seq(U) /\ Len(ws) = Len(us) + 1
    BY <2>3
  <2> HIDE DEF ws
  <2>8. rs \in Seq(Seq(U)) /\ rs # <<>> /\ Last(rs) = ws
    BY <2>1, <2>2, <2>7, ReplaceLastIs
  <2> HIDE DEF rs
  <2>9. /\ v \in BodiesOver(U) /\ v.open = w.open
        /\ v.files # <<>> /\ O!Groups(v) # <<>> /\ O!RecordsIn(v) = rs
    BY <1>1, <2>1, <2>8, WithRecordsIs
  <2> HIDE DEF v
  <2>10. O!OpenUnits(v) = ws
    BY <2>8, <2>9 DEF O!OpenUnits, O!Last, Last
  <2>11. Meaning(v) = Len(ws) /\ Meaning(w) = Len(us)
    BY <2>1, <2>9, <2>10 DEF Meaning, us
  <2> QED
    BY <2>1, <2>6, <2>7, <2>8, <2>9, <2>11 DEF Fits, TakesMore
<1> QED
  BY <1>2, <1>3
-----------------------------------------------------------------------------
(* The invariant: the builder waits for a code at the depth of the open    *)
(* levels, and every counter of its stack is that of the body around, of   *)
(* which the level is one more unit.                                       *)
FittingOver(U) == {w \in BodiesOver(U) : Fits(w, U)}

LevelMeant(i) ==
  IF place = "heading" /\ i = 1 THEN Level(FALSE, 1) ELSE Level(TRUE, Meaning(meant[i]) + 1)

CountsMeant ==
  /\ b.inRecord = Body.open
  /\ b.inRecord \/ ~InHeading => b.units = Meaning(Body)
  /\ \A i \in 1 .. Len(keys) : b.stack[i] = LevelMeant(i)

Listed == \E S : heading \in Seq(S)
Outlined == \E U : Grounded(U) /\ meant \in Seq(FittingOver(U))

Places == {"start", "heading", "body", "ended", "tail"}

Inv ==
  /\ words \in Vocabularies
  /\ b \in BuilderType
  /\ place \in Places
  /\ keys \in Seq(Seq(Seq(Byte)))
  /\ Listed
  /\ Outlined
  /\ Len(meant) = Len(keys) + 1
  /\ Len(b.stack) = Len(keys)
  /\ place = "tail" => keys = <<>> /\ b.units = 0
  /\ place # "tail" => Waits(b, b.inRecord, b.units, b.stack)
  /\ place = "heading" => meant[1].open = FALSE
  /\ place # "tail" /\ ~InDiff => CountsMeant

(* When the reader has the bytes the builder is done. *)
Ended == /\ tail # <<>> => place = "tail"
         /\ read # <<>> => Complete
         /\ calls \in 0 .. MaxCalls

LEMMA FittingGrows ==
  ASSUME NEW U, NEW W, U \subseteq W
  PROVE  Seq(FittingOver(U)) \subseteq Seq(FittingOver(W))
<1>1. FittingOver(U) \subseteq FittingOver(W)
  BY FitsGrows DEF FittingOver, Fits
<1> QED
  BY <1>1, SeqGrows

LEMMA Widened ==
  ASSUME Outlined, NEW E
  PROVE  \E U : Grounded(U) /\ meant \in Seq(FittingOver(U)) /\ E \subseteq U
<1>1. PICK U : Grounded(U) /\ meant \in Seq(FittingOver(U))
  BY Zenon DEF Outlined
<1> DEFINE W == U \cup E
<1>2. Grounded(W)
  BY <1>1 DEF Grounded
<1>3. meant \in Seq(FittingOver(W))
  <2>1. U \subseteq W
    OBVIOUS
  <2> HIDE DEF W
  <2> QED
    BY <1>1, <2>1, FittingGrows
<1> QED
  BY <1>2, <1>3

LEMMA MeaningIs ==
  ASSUME NEW U, NEW w \in FittingOver(U)
  PROVE  /\ Meaning(w) \in Nat /\ w.open \in BOOLEAN
         /\ (w.open = FALSE => Meaning(w) = 0) /\ UnitsOf(w.open, Meaning(w)) = Meaning(w)
<1>1. w \in BodiesOver(U) /\ (w.open => TakesMore(w))
  BY DEF FittingOver, Fits
<1>2. w.open \in BOOLEAN
  BY <1>1 DEF BodiesOver
<1>3. w.open = FALSE => Meaning(w) = 0
  BY DEF Meaning
<1>4. w.open = TRUE => Meaning(w) \in Nat
  <2> SUFFICES ASSUME w.open = TRUE PROVE Meaning(w) \in Nat
    OBVIOUS
  <2>1. O!RecordsIn(w) \in Seq(Seq(U)) /\ O!RecordsIn(w) # <<>>
    BY <1>1, RecordsType DEF TakesMore
  <2>2. Last(O!RecordsIn(w)) \in Seq(U)
    BY <2>1, FrontIs
  <2>3. O!OpenUnits(w) \in Seq(U)
    BY <2>2 DEF O!OpenUnits, O!Last, Last
  <2> QED
    BY <2>3 DEF Meaning
<1> QED
  BY <1>2, <1>3, <1>4 DEF UnitsOf

(* A diff remains one. *)
LEMMA DiffStays ==
  ASSUME InDiff, Listed, past' = past,
         heading' = heading \/ \E unit : heading' = Append(heading, unit)
  PROVE  InDiff'
<1>1. CASE \E i \in DOMAIN past : IsDiff(past[i].heading)
  BY <1>1 DEF InDiff
<1>2. CASE IsDiff(heading)
  <2>1. PICK S : heading \in Seq(S)
    BY Zenon DEF Listed
  <2>2. PICK i \in DOMAIN heading : heading[i] = O!ValueUnit(<<V!ShapeKey>>, V!DiffShape)
    BY <1>2, Zenon DEF IsDiff
  <2>3. heading' = heading => i \in DOMAIN heading' /\ heading'[i] = heading[i]
    OBVIOUS
  <2>4. ASSUME NEW unit, heading' = Append(heading, unit)
        PROVE  i \in DOMAIN heading' /\ heading'[i] = heading[i]
    <3>1. heading \in Seq(S \cup {unit}) /\ unit \in S \cup {unit}
      BY <2>1, SeqGrows
    <3> DEFINE R == S \cup {unit}
    <3> HIDE DEF R
    <3>2. heading \in Seq(R) /\ unit \in R
      BY <3>1 DEF R
    <3> QED
      BY <2>2, <2>4, <3>2
  <2>5. i \in DOMAIN heading' /\ heading'[i] = O!ValueUnit(<<V!ShapeKey>>, V!DiffShape)
    BY <2>2, <2>3, <2>4, Zenon
  <2>6. IsDiff(heading')
    BY <2>5, Zenon DEF IsDiff
  <2> QED
    BY <2>6, Zenon DEF InDiff
<1> QED
  BY <1>1, <1>2 DEF InDiff

LEMMA ListedStays ==
  ASSUME Listed, heading' = heading \/ \E unit : heading' = Append(heading, unit)
  PROVE  Listed'
<1>1. PICK S : heading \in Seq(S)
  BY Zenon DEF Listed
<1>2. CASE heading' = heading
  BY <1>1, <1>2, Zenon DEF Listed
<1>3. ASSUME NEW unit, heading' = Append(heading, unit)
      PROVE  Listed'
  <2> DEFINE R == S \cup {unit}
  <2>1. heading \in Seq(R) /\ unit \in R
    BY <1>1, SeqGrows
  <2> HIDE DEF R
  <2>2. heading' \in Seq(R)
    BY <1>3, <2>1
  <2> QED
    BY <2>2, Zenon DEF Listed
<1> QED
  BY <1>2, <1>3

LEMMA BodyIs ==
  ASSUME Inv, NEW U, meant \in Seq(FittingOver(U))
  PROVE  /\ Len(keys) \in Nat /\ meant # <<>> /\ Body \in FittingOver(U)
         /\ Front(meant) \in Seq(FittingOver(U)) /\ Len(Front(meant)) = Len(keys)
         /\ \A i \in 1 .. Len(keys) : Front(meant)[i] = meant[i]
         /\ Body = meant[Len(keys) + 1]
<1> DEFINE F == FittingOver(U)
           k == Len(keys)
<1>1. k \in Nat /\ Len(meant) = k + 1 /\ meant \in Seq(F)
  BY DEF Inv
<1> HIDE DEF F, k
<1>2. meant # <<>> /\ Len(meant) - 1 = k
  BY <1>1
<1>3. /\ Front(meant) \in Seq(F) /\ Len(Front(meant)) = Len(meant) - 1
      /\ Last(meant) \in F /\ Last(meant) = meant[Len(meant)]
      /\ \A i \in 1 .. (Len(meant) - 1) : Front(meant)[i] = meant[i]
  BY <1>1, <1>2, FrontIs
<1> QED
  BY <1>1, <1>2, <1>3 DEF F, k, Body

LEMMA UnitsMeant ==
  ASSUME Inv, place # "tail", ~InDiff
  PROVE  b.inRecord = Body.open /\ UnitsOf(b.inRecord, b.units) = Meaning(Body)
<1>1. CountsMeant
  BY DEF Inv
<1>2. b.inRecord \in BOOLEAN
  BY DEF Inv, BuilderType
<1> QED
  BY <1>1, <1>2 DEF CountsMeant, UnitsOf, Meaning

LEMMA WaitsNow ==
  ASSUME Inv, place # "tail"
  PROVE  /\ Waits(b, b.inRecord, b.units, b.stack)
         /\ b.inRecord \in BOOLEAN /\ b.units \in Nat /\ b.stack \in Levels
         /\ Len(b.stack) = Len(keys) /\ (keys = <<>> <=> b.stack = <<>>)
<1>1. b \in BuilderType /\ keys \in Seq(Seq(Seq(Byte))) /\ Len(b.stack) = Len(keys)
  BY DEF Inv
<1>2. b.inRecord \in BOOLEAN /\ b.units \in Nat /\ b.stack \in Levels
  BY <1>1 DEF BuilderType, Levels
<1>3. keys = <<>> <=> b.stack = <<>>
  BY <1>1, <1>2 DEF Levels
<1> QED
  BY <1>1, <1>2, <1>3 DEF Inv

(* What a call leaves that is not about the body alone. *)
LEMMA WaitsNext ==
  ASSUME NEW r, NEW u, NEW s, Waits(b', r, u, s)
  PROVE  /\ b' \in BuilderType /\ Waits(b', b'.inRecord, b'.units, b'.stack)
         /\ b'.inRecord = r /\ b'.units = u /\ b'.stack = s
BY DEF Waits, IsAt

(* A call that changes the body at hand. *)
LEMMA BodyStep ==
  ASSUME Inv, Call, NEW w, SetMeant(Append(Front(meant), w)), keys' = keys,
         NEW U, Grounded(U), meant \in Seq(FittingOver(U)),
         w \in FittingOver(U), NEW r, NEW u, Waits(b', r, u, b.stack),
         ~InDiff => r = w.open /\ u = Meaning(w)
  PROVE  Inv'
<1>1. /\ place \in Places /\ place # "tail" /\ words' = words /\ keys' = keys /\ past' = past
      /\ meant' = Append(Front(meant), w) /\ heading' = heading
      /\ place' = IF keys = <<>> THEN "body" ELSE place
  BY DEF Inv, Call, Counted, SetMeant
<1> DEFINE F == FittingOver(U)
           k == Len(keys)
<1>2. /\ k \in Nat /\ meant # <<>> /\ Front(meant) \in Seq(F) /\ Len(Front(meant)) = k
      /\ \A i \in 1 .. k : Front(meant)[i] = meant[i]
  BY BodyIs
<1>3. w \in F /\ (keys # <<>> => k > 0) /\ keys \in Seq(Seq(Seq(Byte)))
  BY DEF Inv
<1> HIDE DEF F, k
<1>4. meant' \in Seq(F) /\ Len(meant') = k + 1 /\ Last(meant') = w
  BY <1>1, <1>2, <1>3, AppendIs
<1>5. \A i \in 1 .. k : meant'[i] = meant[i]
  BY <1>1, <1>2, <1>3
<1>6. Outlined'
  BY <1>4, Zenon DEF Outlined, F
<1>7. Listed'
  <2>1. Listed
    BY DEF Inv
  <2> QED
    BY <1>1, <2>1, ListedStays
<1>8. InDiff => InDiff'
  <2>1. Listed
    BY DEF Inv
  <2> QED
    BY <1>1, <2>1, DiffStays
<1>9. /\ b' \in BuilderType /\ Waits(b', b'.inRecord, b'.units, b'.stack)
      /\ b'.inRecord = r /\ b'.units = u /\ b'.stack = b.stack
  BY WaitsNext
<1>10. /\ place' \in Places /\ place' # "tail"
       /\ (place' = "heading" => place = "heading" /\ keys # <<>>)
       /\ (keys # <<>> => place' = place)
  BY <1>1 DEF Places
<1>11. place' = "heading" => meant'[1].open = FALSE
  <2>1. place = "heading" => meant[1].open = FALSE
    BY DEF Inv
  <2>2. keys # <<>> => 1 \in 1 .. k
    BY <1>2, <1>3
  <2> QED
    BY <1>5, <1>10, <2>1, <2>2
<1>12. ~InDiff' => CountsMeant'
  <2> SUFFICES ASSUME ~InDiff' PROVE CountsMeant'
    OBVIOUS
  <2>1. CountsMeant /\ r = w.open /\ u = Meaning(w)
    BY <1>1, <1>8 DEF Inv
  <2>2. Body' = w
    BY <1>4 DEF Body
  <2>3. b'.inRecord = Body'.open /\ b'.units = Meaning(Body')
    BY <1>9, <2>1, <2>2
  <2>4. ASSUME NEW i \in 1 .. k
        PROVE  b'.stack[i] = LevelMeant(i)'
    <3>1. b.stack[i] = LevelMeant(i)
      BY <2>1 DEF CountsMeant, k
    <3>2. keys # <<>>
      <4>1. k # 0
        BY <1>2
      <4> QED
        BY <4>1 DEF k
    <3>3. meant'[i] = meant[i] /\ place' = place
      BY <1>5, <1>10, <3>2
    <3> QED
      BY <1>9, <3>1, <3>3 DEF LevelMeant
  <2>5. \A i \in 1 .. Len(keys') : b'.stack[i] = LevelMeant(i)'
    BY <1>1, <2>4 DEF k
  <2> QED
    BY <2>3, <2>5 DEF CountsMeant
<1>13. /\ words' \in Vocabularies /\ keys' \in Seq(Seq(Seq(Byte))) /\ Len(meant') = Len(keys') + 1
       /\ Len(b'.stack) = Len(keys')
  BY <1>1, <1>4, <1>9 DEF Inv, k
<1> QED
  BY <1>6, <1>7, <1>9, <1>10, <1>11, <1>12, <1>13 DEF Inv

(* A call that changes the builder alone, or adds a pair to the heading. *)
LEMMA QuietStep ==
  ASSUME Inv, Call, UNCHANGED <<place, meant, keys, past>>,
         heading' = heading \/ \E unit : heading' = Append(heading, unit),
         NEW r, NEW u, Waits(b', r, u, b.stack),
         ~InDiff => r = b.inRecord /\ (u = b.units \/ (InHeading /\ ~r))
  PROVE  Inv'
<1>1. place # "tail" /\ words' = words /\ Listed
  BY DEF Inv, Call, Counted
<1>2. Listed' /\ (InDiff => InDiff')
  BY <1>1, ListedStays, DiffStays
<1>3. /\ b' \in BuilderType /\ Waits(b', b'.inRecord, b'.units, b'.stack)
      /\ b'.inRecord = r /\ b'.units = u /\ b'.stack = b.stack
  BY WaitsNext
<1>4. Outlined'
  BY DEF Inv, Outlined
<1>5. ~InDiff' => CountsMeant'
  <2> SUFFICES ASSUME ~InDiff' PROVE CountsMeant'
    OBVIOUS
  <2>1. CountsMeant /\ r = b.inRecord /\ (u = b.units \/ (InHeading /\ ~r))
    BY <1>1, <1>2 DEF Inv
  <2>2. Body' = Body /\ InHeading' = InHeading /\ \A i : LevelMeant(i)' = LevelMeant(i)
    BY DEF Body, InHeading, LevelMeant
  <2>3. b'.inRecord = Body'.open
    BY <1>3, <2>1, <2>2 DEF CountsMeant
  <2>4. b'.inRecord \/ ~InHeading' => b'.units = Meaning(Body')
    BY <1>3, <2>1, <2>2 DEF CountsMeant
  <2>5. \A i \in 1 .. Len(keys') : b'.stack[i] = LevelMeant(i)'
    BY <1>3, <2>1, <2>2 DEF CountsMeant
  <2> QED
    BY <2>3, <2>4, <2>5 DEF CountsMeant
<1> QED
  BY <1>1, <1>2, <1>3, <1>4, <1>5 DEF Inv

(* The level a call opens is meant to be one unit more of the body at hand. *)
LEMMA LevelStep ==
  ASSUME Inv, Call, meant' = Append(meant, O!EmptyBody),
         NEW key \in Seq(Seq(Byte)), keys' = Append(keys, key),
         UNCHANGED <<heading, past>>,
         place' = place \/ (keys = <<>> /\ place' = "body"),
         NEW level, Waits(b', FALSE, 0, Append(b.stack, level)),
         ~InDiff => level = IF keys = <<>> /\ place' = "heading" THEN Level(FALSE, 1)
                            ELSE Level(TRUE, Meaning(Body) + 1)
  PROVE  Inv'
<1> DEFINE k == Len(keys)
           s == b.stack
           t == Append(s, level)
<1>1. place # "tail" /\ words' = words /\ place \in Places /\ Listed /\ past' = past
      /\ heading' = heading
  BY DEF Inv, Call, Counted
<1>2. PICK U : Grounded(U) /\ meant \in Seq(FittingOver(U))
  BY Zenon DEF Inv, Outlined
<1> DEFINE F == FittingOver(U)
<1>3. /\ k \in Nat /\ meant # <<>> /\ Body = meant[k + 1] /\ Len(meant) = k + 1
      /\ keys \in Seq(Seq(Seq(Byte)))
  BY <1>2, BodyIs DEF Inv
<1>4. O!EmptyBody \in F /\ O!EmptyBody.open = FALSE /\ meant \in Seq(F)
  BY <1>2, EmptyFits DEF FittingOver, Fits
<1>5. /\ b' \in BuilderType /\ Waits(b', b'.inRecord, b'.units, b'.stack)
      /\ b'.inRecord = FALSE /\ b'.units = 0 /\ b'.stack = t
  BY WaitsNext
<1>6. s \in Levels /\ Len(s) = k
  BY <1>1, WaitsNow
<1>7. Len(t) = k + 1 /\ \A i \in 1 .. (k + 1) : t[i] = IF i = k + 1 THEN level ELSE s[i]
  <2> DEFINE R == [inRecord : BOOLEAN, units : Nat] \cup {level}
  <2>1. s \in Seq(R) /\ level \in R
    <3>1. Seq([inRecord : BOOLEAN, units : Nat]) \subseteq Seq(R)
      BY SeqGrows
    <3> QED
      BY <1>6, <3>1 DEF Levels
  <2> HIDE DEF R, s
  <2> QED
    BY <1>6, <1>3, <2>1
<1> HIDE DEF F, s, t
<1>8. /\ meant' \in Seq(F) /\ Len(meant') = k + 2 /\ Last(meant') = O!EmptyBody
      /\ \A i \in 1 .. (k + 1) : meant'[i] = meant[i]
  <2> DEFINE e == O!EmptyBody
  <2>1. e \in F /\ meant' = Append(meant, e)
    BY <1>4
  <2> HIDE DEF e, k
  <2>2. meant' \in Seq(F) /\ Len(meant') = Len(meant) + 1 /\ Last(meant') = e
    BY <1>4, <2>1, AppendIs
  <2>3. \A i \in 1 .. (k + 1) : meant'[i] = meant[i]
    BY <1>3, <1>4, <2>1
  <2> QED
    BY <1>3, <2>2, <2>3 DEF e
<1>9. keys' \in Seq(Seq(Seq(Byte))) /\ Len(keys') = k + 1 /\ keys' # <<>>
  <2>1. keys' \in Seq(Seq(Seq(Byte))) /\ keys' # <<>> /\ Len(keys') = Len(keys) + 1
    BY <1>3, AppendIs
  <2> QED
    BY <2>1
<1> HIDE DEF k
<1>10. Outlined'
  BY <1>2, <1>8, Zenon DEF Outlined, F
<1>11. Listed' /\ (InDiff => InDiff')
  BY <1>1, ListedStays, DiffStays
<1>12. place' \in Places /\ place' # "tail" /\ (place' = "heading" => place = "heading")
       /\ (keys # <<>> => place' = place)
  BY <1>1 DEF Places
<1>13. place' = "heading" => meant'[1].open = FALSE
  <2>1. place = "heading" => meant[1].open = FALSE
    BY DEF Inv
  <2>2. 1 \in 1 .. (k + 1)
    BY <1>3
  <2> QED
    BY <1>8, <1>12, <2>1, <2>2
<1>14. ~InDiff' => CountsMeant'
  <2> SUFFICES ASSUME ~InDiff' PROVE CountsMeant'
    OBVIOUS
  <2>1. CountsMeant /\ ~InDiff
    BY <1>1, <1>11 DEF Inv
  <2>2. Body' = O!EmptyBody /\ Meaning(Body') = 0
    BY <1>4, <1>8 DEF Body, Meaning
  <2>3. b'.inRecord = Body'.open /\ b'.units = Meaning(Body')
    BY <1>4, <1>5, <2>2
  <2>4. ASSUME NEW i \in 1 .. (k + 1)
        PROVE  b'.stack[i] = LevelMeant(i)'
    <3>1. LevelMeant(i)' = IF place' = "heading" /\ i = 1 THEN Level(FALSE, 1)
                           ELSE Level(TRUE, Meaning(meant[i]) + 1)
      BY <1>8 DEF LevelMeant
    <3>2. CASE i = k + 1
      <4>1. i = 1 <=> keys = <<>>
        BY <1>3, <3>2 DEF k
      <4>2. b'.stack[i] = level
        BY <1>5, <1>7, <3>2
      <4>3. meant[i] = Body
        BY <1>3, <3>2
      <4> QED
        BY <2>1, <3>1, <4>1, <4>2, <4>3
    <3>3. CASE i # k + 1
      <4>1. i \in 1 .. k /\ b'.stack[i] = s[i]
        BY <1>3, <1>5, <1>7, <3>3
      <4>2. s[i] = LevelMeant(i)
        BY <2>1, <4>1 DEF CountsMeant, k, s
      <4>3. place' = place
        <5>1. k # 0
          BY <1>3, <4>1
        <5> QED
          BY <1>12, <5>1 DEF k
      <4> QED
        BY <3>1, <4>1, <4>2, <4>3 DEF LevelMeant
    <3> QED
      BY <3>2, <3>3
  <2>5. \A i \in 1 .. Len(keys') : b'.stack[i] = LevelMeant(i)'
    BY <1>9, <2>4
  <2> QED
    BY <2>3, <2>5 DEF CountsMeant
<1>15. words' \in Vocabularies /\ Len(meant') = Len(keys') + 1 /\ Len(b'.stack) = Len(keys')
  <2>1. k + 2 = (k + 1) + 1
    BY <1>3
  <2> QED
    BY <1>1, <1>5, <1>7, <1>8, <1>9, <2>1 DEF Inv
<1> QED
  BY <1>5, <1>9, <1>10, <1>11, <1>12, <1>13, <1>14, <1>15 DEF Inv

(* The end of a level: a pair of the heading, or a unit of the body around. *)
LEMMA CloseStep ==
  ASSUME Inv, DoCloseLevel
  PROVE  Inv'
<1> DEFINE k == Len(keys)
           s == b.stack
           outer == meant[Len(meant) - 1]
           unit == O!LevelUnit(Last(keys), O!Normal(Body.files))
           ofHeading == place = "heading" /\ Len(keys) = 1
           v == IF ofHeading THEN outer ELSE O!AddUnit(outer, unit)
           rest == Front(Front(meant))
<1>1. /\ keys # <<>> /\ b' = PutCAN(b) /\ meant' = Append(rest, v)
      /\ heading' = (IF ofHeading THEN Append(heading, unit) ELSE heading)
      /\ keys' = Front(keys)
      /\ place' = place /\ past' = past /\ words' = words
  BY DEF DoCloseLevel
<1>2. place # "tail" /\ place \in Places /\ Listed
  BY <1>1 DEF Inv
<1>3. PICK U : Grounded(U) /\ meant \in Seq(FittingOver(U)) /\ {unit} \subseteq U
  <2>1. Outlined
    BY DEF Inv
  <2> HIDE DEF unit
  <2> QED
    BY <2>1, Widened, Zenon
<1> DEFINE F == FittingOver(U)
<1> HIDE DEF unit, rest
<1>4. /\ k \in Nat \ {0} /\ meant \in Seq(F) /\ meant # <<>> /\ Len(meant) = k + 1
      /\ Front(meant) \in Seq(F) /\ Len(Front(meant)) = k
      /\ \A i \in 1 .. k : Front(meant)[i] = meant[i]
  <2>1. keys \in Seq(Seq(Seq(Byte))) /\ Len(meant) = k + 1
    BY DEF Inv
  <2>2. Len(keys) # 0 /\ Len(keys) \in Nat
    BY <1>1, <2>1
  <2> QED
    BY <1>3, <2>1, <2>2, BodyIs
<1> HIDE DEF F
<1>5. outer = meant[k] /\ outer \in F
  BY <1>4
<1>6. /\ rest \in Seq(F) /\ Len(rest) = k - 1 /\ \A i \in 1 .. (k - 1) : rest[i] = meant[i]
  <2> DEFINE fr == Front(meant)
  <2>1. fr \in Seq(F) /\ fr # <<>> /\ Len(fr) = k /\ \A i \in 1 .. k : fr[i] = meant[i]
    BY <1>4
  <2> HIDE DEF fr, k
  <2>2. /\ Front(fr) \in Seq(F) /\ Len(Front(fr)) = Len(fr) - 1
        /\ \A i \in 1 .. (Len(fr) - 1) : Front(fr)[i] = fr[i]
    BY <2>1, FrontIs
  <2>3. \A i \in 1 .. (k - 1) : i \in 1 .. k
    BY <1>4
  <2> QED
    BY <2>1, <2>2, <2>3 DEF rest, fr
<1>7. /\ v \in F /\ v.open \in BOOLEAN
      /\ ~ofHeading => v.open = TRUE /\ Meaning(v) = Meaning(outer) + 1
      /\ ofHeading => v = outer
  <2>1. unit \in U /\ Fits(outer, U) /\ Grounded(U)
    BY <1>3, <1>5 DEF F, FittingOver
  <2> HIDE DEF ofHeading, outer
  <2>2. LET w == O!AddUnit(outer, unit) IN
        Fits(w, U) /\ w.open = TRUE /\ Meaning(w) = Meaning(outer) + 1
    BY <2>1, AddUnitFits
  <2>3. v \in F
    BY <1>5, <2>2 DEF F, FittingOver, Fits
  <2>4. v.open \in BOOLEAN
    BY <2>3, MeaningIs DEF F
  <2> QED
    BY <2>2, <2>3, <2>4
<1> HIDE DEF v, outer
<1>8. /\ meant' \in Seq(F) /\ Len(meant') = k /\ Last(meant') = v
      /\ \A i \in 1 .. (k - 1) : meant'[i] = meant[i]
  <2> HIDE DEF k
  <2>1. meant' \in Seq(F) /\ Len(meant') = Len(rest) + 1 /\ Last(meant') = v
    BY <1>1, <1>6, <1>7, AppendIs
  <2>2. \A i \in 1 .. (k - 1) : meant'[i] = rest[i]
    BY <1>1, <1>4, <1>6, <1>7
  <2> QED
    BY <1>4, <1>6, <2>1, <2>2
<1>9. keys' \in Seq(Seq(Seq(Byte))) /\ Len(keys') = k - 1 /\ k - 1 \in Nat
  <2>1. keys \in Seq(Seq(Seq(Byte)))
    BY DEF Inv
  <2> QED
    BY <1>1, <2>1, FrontIs
<1>10. /\ s \in Levels /\ s # <<>> /\ Len(s) = k /\ Front(s) \in Levels /\ Len(Front(s)) = k - 1
       /\ Last(s) = s[k] /\ \A i \in 1 .. (k - 1) : Front(s)[i] = s[i]
       /\ Waits(b, b.inRecord, b.units, s)
  <2>1. s \in Levels /\ s # <<>> /\ Len(s) = k /\ Waits(b, b.inRecord, b.units, s)
    BY <1>1, <1>2, WaitsNow
  <2> HIDE DEF s, k
  <2> QED
    BY <2>1, FrontIs DEF Levels
<1>11. /\ b' \in BuilderType /\ Waits(b', b'.inRecord, b'.units, b'.stack)
       /\ b'.inRecord = Last(s).inRecord /\ b'.units = Last(s).units /\ b'.stack = Front(s)
  <2>1. Waits(b', Last(s).inRecord, Last(s).units, Front(s))
    BY <1>1, <1>10, PutCANStands, StandsWaits
  <2> QED
    BY <2>1, WaitsNext
<1>12. Outlined'
  BY <1>3, <1>8, Zenon DEF Outlined, F
<1>13. Listed' /\ (InDiff => InDiff')
  <2>1. heading' = heading \/ \E u : heading' = Append(heading, u)
    BY <1>1
  <2> QED
    BY <1>1, <1>2, <2>1, ListedStays, DiffStays
<1>14. place = "heading" => meant'[1].open = FALSE
  <2> SUFFICES ASSUME place = "heading" PROVE meant'[1].open = FALSE
    OBVIOUS
  <2>1. meant[1].open = FALSE
    BY DEF Inv
  <2>2. CASE k = 1
    <3>1. meant'[1] = v /\ ofHeading
      BY <1>8, <2>2 DEF Last
    <3> QED
      BY <1>5, <1>7, <2>1, <2>2, <3>1
  <2>3. CASE k # 1
    <3>1. 1 \in 1 .. (k - 1)
      BY <1>4, <2>3
    <3> QED
      BY <1>8, <2>1, <3>1
  <2> QED
    BY <2>2, <2>3
<1>15. ~InDiff' => CountsMeant'
  <2> SUFFICES ASSUME ~InDiff' PROVE CountsMeant'
    OBVIOUS
  <2>1. CountsMeant
    BY <1>2, <1>13 DEF Inv
  <2>2. Body' = v
    BY <1>8 DEF Body
  <2>3. Last(s) = LevelMeant(k)
    BY <1>4, <1>10, <2>1 DEF CountsMeant
  <2>4. b'.inRecord = Body'.open /\ (b'.inRecord \/ ~InHeading' => b'.units = Meaning(Body'))
    <3>1. CASE ofHeading
      <4>1. Last(s) = Level(FALSE, 1)
        BY <2>3, <3>1 DEF LevelMeant
      <4>2. v.open = FALSE
        BY <1>1, <1>8, <1>14, <2>2, <3>1 DEF Last
      <4>3. InHeading'
        <5>1. keys' = <<>>
          BY <1>9, <3>1
        <5> QED
          BY <1>1, <3>1, <5>1 DEF InHeading
      <4>4. Last(s).inRecord = FALSE
        BY <4>1 DEF Level
      <4>5. b'.inRecord = FALSE /\ Body'.open = FALSE
        BY <1>11, <2>2, <4>2, <4>4
      <4> QED
        BY <4>3, <4>5
    <3>2. CASE ~ofHeading
      <4>1. Last(s) = Level(TRUE, Meaning(outer) + 1)
        BY <1>5, <2>3, <3>2 DEF LevelMeant
      <4>2. Last(s).inRecord = TRUE /\ Last(s).units = Meaning(outer) + 1
        BY <4>1 DEF Level
      <4>3. b'.inRecord = TRUE /\ b'.units = Meaning(outer) + 1
        BY <1>11, <4>2
      <4>4. Body'.open = TRUE /\ Meaning(Body') = Meaning(outer) + 1
        BY <1>7, <2>2, <3>2
      <4> QED
        BY <4>3, <4>4
    <3> QED
      BY <3>1, <3>2
  <2>5. ASSUME NEW i \in 1 .. (k - 1)
        PROVE  b'.stack[i] = LevelMeant(i)'
    <3>1. s[i] = LevelMeant(i)
      BY <1>4, <2>1 DEF CountsMeant
    <3>2. meant'[i] = meant[i] /\ b'.stack[i] = s[i]
      BY <1>8, <1>10, <1>11
    <3> QED
      BY <1>1, <3>1, <3>2 DEF LevelMeant
  <2>6. \A i \in 1 .. Len(keys') : b'.stack[i] = LevelMeant(i)'
    BY <1>9, <2>5
  <2> QED
    BY <2>4, <2>6 DEF CountsMeant
<1>16. words' \in Vocabularies /\ Len(meant') = Len(keys') + 1 /\ Len(b'.stack) = Len(keys')
  BY <1>1, <1>4, <1>8, <1>9, <1>10, <1>11 DEF Inv
<1>17. place' \in Places /\ place' # "tail" /\ (place' = "heading" => meant'[1].open = FALSE)
  BY <1>1, <1>2, <1>14
<1> QED
  BY <1>9, <1>11, <1>12, <1>13, <1>15, <1>16, <1>17 DEF Inv

(* A call that begins or ends a part of the document, outside of levels. *)
LEMMA PartStep ==
  ASSUME Inv, keys = <<>>, UNCHANGED <<keys, words>>, NEW U, Grounded(U),
         NEW w \in FittingOver(U), w.open = FALSE, meant' = <<w>>, Listed', place' \in Places,
         IsAt(b', FALSE, 0, <<>>), place' # "tail" => Waits(b', FALSE, 0, <<>>)
  PROVE  Inv'
<1>1. /\ b' \in BuilderType /\ b'.inRecord = FALSE /\ b'.units = 0 /\ b'.stack = <<>>
      /\ (place' # "tail" => Waits(b', b'.inRecord, b'.units, b'.stack))
  BY DEF IsAt
<1>2. Outlined'
  <2>1. meant' \in Seq(FittingOver(U))
    OBVIOUS
  <2> QED
    BY <2>1, Zenon DEF Outlined
<1>3. meant'[1] = w /\ Len(meant') = 1 /\ Body' = w
  BY DEF Body, Last
<1>4. Len(keys') = 0 /\ Len(b'.stack) = 0 /\ keys' \in Seq(Seq(Seq(Byte)))
  BY <1>1
<1>5. CountsMeant'
  <2>1. Meaning(w) = 0
    BY DEF Meaning
  <2>2. \A i \in 1 .. Len(keys') : b'.stack[i] = LevelMeant(i)'
    BY <1>4
  <2> QED
    BY <1>1, <1>3, <2>1, <2>2 DEF CountsMeant
<1>6. words' \in Vocabularies /\ Len(meant') = Len(keys') + 1 /\ Len(b'.stack) = Len(keys')
  BY <1>3, <1>4 DEF Inv
<1> QED
  BY <1>1, <1>2, <1>3, <1>4, <1>5, <1>6 DEF Inv

(* A call of a diff, which has no records to count. *)
LEMMA EditStep ==
  ASSUME Inv, DiffCall, UNCHANGED <<heading, meant, keys, past>>, place' = "body",
         NEW r, NEW u, Waits(b', r, u, b.stack)
  PROVE  Inv'
<1>1. words' = words /\ keys = <<>> /\ InDiff
  BY DEF DiffCall, Call, Counted, InDiff
<1>2. InDiff'
  BY <1>1 DEF InDiff
<1>3. /\ b' \in BuilderType /\ Waits(b', b'.inRecord, b'.units, b'.stack)
      /\ b'.inRecord = r /\ b'.units = u /\ b'.stack = b.stack
  BY WaitsNext
<1>4. Outlined' /\ Listed'
  BY DEF Inv, Outlined, Listed
<1>5. Len(meant') = Len(keys') + 1 /\ Len(b'.stack) = Len(keys')
  BY <1>3 DEF Inv
<1> QED
  BY <1>1, <1>2, <1>3, <1>4, <1>5 DEF Inv, Places

LEMMA WordsAre ==
  ASSUME words \in Vocabularies
  PROVE  /\ words.values \subseteq Seq(Byte) /\ words.names \subseteq Seq(Byte)
         /\ words.tails \subseteq Seq(Byte)
         /\ \A table \in words.tables :
              table.columns \in Seq(Seq(Byte)) /\ table.rows \in Seq(Seq(Seq(Byte)))
BY VocabulariesAssumption DEF IsVocabulary

LEMMA NewBuilderWaits == Waits(NewBuilder, FALSE, 0, <<>>)
<1> DEFINE bytes == <<>>
<1>1. bytes \in Seq(Byte) /\ bytes \in Seq([inRecord : BOOLEAN, units : Nat]) /\ Len(bytes) = 0
  OBVIOUS
<1>2. IsAt(NewBuilder, FALSE, 0, <<>>) /\ NewBuilder.buf = <<>>
  BY <1>1 DEF NewBuilder, IsAt, BuilderType, Errors
<1>3. Stands(NewBuilder, FALSE, 0, <<>>)
  BY <1>1, <1>2, NothingRests DEF Stands
<1> QED
  BY <1>3, StandsWaits

LEMMA InvInit ==
  ASSUME Init
  PROVE  Inv
<1> DEFINE none == <<>>
           bodies == <<O!EmptyBody>>
           U == {<<>>, 0}
<1>1. /\ b = NewBuilder /\ place = "start" /\ heading = none /\ meant = bodies
      /\ keys = none /\ words \in Vocabularies
  BY DEF Init
<1>2. /\ b \in BuilderType /\ Waits(b, b.inRecord, b.units, b.stack)
      /\ b.inRecord = FALSE /\ b.units = 0 /\ b.stack = <<>>
  BY <1>1, NewBuilderWaits DEF Waits, IsAt
<1>3. keys \in Seq(Seq(Seq(Byte))) /\ Len(keys) = 0 /\ Len(b.stack) = 0
  BY <1>1, <1>2
<1>4. Listed
  <2>1. heading \in Seq({})
    BY <1>1
  <2> QED
    BY <2>1, Zenon DEF Listed
<1>5. O!EmptyBody \in FittingOver(U) /\ O!EmptyBody.open = FALSE
  BY EmptyFits DEF FittingOver, Fits
<1>6. Outlined
  <2>1. Grounded(U)
    BY DEF Grounded
  <2>2. meant \in Seq(FittingOver(U))
    BY <1>1, <1>5
  <2> HIDE DEF U
  <2> QED
    BY <2>1, <2>2, Zenon DEF Outlined
<1>7. Len(meant) = 1 /\ Body = O!EmptyBody /\ Meaning(Body) = 0
  BY <1>1, <1>5 DEF Body, Last, Meaning
<1>8. CountsMeant
  <2>1. \A i \in 1 .. Len(keys) : b.stack[i] = LevelMeant(i)
    BY <1>3
  <2> QED
    BY <1>2, <1>5, <1>7, <2>1 DEF CountsMeant
<1> QED
  BY <1>1, <1>2, <1>3, <1>4, <1>6, <1>7, <1>8 DEF Inv, Places
-----------------------------------------------------------------------------
(* Every call keeps the invariant. *)
LEMMA BodyAtHand ==
  ASSUME Inv, NEW E
  PROVE  \E U : /\ Grounded(U) /\ meant \in Seq(FittingOver(U)) /\ E \subseteq U
                /\ Fits(Body, U) /\ Body \in BodiesOver(U)
                /\ UnitsOf(Body.open, Meaning(Body)) = Meaning(Body)
<1>1. Outlined
  BY DEF Inv
<1>2. PICK U : Grounded(U) /\ meant \in Seq(FittingOver(U)) /\ E \subseteq U
  BY <1>1, Widened, Zenon
<1>3. Body \in FittingOver(U)
  BY <1>2, BodyIs
<1>4. Fits(Body, U) /\ Body \in BodiesOver(U) /\ UnitsOf(Body.open, Meaning(Body)) = Meaning(Body)
  BY <1>3, MeaningIs DEF FittingOver
<1> QED
  BY <1>2, <1>4, Zenon

LEMMA ClosedBody ==
  ASSUME NEW U, NEW w, Fits(w, U), w.open = FALSE
  PROVE  w \in FittingOver(U) /\ FALSE = w.open /\ 0 = Meaning(w)
BY DEF Fits, FittingOver, Meaning

LEMMA CallWaits ==
  ASSUME Inv, Call
  PROVE  /\ place # "tail" /\ words \in Vocabularies /\ b.stack \in Levels
         /\ Waits(b, b.inRecord, b.units, b.stack)
         /\ b.inRecord \in BOOLEAN /\ b.units \in Nat
BY WaitsNow DEF Inv, Call

LEMMA FileStep ==
  ASSUME Inv, NEW name \in Seq(Byte), DoFile(name)
  PROVE  Inv'
<1>1. Call /\ b' = PutFS(b, name) /\ SetBody(O!AddFile(Body, name))
  BY DEF DoFile, DataCall
<1>2. PICK U : /\ Grounded(U) /\ meant \in Seq(FittingOver(U)) /\ {name} \subseteq U
               /\ Body \in BodiesOver(U)
  BY BodyAtHand, Zenon
<1> DEFINE w == O!AddFile(Body, name)
<1>3. Fits(w, U) /\ w.open = FALSE
  BY <1>2, AddFileFits
<1> HIDE DEF w
<1>4. w \in FittingOver(U) /\ FALSE = w.open /\ 0 = Meaning(w)
  BY <1>3, ClosedBody
<1>5. Waits(b', FALSE, 0, b.stack)
  BY <1>1, CallWaits, PutFSStands, StandsWaits
<1> QED
  BY <1>1, <1>2, <1>4, <1>5, BodyStep DEF SetBody, w

LEMMA GroupStep ==
  ASSUME Inv, NEW name \in Seq(Byte), NEW depth \in Nat \ {0}, NEW headers,
         headers # <<>> => headers[1] \in Seq(Seq(Byte)), DoGroup(name, headers, depth)
  PROVE  Inv'
<1> DEFINE w == O!AddGroup(Body, name, headers, depth)
<1>1. Call /\ b' = GroupAt(b, name, headers, depth) /\ SetBody(w)
  BY DEF DoGroup, DataCall
<1>2. PICK U : /\ Grounded(U) /\ meant \in Seq(FittingOver(U)) /\ {name, headers, depth} \subseteq U
               /\ Body \in BodiesOver(U)
  BY BodyAtHand, Zenon
<1>3. Fits(w, U) /\ w.open = FALSE
  <2>1. name \in U /\ headers \in U /\ depth \in U
    BY <1>2
  <2> QED
    BY <1>2, <2>1, AddGroupFits
<1> HIDE DEF w
<1>4. w \in FittingOver(U) /\ FALSE = w.open /\ 0 = Meaning(w)
  BY <1>3, ClosedBody
<1>5. Waits(b', FALSE, 0, b.stack)
  BY <1>1, CallWaits, GroupAtStands, StandsWaits
<1> QED
  BY <1>1, <1>2, <1>4, <1>5, BodyStep DEF SetBody

LEMMA HeaderStep ==
  ASSUME Inv, NEW names \in Seq(Seq(Byte)), DoHeader(names)
  PROVE  Inv'
<1> DEFINE w == O!AddHeader(Body, names)
<1>1. Call /\ b' = Header(b, names) /\ SetBody(w)
  BY DEF DoHeader, DataCall
<1>2. PICK U : /\ Grounded(U) /\ meant \in Seq(FittingOver(U)) /\ {<<names>>} \subseteq U
               /\ Body \in BodiesOver(U)
  BY BodyAtHand, Zenon
<1>3. Fits(w, U) /\ w.open = FALSE
  BY <1>2, AddHeaderFits
<1> HIDE DEF w
<1>4. w \in FittingOver(U) /\ FALSE = w.open /\ 0 = Meaning(w)
  BY <1>3, ClosedBody
<1>5. Waits(b', FALSE, 0, b.stack)
  BY <1>1, CallWaits, HeaderStands, StandsWaits
<1> QED
  BY <1>1, <1>2, <1>4, <1>5, BodyStep DEF SetBody

LEMMA RecordStep ==
  ASSUME Inv, NEW fields \in Seq(Seq(Byte)), DoRecord(fields)
  PROVE  Inv'
<1> DEFINE units == [i \in DOMAIN fields |-> O!ValueUnit(<<>>, fields[i])]
           E == {units[i] : i \in DOMAIN fields}
           w == O!AddRecord(Body, units)
<1>1. Call /\ b' = Record(b, fields) /\ SetBody(w)
  BY DEF DoRecord, DataCall
<1>2. PICK U : /\ Grounded(U) /\ meant \in Seq(FittingOver(U)) /\ E \subseteq U
               /\ Body \in BodiesOver(U)
  <2> HIDE DEF E
  <2> QED
    BY BodyAtHand, Zenon
<1>3. units \in Seq(U) /\ Len(units) = Len(fields)
  <2>1. DOMAIN fields = 1 .. Len(fields) /\ Len(fields) \in Nat
    OBVIOUS
  <2>2. \A i \in 1 .. Len(fields) : units[i] \in U
    BY <1>2, <2>1
  <2>3. units = [i \in 1 .. Len(fields) |-> units[i]]
    BY <2>1
  <2> HIDE DEF units
  <2> QED
    BY <2>1, <2>2, <2>3
<1> HIDE DEF units, E
<1>4. Fits(w, U) /\ w.open = TRUE /\ Meaning(w) = Len(fields)
  BY <1>2, <1>3, AddRecordFits
<1> HIDE DEF w
<1>5. w \in FittingOver(U)
  BY <1>4 DEF FittingOver, Fits
<1>6. Waits(b', TRUE, Len(fields), b.stack)
  BY <1>1, CallWaits, RecordStands, StandsWaits
<1> QED
  BY <1>1, <1>2, <1>4, <1>5, <1>6, BodyStep DEF SetBody

(* A unit more, of whatever kind. *)
LEMMA UnitStep ==
  ASSUME Inv, DataCall, NEW unit, SetBody(O!AddUnit(Body, unit)),
         Waits(b', TRUE, UnitsOf(b.inRecord, b.units) + 1, b.stack)
  PROVE  Inv'
<1> DEFINE w == O!AddUnit(Body, unit)
<1>1. Call /\ SetBody(w) /\ ~InDiff
  BY DEF DataCall
<1>2. PICK U : /\ Grounded(U) /\ meant \in Seq(FittingOver(U)) /\ {unit} \subseteq U
               /\ Fits(Body, U)
  BY BodyAtHand, Zenon
<1>3. Fits(w, U) /\ w.open = TRUE /\ Meaning(w) = Meaning(Body) + 1
  BY <1>2, AddUnitFits
<1> HIDE DEF w
<1>4. w \in FittingOver(U)
  BY <1>3 DEF FittingOver, Fits
<1>5. UnitsOf(b.inRecord, b.units) = Meaning(Body)
  BY <1>1, CallWaits, UnitsMeant
<1> QED
  BY <1>1, <1>2, <1>3, <1>4, <1>5, BodyStep DEF SetBody

LEMMA UnitSteps ==
  ASSUME Inv, NEW name \in Seq(Byte), NEW v \in Seq(Byte), NEW items \in Seq(Seq(Byte)),
         DoField(v) \/ DoKey(name, v) \/ DoRef(<<name>>) \/ DoList(items)
  PROVE  Inv'
<1> DEFINE u == UnitsOf(b.inRecord, b.units) + 1
<1>1. DataCall /\ Call
  BY DEF DoField, DoKey, DoRef, DoList, DataCall
<1>2. Waits(b, b.inRecord, b.units, b.stack)
  BY <1>1, CallWaits
<1>3. CASE DoField(v)
  <2>1. Waits(b', TRUE, u, b.stack)
    BY <1>2, <1>3, FieldStands, StandsWaits DEF DoField
  <2>2. \E unit : SetBody(O!AddUnit(Body, unit))
    BY <1>3, Zenon DEF DoField
  <2> QED
    BY <1>1, <2>1, <2>2, UnitStep
<1>4. CASE DoKey(name, v)
  <2>1. Waits(b', TRUE, u, b.stack)
    BY <1>2, <1>4, KeyStands, StandsWaits DEF DoKey
  <2>2. \E unit : SetBody(O!AddUnit(Body, unit))
    BY <1>4, Zenon DEF DoKey
  <2> QED
    BY <1>1, <2>1, <2>2, UnitStep
<1>5. CASE DoRef(<<name>>)
  <2>1. Waits(b', TRUE, u, b.stack)
    BY <1>2, <1>5, RefPathStands, StandsWaits DEF DoRef
  <2>2. \E unit : SetBody(O!AddUnit(Body, unit))
    BY <1>5, Zenon DEF DoRef
  <2> QED
    BY <1>1, <2>1, <2>2, UnitStep
<1>6. CASE DoList(items)
  <2>1. Waits(b', TRUE, u, b.stack)
    BY <1>2, <1>6, ListStands, StandsWaits DEF DoList
  <2>2. \E unit : SetBody(O!AddUnit(Body, unit))
    BY <1>6, Zenon DEF DoList
  <2> QED
    BY <1>1, <2>1, <2>2, UnitStep
<1> QED
  BY <1>3, <1>4, <1>5, <1>6

LEMMA CommitStep ==
  ASSUME Inv, NEW payload, IsOptional(payload), DoCommit(payload)
  PROVE  Inv'
<1> DEFINE w == O!Close(Body)
<1>1. /\ Call /\ b' = PutETB(b, payload) /\ b.stack = <<>>
      /\ SetMeant(Append(Front(meant), w)) /\ keys' = keys
  BY DEF DoCommit
<1>2. PICK U : /\ Grounded(U) /\ meant \in Seq(FittingOver(U)) /\ {} \subseteq U
               /\ Body \in BodiesOver(U)
  BY BodyAtHand, Zenon
<1>3. Fits(w, U) /\ w.open = FALSE
  BY <1>2, CloseFits
<1> HIDE DEF w
<1>4. w \in FittingOver(U) /\ FALSE = w.open /\ 0 = Meaning(w)
  BY <1>3, ClosedBody
<1>5. Waits(b', FALSE, 0, b.stack)
  BY <1>1, CallWaits, PutETBWaits
<1> QED
  BY <1>1, <1>2, <1>4, <1>5, BodyStep

LEMMA PairStep ==
  ASSUME Inv, Call, InHeading, NEW unit, AddPair(unit), Waits(b', FALSE, 1, b.stack)
  PROVE  Inv'
<1>1. UNCHANGED <<place, meant, keys, past>> /\ heading' = Append(heading, unit)
  BY DEF AddPair
<1>2. ~InDiff => b.inRecord = FALSE
  <2> SUFFICES ASSUME ~InDiff PROVE b.inRecord = FALSE
    OBVIOUS
  <2>1. b.inRecord = Body.open
    BY CallWaits, UnitsMeant
  <2>2. place = "heading" /\ keys = <<>>
    BY DEF InHeading
  <2>3. meant[1].open = FALSE /\ Len(meant) = 0 + 1
    BY <2>2 DEF Inv
  <2>4. Body = meant[1]
    BY <2>3 DEF Body, Last
  <2> QED
    BY <2>1, <2>3, <2>4
<1>3. heading' = heading \/ \E u : heading' = Append(heading, u)
  BY <1>1
<1> QED
  BY <1>1, <1>2, <1>3, QuietStep

LEMMA HeadingStep ==
  ASSUME Inv, NEW key \in Seq(Byte), NEW v \in Seq(Byte), DoHeading(key, v)
  PROVE  Inv'
<1>1. Call /\ InHeading /\ b' = Heading(b, key, v) /\ \E unit : AddPair(unit)
  BY Zenon DEF DoHeading
<1>2. Waits(b', FALSE, 1, b.stack)
  BY <1>1, CallWaits, HeadingStands, StandsWaits
<1> QED
  BY <1>1, <1>2, PairStep

LEMMA TableStep ==
  ASSUME Inv, NEW table, table.columns \in Seq(Seq(Byte)), table.rows \in Seq(Seq(Seq(Byte))),
         DoBlobTable(table)
  PROVE  Inv'
<1>1. Call /\ InHeading /\ \E unit : AddPair(unit)
  BY Zenon DEF DoBlobTable
<1>2. b' = TableWritten(b, table)
  <2> DEFINE more(x, row) == Record(x, row)
  <2>1. b' = PutCAN(FoldLeft(more, Header(OpenHeadingLevel(b, A!BlobWord), table.columns), table.rows))
    BY DEF DoBlobTable
  <2>2. ASSUME NEW x, NEW rows
        PROVE  FoldLeft(more, x, rows) = FoldLeft(Record, x, rows)
    BY DEF FoldLeft, MapThenFoldSet
  <2> QED
    BY <2>1, <2>2 DEF TableWritten
<1>3. Waits(b', FALSE, 1, b.stack)
  BY <1>1, <1>2, CallWaits, TableStands, StandsWaits
<1> QED
  BY <1>1, <1>3, PairStep

LEMMA NoteStep ==
  ASSUME Inv, NEW text \in Seq(Byte), DoNote(text)
  PROVE  Inv'
<1>1. Call /\ b' = PutBEL(b, <<text>>) /\ UNCHANGED <<place, meant, keys, past>> /\ heading' = heading
  BY DEF DoNote, Note
<1>2. Waits(b', b.inRecord, b.units, b.stack)
  BY <1>1, CallWaits, PutBELWaits
<1> QED
  BY <1>1, <1>2, QuietStep

LEMMA HeadingLevelStep ==
  ASSUME Inv, NEW key \in Seq(Byte), DoOpenHeadingLevel(key)
  PROVE  Inv'
<1> DEFINE k == <<key>>
<1>1. /\ Call /\ InHeading /\ b' = OpenHeadingLevel(b, key)
      /\ meant' = Append(meant, O!EmptyBody) /\ keys' = Append(keys, k)
      /\ UNCHANGED <<heading, past>> /\ place' = place
  BY DEF DoOpenHeadingLevel
<1>2. k \in Seq(Seq(Byte)) /\ place' = "heading" /\ keys = <<>>
  BY <1>1 DEF InHeading
<1> HIDE DEF k
<1>3. Waits(b', FALSE, 0, Append(b.stack, Level(FALSE, 1)))
  BY <1>1, CallWaits, OpenHeadingLevelStands, StandsWaits
<1> QED
  BY <1>1, <1>2, <1>3, LevelStep

LEMMA DataLevelStep ==
  ASSUME Inv, DataCall, NEW key \in Seq(Seq(Byte)), SetMeant(Append(meant, O!EmptyBody)),
         keys' = Append(keys, key),
         Waits(b', FALSE, 0, Append(b.stack, Level(TRUE, UnitsOf(b.inRecord, b.units) + 1)))
  PROVE  Inv'
<1> DEFINE level == Level(TRUE, UnitsOf(b.inRecord, b.units) + 1)
<1>1. /\ Call /\ ~InDiff /\ meant' = Append(meant, O!EmptyBody) /\ UNCHANGED <<heading, past>>
      /\ place' = (IF keys = <<>> THEN "body" ELSE place)
  BY DEF DataCall, SetMeant
<1>2. UnitsOf(b.inRecord, b.units) = Meaning(Body)
  BY <1>1, CallWaits, UnitsMeant
<1>3. level = Level(TRUE, Meaning(Body) + 1)
  BY <1>2
<1> HIDE DEF level
<1>4. Waits(b', FALSE, 0, Append(b.stack, level))
  BY DEF level
<1>5. level = IF keys = <<>> /\ place' = "heading" THEN Level(FALSE, 1)
              ELSE Level(TRUE, Meaning(Body) + 1)
  BY <1>1, <1>3
<1>6. place' = place \/ (keys = <<>> /\ place' = "body")
  BY <1>1
<1> QED
  BY <1>1, <1>4, <1>5, <1>6, LevelStep

LEMMA OpenLevelSteps ==
  ASSUME Inv, NEW name \in Seq(Byte), DoOpenLevel \/ DoOpenKeyLevel(name)
  PROVE  Inv'
<1> DEFINE level == Level(TRUE, UnitsOf(b.inRecord, b.units) + 1)
           none == <<>>
           one == <<name>>
<1>1. DataCall /\ Call /\ SetMeant(Append(meant, O!EmptyBody))
  BY DEF DoOpenLevel, DoOpenKeyLevel, DataCall
<1>2. none \in Seq(Seq(Byte)) /\ one \in Seq(Seq(Byte))
  OBVIOUS
<1> HIDE DEF none, one
<1>3. Waits(b, b.inRecord, b.units, b.stack)
  BY <1>1, CallWaits
<1>4. CASE DoOpenLevel
  <2>1. Waits(b', FALSE, 0, Append(b.stack, level))
    BY <1>3, <1>4, OpenLevelStands, StandsWaits DEF DoOpenLevel
  <2>2. keys' = Append(keys, none)
    BY <1>4 DEF DoOpenLevel, none
  <2> QED
    BY <1>1, <1>2, <2>1, <2>2, DataLevelStep
<1>5. CASE DoOpenKeyLevel(name)
  <2>1. Waits(b', FALSE, 0, Append(b.stack, level))
    BY <1>3, <1>5, OpenKeyLevelStands, StandsWaits DEF DoOpenKeyLevel
  <2>2. keys' = Append(keys, one)
    BY <1>5 DEF DoOpenKeyLevel, one
  <2> QED
    BY <1>1, <1>2, <2>1, <2>2, DataLevelStep
<1> QED
  BY <1>4, <1>5

LEMMA PartSteps ==
  ASSUME Inv, NEW raw \in Seq(Byte), DoSYN \/ DoEOT \/ DoEM(raw)
  PROVE  Inv'
<1> DEFINE none == <<>>
           w == IF DoEOT THEN O!Close(Body) ELSE O!EmptyBody
<1>1. /\ keys = <<>> /\ place # "tail" /\ UNCHANGED <<keys, words>> /\ place' \in Places
      /\ heading' = heading \/ heading' = none
      /\ DoSYN => b' = PutSYN(b) /\ place' = "heading" /\ meant' = <<O!EmptyBody>>
      /\ DoEOT => b' = PutEOT(b) /\ place' = "ended" /\ meant' = <<O!Close(Body)>>
      /\ DoEM(raw) => b' = PutEM(b, raw) /\ place' = "tail" /\ meant' = <<O!EmptyBody>>
  BY DEF DoSYN, DoEOT, DoEM, Call, Counted, Places
<1>2. /\ Waits(b, b.inRecord, b.units, b.stack) /\ b.stack = <<>>
  BY <1>1, WaitsNow
<1>3. Listed'
  <2>1. heading' = heading => Listed'
    BY ListedStays DEF Inv
  <2>2. none \in Seq({})
    OBVIOUS
  <2> HIDE DEF none
  <2>3. heading' = none => Listed'
    BY <2>2, Zenon DEF Listed
  <2> QED
    BY <1>1, <2>1, <2>3
<1>4. PICK U : Grounded(U) /\ Body \in BodiesOver(U)
  BY BodyAtHand, Zenon
<1>5. w \in FittingOver(U) /\ w.open = FALSE
  BY <1>4, EmptyFits, CloseFits DEF FittingOver, Fits
<1>6. meant' = <<w>>
  BY <1>1
<1> HIDE DEF w
<1>7. IsAt(b', FALSE, 0, <<>>) /\ (place' # "tail" => Waits(b', FALSE, 0, <<>>))
  <2>1. CASE DoSYN
    <3>1. Stands(b', FALSE, 0, <<>>)
      BY <1>1, <1>2, <2>1, PutSYNStands
    <3> QED
      BY <3>1, StandsWaits DEF Stands
  <2>2. CASE DoEOT
    <3>1. Stands(b', FALSE, 0, <<>>)
      BY <1>1, <1>2, <2>2, PutEOTStands
    <3> QED
      BY <3>1, StandsWaits DEF Stands
  <2>3. CASE DoEM(raw)
    <3>1. IsAt(b, b.inRecord, b.units, <<>>)
      BY <1>2 DEF Waits
    <3>2. IsAt(PutEM(b, raw), FALSE, 0, <<>>)
      BY <3>1, PutEMIs
    <3> QED
      BY <1>1, <2>3, <3>2
  <2> QED
    BY <2>1, <2>2, <2>3
<1> QED
  BY <1>1, <1>3, <1>4, <1>5, <1>6, <1>7, PartStep

LEMMA EditSteps ==
  ASSUME Inv, NEW name \in Seq(Byte), NEW v \in Seq(Byte), NEW w \in Seq(Byte),
         DoReplace(v, w) \/ DoSubstitute(name, v, w)
  PROVE  Inv'
<1>1. DiffCall /\ Call /\ UNCHANGED <<heading, meant, keys, past>> /\ place' = "body"
  BY DEF DoReplace, DoSubstitute, DiffCall
<1>2. Waits(b, b.inRecord, b.units, b.stack)
  BY <1>1, CallWaits
<1>3. IsOptional(<<name>>) /\ IsOptional(<<v>>) /\ IsOptional(<<w>>)
  BY OptionalIs
<1>4. \E r, u : Waits(b', r, u, b.stack)
  <2>1. CASE DoReplace(v, w)
    <3>1. b' = PutSUB(PutRS(b, <<v>>), <<w>>)
      BY <2>1 DEF DoReplace
    <3> QED
      BY <1>2, <1>3, <3>1, PutRSStands, PutSUBStands, StandsWaits
  <2>2. CASE DoSubstitute(name, v, w)
    <3>1. b' = PutSUB(PutUS(PutGS(b, <<name>>), <<v>>), <<w>>)
      BY <2>2 DEF DoSubstitute
    <3>2. Waits(PutGS(b, <<name>>), FALSE, 0, b.stack)
      BY <1>2, <1>3, PutGSStands, StandsWaits
    <3>3. Waits(PutUS(PutGS(b, <<name>>), <<v>>), FALSE, 0 + 1, b.stack)
      BY <1>3, <3>2, PutUSStands, StandsWaits
    <3>4. Waits(b', FALSE, 0 + 1, b.stack)
      BY <1>3, <3>1, <3>3, PutSUBStands, StandsWaits
    <3> QED
      BY <3>4
  <2> QED
    BY <2>1, <2>2
<1> QED
  BY <1>1, <1>4, EditStep

LEMMA InvStutter ==
  ASSUME Inv, UNCHANGED <<b, place, heading, meant, keys, past, words>>
  PROVE  Inv'
<1>1. InDiff' = InDiff /\ (CountsMeant => CountsMeant') /\ Listed' /\ Outlined'
  BY DEF Inv, InDiff, CountsMeant, LevelMeant, Body, InHeading, Listed, Outlined
<1> QED
  BY <1>1 DEF Inv

LEMMA InvNext ==
  ASSUME Inv, Next
  PROVE  Inv'
<1>1. /\ words.values \subseteq Seq(Byte) /\ words.names \subseteq Seq(Byte)
      /\ words.tails \subseteq Seq(Byte)
      /\ \A table \in words.tables :
           table.columns \in Seq(Seq(Byte)) /\ table.rows \in Seq(Seq(Seq(Byte)))
  BY WordsAre DEF Inv
<1>2. ASSUME NEW v \in Seq(Byte)
      PROVE  <<v>> \in Seq(Seq(Byte)) /\ IsOptional(<<v>>)
  <2>1. IsOptional(<<v>>)
    BY OptionalIs
  <2>2. <<v>> \in Seq(Seq(Byte))
    OBVIOUS
  <2> QED
    BY <2>1, <2>2
<1> DEFINE none == <<>>
<1>3. none \in Seq(Seq(Byte)) /\ none \in Seq(Byte) /\ IsOptional(none)
  BY DEF IsOptional
<1> HIDE DEF none
<1>4. CASE DoRead
  BY <1>4, InvStutter DEF DoRead
<1>5. CASE DoSYN \/ DoEOT \/ \E raw \in words.tails : DoEM(raw)
  BY <1>1, <1>3, <1>5, PartSteps
<1>6. CASE DoHeading(V!ShapeKey, V!DiffShape) \/ \E table \in words.tables : DoBlobTable(table)
  BY <1>1, <1>6, HeadingStep, TableStep, WordsAreBytes
<1>7. ASSUME NEW name \in words.names,
             \/ DoOpenHeadingLevel(name) \/ DoFile(name) \/ DoOpenKeyLevel(name)
             \/ DoRef(<<name>>) \/ DoHeader(<<name>>) \/ DoCommit(<<name>>)
      PROVE  Inv'
  <2>1. name \in Seq(Byte)
    BY <1>1
  <2>2. <<name>> \in Seq(Seq(Byte)) /\ IsOptional(<<name>>)
    BY <1>2, <2>1
  <2>3. CASE DoOpenHeadingLevel(name)
    BY <2>1, <2>3, HeadingLevelStep
  <2>4. CASE DoFile(name)
    BY <2>1, <2>4, FileStep
  <2>5. CASE DoOpenKeyLevel(name)
    BY <2>1, <2>5, OpenLevelSteps
  <2>6. CASE DoRef(<<name>>)
    BY <1>3, <2>1, <2>6, UnitSteps
  <2>7. CASE DoHeader(<<name>>)
    BY <2>2, <2>7, HeaderStep
  <2>8. CASE DoCommit(<<name>>)
    BY <2>2, <2>8, CommitStep
  <2> QED
    BY <1>7, <2>3, <2>4, <2>5, <2>6, <2>7, <2>8
<1>8. ASSUME NEW name \in words.names, NEW depth \in 1 .. 2,
             NEW headers \in {<<>>, << <<name, name>> >>}, DoGroup(name, headers, depth)
      PROVE  Inv'
  <2>1. name \in Seq(Byte) /\ depth \in Nat \ {0}
    BY <1>1
  <2>2. headers # <<>> => headers[1] \in Seq(Seq(Byte))
    <3> DEFINE row == <<name, name>>
    <3>1. row \in Seq(Seq(Byte))
      BY <2>1
    <3>2. headers \in {<<>>, <<row>>}
      OBVIOUS
    <3> HIDE DEF row
    <3> QED
      BY <3>1, <3>2
  <2> QED
    BY <1>8, <2>1, <2>2, GroupStep
<1>9. ASSUME NEW v \in words.values, DoField(v) \/ DoRecord(<<v>>) \/ DoList(<<v>>) \/ DoNote(v)
      PROVE  Inv'
  <2>1. v \in Seq(Byte) /\ <<v>> \in Seq(Seq(Byte))
    BY <1>1, <1>2
  <2>2. CASE DoField(v)
    BY <1>3, <2>1, <2>2, UnitSteps
  <2>3. CASE DoRecord(<<v>>)
    BY <2>1, <2>3, RecordStep
  <2>4. CASE DoList(<<v>>)
    BY <2>1, <2>4, UnitSteps
  <2>5. CASE DoNote(v)
    BY <2>1, <2>5, NoteStep
  <2> QED
    BY <1>9, <2>2, <2>3, <2>4, <2>5
<1>10. ASSUME NEW name \in words.names, NEW v \in words.values,
              DoKey(name, v) \/ DoHeading(name, v) \/ DoReplace(v, v) \/ DoSubstitute(name, v, v)
       PROVE  Inv'
  <2>1. name \in Seq(Byte) /\ v \in Seq(Byte)
    BY <1>1
  <2>2. CASE DoKey(name, v)
    BY <1>3, <2>1, <2>2, UnitSteps
  <2>3. CASE DoHeading(name, v)
    BY <2>1, <2>3, HeadingStep
  <2>4. CASE DoReplace(v, v) \/ DoSubstitute(name, v, v)
    BY <2>1, <2>4, EditSteps
  <2> QED
    BY <1>10, <2>2, <2>3, <2>4
<1>11. CASE DoRecord(none) \/ DoList(none)
  <2>1. CASE DoRecord(none)
    BY <1>3, <2>1, RecordStep
  <2>2. CASE DoList(none)
    BY <1>3, <2>2, UnitSteps
  <2> QED
    BY <1>11, <2>1, <2>2
<1>12. CASE DoOpenLevel \/ DoCloseLevel \/ DoCommit(none)
  <2>1. CASE DoOpenLevel
    BY <1>3, <2>1, OpenLevelSteps
  <2>2. CASE DoCloseLevel
    BY <2>2, CloseStep
  <2>3. CASE DoCommit(none)
    BY <1>3, <2>3, CommitStep
  <2> QED
    BY <1>12, <2>1, <2>2, <2>3
<1> QED
  BY <1>4, <1>5, <1>6, <1>7, <1>8, <1>9, <1>10, <1>11, <1>12, Zenon DEF Next, none

(* What a call does to the raw region, the reader and the count of calls. *)
Quietly == /\ UNCHANGED <<tail, read>> /\ read = <<>> /\ place # "tail"
           /\ calls' = calls \/ (calls < MaxCalls /\ calls' = calls + 1)

LEMMA QuietlyEnds ==
  ASSUME Ended, Quietly
  PROVE  Ended'
BY MaxCallsAssumption DEF Ended, Quietly

LEMMA CallsQuietly ==
  ASSUME Inv, Ended, Next
  PROVE  DoRead \/ Quietly \/ \E raw : DoEM(raw)
<1>1. Call /\ tail' = tail => Quietly
  BY DEF Call, Counted, Quietly
<1>2. DoSYN => Quietly
  BY DEF DoSYN, Counted, Quietly
<1>3. DoEOT => Quietly
  BY <1>1 DEF DoEOT
<1>4. ASSUME NEW key, NEW v, DoHeading(key, v) PROVE Quietly
  BY <1>1, <1>4 DEF DoHeading, AddPair
<1>5. ASSUME NEW table, DoBlobTable(table) PROVE Quietly
  <2>1. Call /\ \E unit : AddPair(unit)
    BY <1>5, Zenon DEF DoBlobTable
  <2> QED
    BY <1>1, <2>1 DEF AddPair
<1>6. ASSUME NEW name, \/ DoOpenHeadingLevel(name) \/ DoFile(name) \/ DoOpenKeyLevel(name)
                       \/ DoRef(<<name>>) \/ DoHeader(<<name>>)
      PROVE  Quietly
  BY <1>1, <1>6 DEF DoOpenHeadingLevel, DoFile, DoOpenKeyLevel, DoRef, DoHeader, DataCall,
     SetBody, SetMeant
<1>7. ASSUME NEW payload, DoCommit(payload) PROVE Quietly
  BY <1>1, <1>7 DEF DoCommit, SetMeant
<1>8. ASSUME NEW name, NEW headers, NEW depth, DoGroup(name, headers, depth) PROVE Quietly
  BY <1>1, <1>8 DEF DoGroup, DataCall, SetBody, SetMeant
<1>9. ASSUME NEW v, DoField(v) \/ DoNote(v) PROVE Quietly
  BY <1>1, <1>9 DEF DoField, DoNote, DataCall, SetBody, SetMeant
<1>10. ASSUME NEW fields, DoRecord(fields) PROVE Quietly
  <2>1. DataCall /\ \E w : SetBody(w)
    BY <1>10, Zenon DEF DoRecord
  <2> QED
    BY <1>1, <2>1 DEF DataCall, SetBody, SetMeant
<1>11. ASSUME NEW items, DoList(items) PROVE Quietly
  <2>1. DataCall /\ \E w : SetBody(w)
    BY <1>11, Zenon DEF DoList
  <2> QED
    BY <1>1, <2>1 DEF DataCall, SetBody, SetMeant
<1>12. ASSUME NEW name, NEW v, DoKey(name, v) \/ DoReplace(v, v) \/ DoSubstitute(name, v, v)
       PROVE  Quietly
  BY <1>1, <1>12 DEF DoKey, DoReplace, DoSubstitute, DiffCall, DataCall, SetBody, SetMeant
<1>13. DoOpenLevel => Quietly
  BY <1>1 DEF DoOpenLevel, DataCall, SetMeant
<1>14. DoCloseLevel => Quietly
  <2> SUFFICES ASSUME DoCloseLevel PROVE Quietly
    OBVIOUS
  <2>1. keys # <<>> /\ UNCHANGED <<tail, read, calls>>
    BY DEF DoCloseLevel
  <2>2. read = <<>> /\ place # "tail"
    BY <2>1 DEF Ended, Complete, Inv
  <2> QED
    BY <2>1, <2>2 DEF Quietly
<1> QED
  BY <1>2, <1>3, <1>4, <1>5, <1>6, <1>7, <1>8, <1>9, <1>10, <1>11, <1>12, <1>13, <1>14, Zenon
     DEF Next

LEMMA EndedNext ==
  ASSUME Inv, Ended, Next
  PROVE  Ended'
<1>1. CASE Quietly
  BY <1>1, QuietlyEnds
<1>2. CASE DoRead
  <2>1. UNCHANGED <<tail, place, calls, b, keys>> /\ Complete
    BY <1>2 DEF DoRead
  <2> QED
    BY <2>1 DEF Ended, Complete
<1>3. ASSUME NEW raw, DoEM(raw) PROVE Ended'
  <2>1. place' = "tail" /\ read = <<>> /\ read' = read /\ calls < MaxCalls /\ calls' = calls + 1
    BY <1>3 DEF DoEM, Counted
  <2> QED
    BY <2>1, MaxCallsAssumption DEF Ended
<1> QED
  BY <1>1, <1>2, <1>3, CallsQuietly

LEMMA InvHolds == Spec => [](Inv /\ Ended)
<1>1. Init => Inv /\ Ended
  <2> SUFFICES ASSUME Init PROVE Inv /\ Ended
    OBVIOUS
  <2>1. tail = <<>> /\ read = <<>> /\ calls = 0
    BY DEF Init
  <2> QED
    BY <2>1, InvInit, MaxCallsAssumption DEF Ended
<1>2. Inv /\ Ended /\ [Next]_vars => (Inv /\ Ended)'
  <2> SUFFICES ASSUME Inv, Ended, [Next]_vars PROVE Inv' /\ Ended'
    OBVIOUS
  <2>1. CASE Next
    BY <2>1, InvNext, EndedNext
  <2>2. CASE UNCHANGED vars
    <3>1. UNCHANGED <<b, place, heading, meant, keys, past, tail, read, words, calls>>
      BY <2>2 DEF vars
    <3> QED
      BY <3>1, InvStutter DEF Ended, Complete
  <2> QED
    BY <2>1, <2>2
<1> QED
  BY <1>1, <1>2, PTL DEF Spec

(* Types, and where units are counted: TypeOK of RoundTrip. *)
THEOREM TypeCorrect == Spec => []TypeOK
<1>1. Inv /\ Ended => TypeOK
  <2> SUFFICES ASSUME Inv, Ended PROVE TypeOK
    OBVIOUS
  <2>1. /\ b \in BuilderType /\ place \in Places /\ Len(meant) = Len(keys) + 1
        /\ tail # <<>> => place = "tail"
        /\ read # <<>> => Complete
        /\ calls \in 0 .. MaxCalls
    BY DEF Inv, Ended
  <2>2. b.units > 0 => b.inRecord \/ place = "heading" \/ InDiff
    <3> SUFFICES ASSUME b.units > 0, ~b.inRecord, place # "heading", ~InDiff PROVE FALSE
      OBVIOUS
    <3>1. CountsMeant
      BY DEF Inv
    <3>2. Body.open # TRUE /\ b.units = Meaning(Body)
      BY <3>1 DEF CountsMeant, InHeading
    <3>3. Body.open = b.inRecord /\ b.inRecord \in BOOLEAN
      BY <2>1, <3>1 DEF CountsMeant, BuilderType
    <3> QED
      BY <3>2, <3>3 DEF Meaning
  <2> QED
    BY <2>1, <2>2 DEF TypeOK, Places
<1> QED
  BY <1>1, InvHolds, PTL

(* Whatever is written, of any words and in any number of calls, the       *)
(* counters by which the builder decides where a US goes are what a reader *)
(* counts in the body around, also after a level is closed, and the bytes  *)
(* scan to the builder's own depth, in no text and without damage.         *)
THEOREM CountersRight == Spec => []CountersAgree
<1>1. Inv => CountersAgree
  <2> SUFFICES ASSUME Inv, place # "tail" PROVE LevelsAgree /\ (~InDiff => UnitsAgree)
    BY DEF CountersAgree
  <2>1. /\ Waits(b, b.inRecord, b.units, b.stack) /\ b.stack \in Levels /\ Len(b.stack) = Len(keys)
        /\ b.inRecord \in BOOLEAN
    BY WaitsNow
  <2>2. LevelsAgree
    <3>1. b.buf \in Seq(Byte) /\ Len(b.stack) \in Nat /\ AtRest(b.buf, Len(b.stack))
      BY <2>1, AtIs DEF Waits
    <3> QED
      BY <3>1, RestIsScan DEF LevelsAgree
  <2>3. ~InDiff => UnitsAgree
    <3> SUFFICES ASSUME ~InDiff PROVE UnitsAgree
      OBVIOUS
    <3>1. CountsMeant
      BY DEF Inv
    <3>2. b.inRecord => Meaning(Body) = Len(Units)
      BY <3>1 DEF CountsMeant, Meaning, Units
    <3> QED
      BY <2>1, <3>1, <3>2 DEF CountsMeant, UnitsAgree
  <2> QED
    BY <2>2, <2>3
<1> QED
  BY <1>1, InvHolds, PTL
(* A commit behind bytes at rest: one more block, up to its ETB.           *)
LEMMA RestCommits ==
  ASSUME NEW u \in Seq(Byte), AtRest(u, 0)
  PROVE  Scan(u \o <<ETB>>) = Committed(Scan(u), Scan(u).blockStart, Len(u) + 1)
<1> DEFINE w == <<ETB>>
           l == u \o w
           s == Scan(u)
<1>1. w \in Seq(Byte) /\ Len(w) = 1 /\ BeginsWithCode(w) /\ At(w, 0) = ETB
  <2>1. At(w, 0) = ETB /\ Len(w) = 1
    BY DEF At
  <2> QED
    BY <2>1, CodesBegin
<1> HIDE DEF w
<1>2. l \in Seq(Byte) /\ Len(l) = Len(u) + 1 /\ Len(u) \in Nat /\ At(l, Len(u)) = ETB
  <2>1. l \in Seq(Byte) /\ Len(l) = Len(u) + 1 /\ Len(u) \in Nat
    BY <1>1, Joins
  <2>2. 0 \in 0 .. (Len(w) - 1) /\ Len(u) + 0 = Len(u)
    BY <1>1, <2>1
  <2>3. At(l, Len(u) + 0) = At(w, 0)
    BY <1>1, <2>2, AtConcat
  <2> QED
    BY <1>1, <2>1, <2>2, <2>3
<1> HIDE DEF l
<1>3. s \in ScanType /\ Scan(l) = ScanEnd(l)[s]
  BY <1>1, ScanGoesOn DEF l
<1>4. s.pos = Len(u) /\ s.inText = FALSE /\ s.depth = 0
  <2>1. <<>> \in Seq(Byte) /\ BeginsWithCode(<<>>) /\ u \o <<>> = u
    BY DEF BeginsWithCode
  <2>2. PICK r \in ScanType : Standing(r, Len(u), FALSE, 0) /\ ScanEnd(u)[NewScan] = ScanEnd(u)[r]
    BY <2>1 DEF AtRest, Reaches
  <2>3. ScanEnd(u)[r] = r
    BY <2>2, ScanEndUnfolds DEF Standing
  <2> QED
    BY <2>2, <2>3, ScanEndUnfolds DEF Standing
<1> HIDE DEF s
<1>5. s.pos < Len(l) /\ At(l, s.pos) = ETB
  BY <1>2, <1>4
<1>6. PayloadEnd(l, s.pos + 1) = Len(u) + 1
  BY <1>2, <1>4, PayloadAtEnd
<1>7. CommitBlock(l, s) \in ScanType /\ CommitBlock(l, s) = Committed(s, s.blockStart, Len(u) + 1)
  BY <1>2, <1>3, <1>4, <1>5, <1>6, CommitIs DEF Committed
<1>8. ScanEnd(l)[s] = ScanEnd(l)[CommitBlock(l, s)]
  BY <1>2, <1>3, <1>5, StepCommits, ScanEndUnfolds
<1>9. ScanEnd(l)[CommitBlock(l, s)] = CommitBlock(l, s)
  <2>1. CommitBlock(l, s).pos = Len(l)
    BY <1>2, <1>7 DEF Committed
  <2> QED
    BY <1>2, <1>7, <2>1, ScanEndUnfolds
<1> QED
  BY <1>3, <1>7, <1>8, <1>9 DEF l, s, w

(* Outside of levels, what was written since the last commit can be        *)
(* committed whole: an ETB makes one more block of it, which ends there    *)
(* and is not damaged.  So FileLog.Batch, which ends a batch with an ETB   *)
(* (stream.go:365), writes what a reader takes for one block.              *)
CommitIsWhole ==
  place # "tail" /\ keys = <<>> =>
    LET s == Scan(b.buf)
        t == Scan(PutETB(b, <<>>).buf)
    IN  /\ t.blocks = Append(s.blocks, [start |-> s.blockStart, stop |-> Len(b.buf)])
        /\ t.damaged = {}
        /\ t.committedEnd = Len(b.buf) + 1

THEOREM BuiltCommits == Spec => []CommitIsWhole
<1>1. Inv => CommitIsWhole
  <2> SUFFICES ASSUME Inv, place # "tail", keys = <<>>
               PROVE  LET s == Scan(b.buf)
                          t == Scan(PutETB(b, <<>>).buf)
                      IN  /\ t.blocks = Append(s.blocks, [start |-> s.blockStart, stop |-> Len(b.buf)])
                          /\ t.damaged = {}
                          /\ t.committedEnd = Len(b.buf) + 1
    BY DEF CommitIsWhole
  <2>1. Waits(b, b.inRecord, b.units, b.stack) /\ b.stack = <<>> /\ b \in BuilderType
    BY WaitsNow DEF Inv
  <2>2. b.buf \in Seq(Byte) /\ AtRest(b.buf, 0) /\ Len(b.buf) \in Nat
    BY <2>1, AtIs DEF Waits
  <2>3. PutETB(b, <<>>).buf = b.buf \o <<ETB>>
    BY <2>1 DEF PutETB, Optional, Put, EndRecord, BuilderType
  <2>4. Scan(b.buf).damaged = {}
    BY <2>2, RestIsScan
  <2>5. Scan(b.buf \o <<ETB>>) = Committed(Scan(b.buf), Scan(b.buf).blockStart, Len(b.buf) + 1)
    BY <2>2, RestCommits
  <2> DEFINE s == Scan(b.buf)
             n == Len(b.buf) + 1
             t == Committed(s, s.blockStart, n)
  <2>6. n - 1 = Len(b.buf)
    BY <2>2
  <2>7. /\ t.blocks = Append(s.blocks, [start |-> s.blockStart, stop |-> n - 1])
        /\ t.damaged = s.damaged /\ t.committedEnd = n
    BY DEF Committed
  <2>8. Scan(PutETB(b, <<>>).buf) = t
    BY <2>3, <2>5
  <2> HIDE DEF s, t
  <2> QED
    BY <2>4, <2>6, <2>7, <2>8 DEF s
<1> QED
  BY <1>1, InvHolds, PTL
=============================================================================
