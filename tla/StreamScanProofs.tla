-------------------------- MODULE StreamScanProofs --------------------------
(***************************************************************************)
(* What holds of the stream scan for every log: where payloads end, that a *)
(* scan of an extended log goes on from where the scan of the log ended,   *)
(* and that a batch is scanned behind a log as it is by itself.            *)
(***************************************************************************)
EXTENDS StreamScan, C0ScanProofs

(* A payload ends inside the buffer and holds no ETB and no DLE. *)
LEMMA PayloadEndStops ==
  ASSUME NEW log \in Seq(Byte), NEW pos \in Nat, pos <= Len(log)
  PROVE  /\ PayloadEnd(log, pos) \in pos .. Len(log)
         /\ \A q \in pos .. (PayloadEnd(log, pos) - 1) : At(log, q) # ETB
         /\ \A q \in pos .. (PayloadEnd(log, pos) - 1) : At(log, q) # DLE
<1> DEFINE n == Len(log)
           p == ScanLayout(log, pos, n)
           e == ScanPlain(log, p, n)
           T == {q \in pos .. e : q = pos \/ At(log, q - 1) # SP}
<1>n. n \in Nat /\ pos <= n
  OBVIOUS
<1>1. p \in pos .. n /\ \A q \in pos .. (p - 1) : IsLayout(At(log, q))
  <2> HIDE DEF n
  <2> QED
    BY <1>n, ScanLayoutStops
<1>2. e \in p .. n /\ \A q \in p .. (e - 1) : IsPlainByte(At(log, q))
  <2>1. p \in Nat /\ p <= n
    BY <1>1, <1>n
  <2> HIDE DEF n, p
  <2> QED
    BY <1>n, <2>1, ScanPlainStops
<1>3. /\ ETB \notin Layout /\ ~IsPlainByte(ETB)
      /\ DLE \notin Layout /\ ~IsPlainByte(DLE)
  BY DEF ETB, DLE, Layout, SP, HT, LF, CR, IsPlainByte
<1>4. \A q \in pos .. (e - 1) : At(log, q) # ETB /\ At(log, q) # DLE
  <2> TAKE q \in pos .. (e - 1)
  <2>1. q \in pos .. (p - 1) \/ q \in p .. (e - 1)
    BY <1>1, <1>2, <1>n
  <2> HIDE DEF e, p, n
  <2> QED
    BY <2>1, <1>1, <1>2, <1>3 DEF IsLayout
<1>5. Max(T) \in T
  <2>1. T \subseteq Nat /\ pos \in T /\ e \in Nat /\ \A k \in T : k <= e
    BY <1>1, <1>2, <1>n
  <2> HIDE DEF T, e
  <2> QED
    BY <2>1, MaxNat
<1>6. PayloadEnd(log, pos) \in {Max(T), pos}
  BY DEF PayloadEnd
<1>7. PayloadEnd(log, pos) \in pos .. e /\ e \in pos .. n
  <2>1. Max(T) \in pos .. e
    BY <1>5
  <2> HIDE DEF T
  <2> QED
    BY <2>1, <1>6, <1>1, <1>2, <1>n
<1> HIDE DEF e
<1> QED
  BY <1>4, <1>7, <1>n

LEMMA AtConcat ==
  ASSUME NEW s \in Seq(Byte), NEW t \in Seq(Byte)
  PROVE  /\ s \o t \in Seq(Byte)
         /\ Len(s \o t) = Len(s) + Len(t)
         /\ \A i \in 0 .. (Len(s) - 1) : At(s \o t, i) = At(s, i)
         /\ \A i \in 0 .. (Len(t) - 1) : At(s \o t, Len(s) + i) = At(t, i)
BY DEF At

(* What follows a log begins with a code, or there is nothing. *)
BeginsWithCode(w) == w = <<>> \/ (~IsPlainByte(At(w, 0)) /\ ~IsLayout(At(w, 0)))

(* The payload of a commit in a log is the one it has in a longer log. *)
LEMMA PayloadEndExtends ==
  ASSUME NEW log \in Seq(Byte), NEW w \in Seq(Byte), BeginsWithCode(w),
         NEW pos \in Nat, pos <= Len(log)
  PROVE  PayloadEnd(log \o w, pos) = PayloadEnd(log, pos)
<1> DEFINE n == Len(log)
           l == log \o w
           p == ScanLayout(log, pos, n)
           e == ScanPlain(log, p, n)
<1>n. n \in Nat /\ pos <= n /\ Len(l) \in Nat /\ n <= Len(l) /\ Len(w) \in Nat
      /\ Len(l) = n + Len(w)
  BY AtConcat
<1>a. \A i \in 0 .. (n - 1) : At(l, i) = At(log, i)
  BY AtConcat
<1>b. Len(l) = n \/ (n < Len(l) /\ ~IsPlainByte(At(l, n)) /\ ~IsLayout(At(l, n)))
  <2>1. CASE w = <<>>
    BY <2>1, <1>n
  <2>2. CASE w # <<>>
    <3>1. 0 \in 0 .. (Len(w) - 1)
      BY <2>2
    <3>2. At(l, n + 0) = At(w, 0)
      BY <3>1, AtConcat
    <3>3. At(l, n) = At(w, 0)
      BY <3>2, <1>n
    <3> QED
      BY <2>2, <3>1, <3>3, <1>n DEF BeginsWithCode
  <2> QED
    BY <2>1, <2>2
<1> HIDE DEF n, l
<1>1. /\ p \in pos .. n /\ (p < n => ~IsLayout(At(log, p)))
      /\ \A q \in pos .. (p - 1) : IsLayout(At(log, q))
  BY <1>n, ScanLayoutStops
<1> HIDE DEF p
<1>2. p \in Nat /\ p <= n
  BY <1>1, <1>n
<1>3. /\ e \in p .. n /\ (e < n => ~IsPlainByte(At(log, e)))
      /\ \A q \in p .. (e - 1) : IsPlainByte(At(log, q))
  BY <1>n, <1>2, ScanPlainStops
<1> HIDE DEF e
<1>4. ScanLayout(l, pos, Len(l)) = p
  <2>1. p \in pos .. Len(l)
    BY <1>n, <1>1
  <2>2. p = Len(l) \/ ~IsLayout(At(l, p))
    BY <1>n, <1>a, <1>b, <1>1
  <2>3. \A q \in pos .. (p - 1) : IsLayout(At(l, q))
    BY <1>n, <1>a, <1>1
  <2> QED
    BY <1>n, <2>1, <2>2, <2>3, ScanLayoutIs
<1>5. ScanPlain(l, p, Len(l)) = e
  <2>1. e \in p .. Len(l)
    BY <1>n, <1>2, <1>3
  <2>2. e = Len(l) \/ ~IsPlainByte(At(l, e))
    BY <1>n, <1>a, <1>b, <1>2, <1>3
  <2>3. \A q \in p .. (e - 1) : IsPlainByte(At(l, q))
    BY <1>n, <1>a, <1>2, <1>3
  <2> QED
    BY <1>n, <1>2, <2>1, <2>2, <2>3, ScanPlainIs
<1>6. p < Len(l) /\ IsPlainByte(At(l, p)) <=> p < n /\ IsPlainByte(At(log, p))
  BY <1>n, <1>a, <1>b, <1>2
<1>7. {q \in pos .. e : q = pos \/ At(l, q - 1) # SP}
        = {q \in pos .. e : q = pos \/ At(log, q - 1) # SP}
  <2>1. \A q \in pos .. e : q # pos => q - 1 \in 0 .. (n - 1)
    BY <1>n, <1>2, <1>3
  <2> QED
    BY <1>a, <2>1
<1> QED
  BY <1>4, <1>5, <1>6, <1>7 DEF PayloadEnd, n, l, p, e
-----------------------------------------------------------------------------
(* One step of the scan.  What a byte that commits nothing leaves: the     *)
(* scanner is n bytes further, and the rest is given.                      *)
Passed(s, n, blockStart, inText, depth) ==
  [pos |-> s.pos + n, blockStart |-> blockStart, inText |-> inText, depth |-> depth,
   blocks |-> s.blocks, damaged |-> s.damaged, committedEnd |-> s.committedEnd]

LEMMA PassIs ==
  ASSUME NEW s \in ScanType, NEW k \in Nat, NEW x \in BOOLEAN, NEW d \in Nat
  PROVE  Pass(s, k, x, d) = Passed(s, 1, k, x, d)
<1> DEFINE p == s.pos + 1
           t == [s EXCEPT !.pos = p, !.blockStart = k, !.inText = x, !.depth = d]
<1>1. p \in Nat
  BY DEF ScanType
<1>2. Pass(s, k, x, d) = t
  BY Zenon DEF Pass
<1> HIDE DEF p
<1>3. /\ t \in ScanType /\ t.pos = p /\ t.blockStart = k /\ t.depth = d
      /\ t.blocks = s.blocks /\ t.damaged = s.damaged /\ t.committedEnd = s.committedEnd
  BY <1>1 DEF ScanType
<1>4. t.inText = x
  BY DEF ScanType
<1> HIDE DEF t
<1>5. t = [pos |-> t.pos, blockStart |-> t.blockStart, inText |-> t.inText,
           depth |-> t.depth, blocks |-> t.blocks, damaged |-> t.damaged,
           committedEnd |-> t.committedEnd]
  BY <1>3 DEF ScanType
<1> QED
  BY <1>2, <1>3, <1>4, <1>5, Zenon DEF Passed, p

LEMMA SkipIs ==
  ASSUME NEW s \in ScanType
  PROVE  SkipEscape(s) = Passed(s, 2, s.blockStart, s.inText, s.depth)
BY DEF ScanType, SkipEscape, Passed

LEMMA PassedType ==
  ASSUME NEW s \in ScanType, NEW n \in Nat, NEW k \in Nat, NEW x \in BOOLEAN, NEW d \in Nat
  PROVE  Passed(s, n, k, x, d) \in ScanType
<1>1. s.pos + n \in Nat
  BY DEF ScanType
<1> QED
  BY <1>1 DEF ScanType, Passed

(* The byte at the scanner decides what a step does. *)
LEMMA TextStepIs ==
  ASSUME NEW log, NEW s \in ScanType, s.inText
  PROVE  LET b == At(log, s.pos) IN
         /\ b = DLE => ScanStep(log, s) = Passed(s, 2, s.blockStart, TRUE, s.depth)
         /\ b = ETX => ScanStep(log, s) = Passed(s, 1, s.blockStart, FALSE, s.depth)
         /\ b = ETB => ScanStep(log, s) = CommitBlock(log, s)
         /\ b = SYN => ScanStep(log, s) = Passed(s, 1, s.pos, FALSE, 0)
         /\ b \in {EOT, EM} => ScanStep(log, s) = Passed(s, 1, s.blockStart, FALSE, 0)
         /\ b \notin {DLE, ETX, ETB, SYN, EOT, EM} =>
              ScanStep(log, s) = Passed(s, 1, s.blockStart, TRUE, s.depth)
<1> DEFINE b == At(log, s.pos)
<1>0. /\ ScanStep(log, s) = TextStep(log, s) /\ s.inText = TRUE
      /\ s.blockStart \in Nat /\ s.pos \in Nat /\ s.depth \in Nat /\ 0 \in Nat
  BY DEF ScanStep, ScanType
<1>1. /\ DLE \notin {ETX, ETB, SYN, EOT, EM} /\ ETX \notin {ETB, SYN, EOT, EM}
      /\ ETB \notin {SYN, EOT, EM} /\ SYN \notin {EOT, EM}
  BY DEF DLE, ETX, ETB, SYN, EOT, EM
<1>2. CASE b = DLE
  <2>1. TextStep(log, s) = SkipEscape(s)
    BY <1>1, <1>2, Zenon DEF TextStep
  <2> QED
    BY <1>0, <1>1, <1>2, <2>1, SkipIs
<1>3. CASE b = ETX
  <2>1. TextStep(log, s) = Pass(s, s.blockStart, FALSE, s.depth)
    BY <1>1, <1>3, Zenon DEF TextStep
  <2> QED
    BY <1>0, <1>1, <1>3, <2>1, PassIs
<1>4. CASE b = ETB
  <2>1. TextStep(log, s) = CommitBlock(log, s)
    BY <1>1, <1>4, Zenon DEF TextStep
  <2> QED
    BY <1>0, <1>1, <1>4, <2>1
<1>5. CASE b = SYN
  <2>1. TextStep(log, s) = CutText(s, b)
    BY <1>1, <1>5, Zenon DEF TextStep
  <2>2. CutText(s, b) = Pass(s, s.pos, FALSE, 0)
    BY <1>5, Zenon DEF CutText
  <2> QED
    BY <1>0, <1>1, <1>5, <2>1, <2>2, PassIs
<1>6. CASE b \in {EOT, EM}
  <2>1. TextStep(log, s) = CutText(s, b)
    BY <1>1, <1>6, Zenon DEF TextStep
  <2>2. CutText(s, b) = Pass(s, s.blockStart, FALSE, 0)
    BY <1>1, <1>6, Zenon DEF CutText
  <2> QED
    BY <1>0, <1>1, <1>6, <2>1, <2>2, PassIs
<1>7. CASE b \notin {DLE, ETX, ETB, SYN, EOT, EM}
  <2>1. TextStep(log, s) = Pass(s, s.blockStart, TRUE, s.depth)
    BY <1>7, Zenon DEF TextStep
  <2> QED
    BY <1>0, <1>7, <2>1, PassIs
<1> QED
  BY <1>2, <1>3, <1>4, <1>5, <1>6, <1>7

LEMMA OutsideStepIs ==
  ASSUME NEW log, NEW s \in ScanType, ~s.inText
  PROVE  LET b == At(log, s.pos) IN
         /\ b = STX => ScanStep(log, s) = Passed(s, 1, s.blockStart, TRUE, s.depth)
         /\ b = DLE => ScanStep(log, s) = Passed(s, 1, s.blockStart, FALSE, s.depth + 1)
         /\ b = CAN => ScanStep(log, s) = Passed(s, 1, s.blockStart, FALSE,
                                                IF s.depth > 0 THEN s.depth - 1 ELSE s.depth)
         /\ b = ETB => ScanStep(log, s) = CommitBlock(log, s)
         /\ b = SYN => ScanStep(log, s) = IF s.pos > 0 THEN Passed(s, 1, s.pos, FALSE, 0)
                                          ELSE Passed(s, 1, s.blockStart, FALSE, s.depth)
         /\ b \notin {STX, DLE, CAN, ETB, SYN} =>
              ScanStep(log, s) = Passed(s, 1, s.blockStart, FALSE, s.depth)
<1> DEFINE b == At(log, s.pos)
<1>0. /\ ScanStep(log, s) = OutsideStep(log, s)
      /\ s.blockStart \in Nat /\ s.pos \in Nat /\ s.depth \in Nat /\ s.depth + 1 \in Nat
      /\ (IF s.depth > 0 THEN s.depth - 1 ELSE s.depth) \in Nat /\ 0 \in Nat
  BY DEF ScanStep, ScanType
<1>1. /\ STX \notin {DLE, CAN, ETB, SYN} /\ DLE \notin {CAN, ETB, SYN}
      /\ CAN \notin {ETB, SYN} /\ ETB # SYN
  BY DEF DLE, STX, CAN, ETB, SYN
<1>2. CASE b = STX
  <2>1. OutsideStep(log, s) = Pass(s, s.blockStart, TRUE, s.depth)
    BY <1>1, <1>2, Zenon DEF OutsideStep
  <2> QED
    BY <1>0, <1>1, <1>2, <2>1, PassIs
<1>3. CASE b = DLE
  <2>1. OutsideStep(log, s) = Pass(s, s.blockStart, FALSE, s.depth + 1)
    BY <1>1, <1>3, Zenon DEF OutsideStep
  <2> QED
    BY <1>0, <1>1, <1>3, <2>1, PassIs
<1>4. CASE b = CAN
  <2>1. OutsideStep(log, s) = CloseLevel(s)
    BY <1>1, <1>4, Zenon DEF OutsideStep
  <2> QED
    BY <1>0, <1>1, <1>4, <2>1, PassIs DEF CloseLevel
<1>5. CASE b = ETB
  <2>1. OutsideStep(log, s) = CommitBlock(log, s)
    BY <1>1, <1>5, Zenon DEF OutsideStep
  <2> QED
    BY <1>0, <1>1, <1>5, <2>1
<1>6. CASE b = SYN
  <2>1. OutsideStep(log, s) = NewDocument(s)
    BY <1>1, <1>6, Zenon DEF OutsideStep
  <2> QED
    BY <1>0, <1>1, <1>6, <2>1, PassIs DEF NewDocument
<1>7. CASE b \notin {STX, DLE, CAN, ETB, SYN}
  <2>1. OutsideStep(log, s) = Pass(s, s.blockStart, FALSE, s.depth)
    BY <1>7, Zenon DEF OutsideStep
  <2> QED
    BY <1>0, <1>7, <2>1, PassIs
<1> QED
  BY <1>2, <1>3, <1>4, <1>5, <1>6, <1>7

(* A step either commits, at an ETB, or passes a byte or two. *)
LEMMA StepPasses ==
  ASSUME NEW log, NEW s \in ScanType, At(log, s.pos) # ETB
  PROVE  \E n \in {1, 2}, k \in {s.blockStart, s.pos}, x \in BOOLEAN, d \in Nat :
           ScanStep(log, s) = Passed(s, n, k, x, d)
<1>1. s.depth \in Nat /\ s.depth + 1 \in Nat /\ s.inText \in BOOLEAN /\ 0 \in Nat
      /\ (IF s.depth > 0 THEN s.depth - 1 ELSE s.depth) \in Nat
  BY DEF ScanType
<1>2. CASE s.inText
  BY <1>1, <1>2, TextStepIs
<1>3. CASE ~s.inText
  <2>1. CASE At(log, s.pos) = SYN
    BY <1>1, <1>3, <2>1, OutsideStepIs
  <2>2. CASE At(log, s.pos) # SYN
    BY <1>1, <1>3, <2>2, OutsideStepIs
  <2> QED
    BY <2>1, <2>2
<1> QED
  BY <1>2, <1>3

LEMMA StepCommits ==
  ASSUME NEW log, NEW s \in ScanType, At(log, s.pos) = ETB
  PROVE  ScanStep(log, s) = CommitBlock(log, s)
BY TextStepIs, OutsideStepIs

(* A commit: the block before the ETB, and the scanner behind the payload. *)
LEMMA CommitIs ==
  ASSUME NEW log \in Seq(Byte), NEW s \in ScanType, s.pos < Len(log)
  PROVE  LET p == PayloadEnd(log, s.pos + 1) IN
         /\ p \in (s.pos + 1) .. Len(log)
         /\ CommitBlock(log, s) =
              [pos |-> p, blockStart |-> p, inText |-> FALSE, depth |-> 0,
               blocks |-> Append(s.blocks, [start |-> s.blockStart, stop |-> s.pos]),
               damaged |-> IF s.inText \/ s.depth > 0
                           THEN s.damaged \cup {Len(s.blocks) + 1} ELSE s.damaged,
               committedEnd |-> p]
         /\ CommitBlock(log, s) \in ScanType
<1> DEFINE p == PayloadEnd(log, s.pos + 1)
           block == [start |-> s.blockStart, stop |-> s.pos]
           damaged == IF s.inText \/ s.depth > 0
                      THEN s.damaged \cup {Len(s.blocks) + 1} ELSE s.damaged
           t == [pos |-> p, blockStart |-> p, inText |-> FALSE, depth |-> 0,
                 blocks |-> Append(s.blocks, block), damaged |-> damaged, committedEnd |-> p]
<1>1. s.pos \in Nat /\ s.pos + 1 \in Nat /\ s.pos + 1 <= Len(log)
  BY DEF ScanType
<1>2. p \in (s.pos + 1) .. Len(log)
  BY <1>1, PayloadEndStops
<1>3. t \in ScanType
  <2>1. p \in Nat
    BY <1>1, <1>2
  <2>2. Append(s.blocks, block) \in Seq(BlockType)
    <3>1. block \in BlockType /\ s.blocks \in Seq(BlockType)
      BY DEF ScanType, BlockType
    <3> QED
      BY <3>1
  <2>3. damaged \in SUBSET (Nat \ {0})
    <3>1. Len(s.blocks) + 1 \in Nat \ {0} /\ s.damaged \in SUBSET (Nat \ {0})
      BY DEF ScanType
    <3> QED
      BY <3>1
  <2> HIDE DEF p, block, damaged
  <2> QED
    BY <2>1, <2>2, <2>3 DEF ScanType
<1>4. CommitBlock(log, s) = t
  <2> DEFINE u == [s EXCEPT !.blocks = Append(@, block), !.damaged = damaged,
                            !.committedEnd = p, !.pos = p, !.blockStart = p,
                            !.inText = FALSE, !.depth = 0]
  <2>1. CommitBlock(log, s) = u
    BY Zenon DEF CommitBlock
  <2>2. Append(s.blocks, block) = t.blocks /\ t.blocks \in Seq(BlockType)
        /\ damaged = t.damaged /\ t.damaged \in SUBSET (Nat \ {0}) /\ p \in Nat
    BY <1>3 DEF ScanType
  <2> HIDE DEF p, block, damaged
  <2>3. /\ u.pos = p /\ u.blockStart = p /\ u.inText = FALSE /\ u.depth = 0
        /\ u.blocks = t.blocks /\ u.damaged = t.damaged /\ u.committedEnd = p
        /\ u \in ScanType
    <3> HIDE DEF t
    <3> QED
      BY <2>2 DEF ScanType
  <2> HIDE DEF u
  <2>4. u = [pos |-> u.pos, blockStart |-> u.blockStart, inText |-> u.inText,
             depth |-> u.depth, blocks |-> u.blocks, damaged |-> u.damaged,
             committedEnd |-> u.committedEnd]
    BY <2>3 DEF ScanType
  <2> QED
    BY <2>1, <2>3, <2>4
<1> QED
  BY <1>2, <1>3, <1>4

(* The scan moves on, and its scanner stays one. *)
LEMMA ScanStepAdvances ==
  ASSUME NEW log \in Seq(Byte), NEW s \in ScanType, s.pos < Len(log)
  PROVE  ScanStep(log, s) \in ScanType /\ s.pos < ScanStep(log, s).pos
<1>0. s.pos \in Nat /\ s.blockStart \in Nat
  BY DEF ScanType
<1>1. CASE At(log, s.pos) = ETB
  <2>1. ScanStep(log, s) = CommitBlock(log, s)
    BY <1>1, StepCommits
  <2> DEFINE p == PayloadEnd(log, s.pos + 1)
  <2>2. p \in (s.pos + 1) .. Len(log) /\ CommitBlock(log, s) \in ScanType
        /\ CommitBlock(log, s).pos = p
    <3> HIDE DEF p
    <3>1. \E bs, d : CommitBlock(log, s) =
             [pos |-> p, blockStart |-> p, inText |-> FALSE, depth |-> 0,
              blocks |-> bs, damaged |-> d, committedEnd |-> p]
      BY CommitIs, Zenon DEF p
    <3>2. p \in (s.pos + 1) .. Len(log) /\ CommitBlock(log, s) \in ScanType
      BY CommitIs, Zenon DEF p
    <3> QED
      BY <3>1, <3>2
  <2> HIDE DEF p
  <2>3. s.pos < p
    BY <1>0, <2>2
  <2> QED
    BY <2>1, <2>2, <2>3
<1>2. CASE At(log, s.pos) # ETB
  <2>1. PICK n \in {1, 2}, k \in {s.blockStart, s.pos}, x \in BOOLEAN, d \in Nat :
           ScanStep(log, s) = Passed(s, n, k, x, d)
    BY <1>2, StepPasses
  <2>2. Passed(s, n, k, x, d) \in ScanType
    BY <1>0, PassedType
  <2>3. Passed(s, n, k, x, d).pos = s.pos + n
    BY DEF Passed
  <2> QED
    BY <1>0, <2>1, <2>2, <2>3
<1> QED
  BY <1>1, <1>2
-----------------------------------------------------------------------------
(* The function that Scan applies: where the scan of a log ends from s. *)
ScanEnd(log) ==
  CHOOSE end : end = [s \in ScanType |-> IF s.pos < Len(log) THEN end[ScanStep(log, s)] ELSE s]

LEMMA ScanEndUnfolds ==
  ASSUME NEW log \in Seq(Byte)
  PROVE  /\ ScanEnd(log) = [s \in ScanType |->
                IF s.pos < Len(log) THEN ScanEnd(log)[ScanStep(log, s)] ELSE s]
         /\ Scan(log) = ScanEnd(log)[NewScan]
         /\ NewScan \in ScanType
<1> DEFINE D == ScanType
           F == [ScanType -> ScanType]
           N == Len(log)
           Body(f, s) == IF s.pos < N THEN f[ScanStep(log, s)] ELSE s
           G == [f \in F |-> [s \in D |-> Body(f, s)]]
           m == [s \in D |-> IF s.pos < N THEN N - s.pos ELSE 0]
<1>0. N \in Nat /\ \A s \in D : s.pos \in Nat
  BY DEF ScanType
<1>n. N \in Nat
  OBVIOUS
<1>1. NewScan \in ScanType
  BY DEF NewScan, ScanType
<1>2. \A s \in D : s.pos < N => ScanStep(log, s) \in D /\ s.pos < ScanStep(log, s).pos
  BY ScanStepAdvances
<1>3. \A f \in F, s \in D : Body(f, s) \in ScanType
  BY <1>2
<1>4. \E f \in F : f = G[f]
  <2>1. G \in [F -> F]
    <3> HIDE DEF Body, D
    <3> QED
      BY <1>3 DEF D
  <2>2. m \in [D -> 0 .. N]
    <3>1. \A s \in D : (IF s.pos < N THEN N - s.pos ELSE 0) \in 0 .. N
      BY <1>0
    <3> HIDE DEF D, N
    <3> QED
      BY <3>1
  <2>3. F # {}
    <3>1. [s \in ScanType |-> s] \in F
      OBVIOUS
    <3> QED
      BY <3>1
  <2>4. \A f \in F : f = [s \in D |-> f[s]]
    OBVIOUS
  <2>5. ASSUME NEW f \in F, NEW g \in F, NEW s \in D,
               \A r \in D : m[r] < m[s] => f[r] = g[r]
        PROVE  G[f][s] = G[g][s]
    <3>1. CASE s.pos < N
      <4> DEFINE r == ScanStep(log, s)
      <4>1. r \in D /\ s.pos < r.pos /\ r.pos \in Nat /\ s.pos \in Nat
        BY <1>0, <1>2, <3>1
      <4>2. m[r] = (IF r.pos < N THEN N - r.pos ELSE 0) /\ m[s] = N - s.pos
        BY <3>1, <4>1
      <4> HIDE DEF r, m, N
      <4>3. m[r] < m[s]
        BY <1>0, <3>1, <4>1, <4>2
      <4>4. f[r] = g[r]
        BY <2>5, <4>1, <4>3
      <4>5. Body(f, s) = Body(g, s)
        BY <4>4 DEF r
      <4> HIDE DEF Body
      <4> QED
        BY <4>5
    <3>2. CASE ~(s.pos < N)
      BY <3>2
    <3> QED
      BY <3>1, <3>2
  <2>6. Contracts(D, F, m, G)
    BY <2>5 DEF Contracts
  <2> HIDE DEF F, D, m, G, N
  <2> QED
    BY <1>n, <2>1, <2>2, <2>3, <2>4, <2>6, Fixpoint
<1>5. \E f : f = [s \in ScanType |-> IF s.pos < Len(log) THEN f[ScanStep(log, s)] ELSE s]
  BY <1>4
<1>6. ScanEnd(log) = [s \in ScanType |->
                IF s.pos < Len(log) THEN ScanEnd(log)[ScanStep(log, s)] ELSE s]
  BY <1>5 DEF ScanEnd
<1>7. Scan(log) = ScanEnd(log)[NewScan]
  BY DEF Scan, ScanEnd
<1> QED
  BY <1>1, <1>6, <1>7

(* Induction along the scan of a log. *)
LEMMA ScanInduct ==
  ASSUME NEW log \in Seq(Byte), NEW T,
         \A s \in ScanType : (s.pos < Len(log) => ScanStep(log, s) \in T) => s \in T
  PROVE  ScanType \subseteq T
<1> DEFINE N == Len(log)
           m == [s \in ScanType |-> IF s.pos < N THEN N - s.pos ELSE 0]
<1>0. N \in Nat /\ \A s \in ScanType : s.pos \in Nat
  BY DEF ScanType
<1>1. m \in [ScanType -> Nat]
  <2>1. \A s \in ScanType : (IF s.pos < N THEN N - s.pos ELSE 0) \in Nat
    BY <1>0
  <2> HIDE DEF N
  <2> QED
    BY <2>1
<1>2. ASSUME NEW s \in ScanType, \A r \in ScanType : m[r] < m[s] => r \in T
      PROVE  s \in T
  <2>1. ASSUME s.pos < N PROVE ScanStep(log, s) \in T
    <3> DEFINE r == ScanStep(log, s)
    <3>1. r \in ScanType /\ s.pos < r.pos /\ r.pos \in Nat /\ s.pos \in Nat
      BY <1>0, <2>1, ScanStepAdvances
    <3>2. m[r] = (IF r.pos < N THEN N - r.pos ELSE 0) /\ m[s] = N - s.pos
      BY <2>1, <3>1
    <3> HIDE DEF r, m, N
    <3>3. m[r] < m[s]
      BY <1>0, <2>1, <3>1, <3>2
    <3> QED
      BY <1>2, <3>1, <3>3 DEF r
  <2> QED
    BY <2>1
<1> HIDE DEF m
<1> QED
  BY <1>1, <1>2, MeasureInduct

LEMMA ScanEndType ==
  ASSUME NEW log \in Seq(Byte), NEW s \in ScanType
  PROVE  ScanEnd(log)[s] \in ScanType /\ ~(ScanEnd(log)[s].pos < Len(log))
<1> DEFINE T == {r \in ScanType : /\ ScanEnd(log)[r] \in ScanType
                                  /\ ~(ScanEnd(log)[r].pos < Len(log))}
<1>1. ASSUME NEW r \in ScanType, r.pos < Len(log) => ScanStep(log, r) \in T
      PROVE  r \in T
  <2>1. ScanEnd(log)[r] = IF r.pos < Len(log) THEN ScanEnd(log)[ScanStep(log, r)] ELSE r
    BY ScanEndUnfolds
  <2> QED
    BY <1>1, <2>1
<1>2. ScanType \subseteq T
  <2> HIDE DEF T
  <2> QED
    BY <1>1, ScanInduct
<1> QED
  BY <1>2

-----------------------------------------------------------------------------
(* EvenRun along a scan: behind a byte that is no DLE the run is empty, an *)
(* escaped DLE keeps it even, and behind one DLE more it is odd.           *)
LEMMA EvenRunAfterOther ==
  ASSUME NEW log, NEW p \in Nat, At(log, p) # DLE
  PROVE  EvenRun(log, p + 1)
<1>1. /\ 0 \in 0 .. (p + 1) /\ 0 % 2 = 0
      /\ (p + 1 - 0) .. (p + 1 - 1) = {}
      /\ p + 1 - 0 - 1 = p
  OBVIOUS
<1> QED
  BY <1>1 DEF EvenRun

LEMMA EvenRunAfterPair ==
  ASSUME NEW log, NEW p \in Nat, EvenRun(log, p),
         At(log, p) = DLE, At(log, p + 1) = DLE
  PROVE  EvenRun(log, p + 2)
<1>1. PICK k \in 0 .. p : /\ k % 2 = 0
                          /\ \A i \in (p - k) .. (p - 1) : At(log, i) = DLE
                          /\ p - k = 0 \/ At(log, p - k - 1) # DLE
  BY DEF EvenRun
<1>2. /\ k + 2 \in 0 .. (p + 2) /\ (k + 2) % 2 = 0
      /\ p + 2 - (k + 2) = p - k
  BY <1>1
<1>3. \A i \in (p - k) .. (p + 2 - 1) : At(log, i) = DLE
  <2> TAKE i \in (p - k) .. (p + 2 - 1)
  <2>1. i \in (p - k) .. (p - 1) \/ i = p \/ i = p + 1
    OBVIOUS
  <2> QED
    BY <2>1, <1>1
<1> QED
  BY <1>1, <1>2, <1>3 DEF EvenRun

LEMMA OddRunAfterDLE ==
  ASSUME NEW log, NEW p \in Nat, EvenRun(log, p), At(log, p) = DLE
  PROVE  ~EvenRun(log, p + 1)
<1> SUFFICES ASSUME EvenRun(log, p + 1) PROVE FALSE
  OBVIOUS
<1>1. PICK k \in 0 .. p : /\ k % 2 = 0
                          /\ \A i \in (p - k) .. (p - 1) : At(log, i) = DLE
                          /\ p - k = 0 \/ At(log, p - k - 1) # DLE
  BY DEF EvenRun
<1>2. PICK j \in 0 .. (p + 1) :
               /\ j % 2 = 0
               /\ \A i \in (p + 1 - j) .. (p + 1 - 1) : At(log, i) = DLE
               /\ p + 1 - j = 0 \/ At(log, p + 1 - j - 1) # DLE
  BY DEF EvenRun
<1>3. j < k + 1 \/ j > k + 1
  BY <1>1, <1>2
<1>4. CASE j < k + 1
  <2>1. p + 1 - j # 0 /\ p + 1 - j - 1 \in (p - k) .. p
    BY <1>4
  <2>2. \A i \in (p - k) .. p : At(log, i) = DLE
    BY <1>1
  <2> QED
    BY <2>1, <2>2, <1>2
<1>5. CASE j > k + 1
  <2>1. p - k # 0 /\ p - k - 1 \in (p + 1 - j) .. p
    BY <1>5
  <2> QED
    BY <2>1, <1>1, <1>2
<1> QED
  BY <1>3, <1>4, <1>5
-----------------------------------------------------------------------------
(* The marks of the backward scan against the blocks of the forward one:   *)
(* every mark the scanner has passed ended a block, and the ETB of a block *)
(* that is not damaged is a mark.  Wherever the scanner reads text, or     *)
(* would commit a block undamaged, it stands behind an even run of DLEs.   *)
Marked(log, s) ==
  LET m == Len(s.blocks) IN
  /\ s.committedEnd <= s.pos
  /\ \A p \in CommitMarks(log) :
       p < s.pos => \E i \in 1 .. m : s.blocks[i].stop = p
  /\ \A i \in 1 .. m : /\ s.blocks[i].stop < s.committedEnd
                       /\ s.blocks[i].stop <= s.blocks[m].stop
                       /\ i \notin s.damaged => s.blocks[i].stop \in CommitMarks(log)
  /\ m = 0 => s.committedEnd = 0
  /\ m # 0 => s.committedEnd = PayloadEnd(log, s.blocks[m].stop + 1)
  /\ (s.inText \/ s.depth = 0) /\ s.pos <= Len(log) => EvenRun(log, s.pos)

LEMMA PassedMarks ==
  ASSUME NEW log \in Seq(Byte), NEW s \in ScanType, Marked(log, s),
         NEW n \in Nat, NEW k \in Nat, NEW x \in BOOLEAN, NEW d \in Nat,
         \A p \in CommitMarks(log) : p < s.pos + n => p < s.pos,
         (x \/ d = 0) /\ s.pos + n <= Len(log) => EvenRun(log, s.pos + n)
  PROVE  Marked(log, Passed(s, n, k, x, d))
<1> DEFINE t == Passed(s, n, k, x, d)
<1>1. /\ t.pos = s.pos + n /\ t.inText = x /\ t.depth = d
      /\ t.blocks = s.blocks /\ t.damaged = s.damaged /\ t.committedEnd = s.committedEnd
  BY DEF Passed
<1>2. s.pos \in Nat /\ s.committedEnd \in Nat
  BY DEF ScanType
<1> HIDE DEF t
<1>3. t.committedEnd <= t.pos
  BY <1>1, <1>2 DEF Marked
<1>4. \A p \in CommitMarks(log) :
        p < t.pos => \E i \in 1 .. Len(t.blocks) : t.blocks[i].stop = p
  BY <1>1 DEF Marked
<1>5. (t.inText \/ t.depth = 0) /\ t.pos <= Len(log) => EvenRun(log, t.pos)
  BY <1>1
<1> QED
  BY <1>1, <1>3, <1>4, <1>5, Zenon DEF Marked, t

LEMMA CommitMarksBlock ==
  ASSUME NEW log \in Seq(Byte), NEW s \in ScanType, s.pos < Len(log), Marked(log, s),
         At(log, s.pos) = ETB
  PROVE  Marked(log, CommitBlock(log, s))
<1> DEFINE t == CommitBlock(log, s)
           e == PayloadEnd(log, s.pos + 1)
           m == Len(s.blocks)
           block == [start |-> s.blockStart, stop |-> s.pos]
<1>0. /\ s.pos \in Nat /\ s.blockStart \in Nat /\ s.depth \in Nat /\ s.committedEnd \in Nat
      /\ s.blocks \in Seq(BlockType) /\ m \in Nat /\ Len(log) \in Nat
      /\ s.damaged \in SUBSET (Nat \ {0})
  BY DEF ScanType
<1>1. /\ e \in (s.pos + 1) .. Len(log)
      /\ t.pos = e /\ t.inText = FALSE /\ t.depth = 0 /\ t.committedEnd = e
      /\ t.blocks = Append(s.blocks, block)
      /\ t.damaged = IF s.inText \/ s.depth > 0 THEN s.damaged \cup {m + 1} ELSE s.damaged
  <2> DEFINE bs == Append(s.blocks, block)
             dm == IF s.inText \/ s.depth > 0 THEN s.damaged \cup {m + 1} ELSE s.damaged
  <2>1. /\ e \in (s.pos + 1) .. Len(log)
        /\ t = [pos |-> e, blockStart |-> e, inText |-> FALSE, depth |-> 0,
                blocks |-> bs, damaged |-> dm, committedEnd |-> e]
    BY CommitIs, Zenon
  <2> HIDE DEF t, e, bs, dm
  <2> QED
    BY <2>1 DEF bs, dm
<1>2. \A q \in (s.pos + 1) .. (e - 1) : At(log, q) # ETB /\ At(log, q) # DLE
  <2>1. s.pos + 1 \in Nat /\ s.pos + 1 <= Len(log)
    BY <1>0
  <2> QED
    BY <2>1, PayloadEndStops
<1>3. block \in BlockType /\ block.stop = s.pos
  BY <1>0 DEF BlockType
<1> HIDE DEF t, e, block
<1>4. /\ Len(t.blocks) = m + 1 /\ t.blocks[m + 1].stop = s.pos
      /\ \A i \in 1 .. m : t.blocks[i] = s.blocks[i]
  BY <1>0, <1>1, <1>3
<1>5. \A i \in 1 .. m : s.blocks[i].stop < s.committedEnd /\ s.blocks[i].stop \in Nat
                        /\ (i \notin s.damaged => s.blocks[i].stop \in CommitMarks(log))
                        /\ s.committedEnd <= s.pos
  <2>1. \A i \in 1 .. m : s.blocks[i] \in BlockType
    BY <1>0
  <2> QED
    BY <2>1 DEF Marked, BlockType
<1>6. e \in Nat /\ s.pos < e /\ e <= Len(log)
  BY <1>0, <1>1
<1>7. s.pos \in CommitMarks(log) \/ m + 1 \in t.damaged
  <2>1. CASE s.inText \/ s.depth > 0
    BY <1>1, <2>1
  <2>2. CASE ~(s.inText \/ s.depth > 0)
    <3>1. EvenRun(log, s.pos)
      BY <1>0, <2>2 DEF Marked
    <3> QED
      BY <1>0, <3>1 DEF CommitMarks
  <2> QED
    BY <2>1, <2>2
<1>8. \A p \in CommitMarks(log) : p < e => p <= s.pos
  BY <1>0, <1>2, <1>6 DEF CommitMarks
<1>9. \A p \in CommitMarks(log) :
        p < t.pos => \E i \in 1 .. Len(t.blocks) : t.blocks[i].stop = p
  <2> SUFFICES ASSUME NEW p \in CommitMarks(log), p < e
               PROVE  \E i \in 1 .. (m + 1) : t.blocks[i].stop = p
    BY <1>1, <1>4
  <2>1. p \in Nat /\ p <= s.pos
    BY <1>8 DEF CommitMarks
  <2>2. CASE p = s.pos
    <3>1. m + 1 \in 1 .. (m + 1)
      BY <1>0
    <3> QED
      BY <1>4, <2>2, <3>1
  <2>3. CASE p # s.pos
    <3>1. PICK i \in 1 .. m : s.blocks[i].stop = p
      BY <1>0, <2>1, <2>3 DEF Marked
    <3>2. i \in 1 .. (m + 1)
      BY <1>0
    <3> QED
      BY <1>4, <3>1, <3>2
  <2> QED
    BY <2>2, <2>3
<1>10. \A i \in 1 .. (m + 1) : /\ t.blocks[i].stop < e
                               /\ t.blocks[i].stop <= s.pos
                               /\ i \notin t.damaged => t.blocks[i].stop \in CommitMarks(log)
  <2> TAKE i \in 1 .. (m + 1)
  <2>1. CASE i = m + 1
    BY <1>0, <1>4, <1>6, <1>7, <2>1
  <2>2. CASE i # m + 1
    <3>1. i \in 1 .. m
      BY <1>0, <2>2
    <3>2. i \notin t.damaged => i \notin s.damaged
      BY <1>1
    <3>3. t.blocks[i].stop = s.blocks[i].stop
      BY <1>4, <3>1
    <3> QED
      BY SMTT(60), <1>0, <1>5, <1>6, <3>1, <3>2, <3>3
  <2> QED
    BY <2>1, <2>2
<1>11. t.pos <= Len(log) => EvenRun(log, t.pos)
  <2>1. e - 1 \in Nat /\ e - 1 \in s.pos .. (e - 1) /\ e - 1 + 1 = e
    BY <1>0, <1>6
  <2>2. At(log, e - 1) # DLE
    <3>1. ETB # DLE
      BY DEF ETB, DLE
    <3>2. e - 1 = s.pos \/ e - 1 \in (s.pos + 1) .. (e - 1)
      BY <1>0, <2>1
    <3> QED
      BY <1>2, <3>1, <3>2
  <2>3. EvenRun(log, e - 1 + 1)
    BY <2>1, <2>2, EvenRunAfterOther
  <2> QED
    BY <1>1, <2>1, <2>3
<1>12. m + 1 # 0 /\ t.committedEnd = PayloadEnd(log, t.blocks[m + 1].stop + 1)
  <2>1. t.committedEnd = PayloadEnd(log, s.pos + 1)
    BY <1>1 DEF e
  <2> QED
    BY <1>0, <1>4, <2>1
<1>13. t.committedEnd <= t.pos
  BY <1>1, <1>6
<1>14. \A i \in 1 .. (m + 1) : /\ t.blocks[i].stop < t.committedEnd
                               /\ t.blocks[i].stop <= t.blocks[m + 1].stop
                               /\ i \notin t.damaged => t.blocks[i].stop \in CommitMarks(log)
  BY <1>1, <1>4, <1>10
<1> HIDE DEF m
<1>15. Marked(log, t)
  BY <1>4, <1>9, <1>11, <1>12, <1>13, <1>14, Zenon DEF Marked
<1> QED
  BY <1>15 DEF t

LEMMA StepMarks ==
  ASSUME NEW log \in Seq(Byte), NEW s \in ScanType, s.pos < Len(log), Marked(log, s)
  PROVE  Marked(log, ScanStep(log, s))
<1> DEFINE b == At(log, s.pos)
           t == ScanStep(log, s)
<1>0. /\ s.pos \in Nat /\ s.blockStart \in Nat /\ s.depth \in Nat /\ s.depth + 1 \in Nat
      /\ Len(log) \in Nat /\ 0 \in Nat /\ 1 \in Nat /\ 2 \in Nat
      /\ (IF s.depth > 0 THEN s.depth - 1 ELSE s.depth) \in Nat
      /\ s.inText \in BOOLEAN
  BY DEF ScanType
<1>1. CASE b = ETB
  BY <1>1, StepCommits, CommitMarksBlock
<1>2. ASSUME b # ETB PROVE \A p \in CommitMarks(log) : p < s.pos + 1 => p < s.pos
  BY <1>0, <1>2 DEF CommitMarks
<1>3. CASE b # ETB /\ b # DLE
  <2>1. EvenRun(log, s.pos + 1)
    BY <1>0, <1>3, EvenRunAfterOther
  <2>2. \E k \in {s.blockStart, s.pos}, x \in BOOLEAN, d \in Nat : t = Passed(s, 1, k, x, d)
    <3>1. CASE s.inText
      BY <1>0, <1>3, <3>1, TextStepIs
    <3>2. CASE ~s.inText
      <4>1. CASE b = SYN
        BY <1>0, <3>2, <4>1, OutsideStepIs
      <4>2. CASE b # SYN
        BY <1>0, <1>3, <3>2, <4>2, OutsideStepIs
      <4> QED
        BY <4>1, <4>2
    <3> QED
      BY <3>1, <3>2
  <2>3. PICK k \in {s.blockStart, s.pos}, x \in BOOLEAN, d \in Nat : t = Passed(s, 1, k, x, d)
    BY <2>2
  <2>4. k \in Nat
    BY <1>0
  <2> QED
    BY <1>0, <1>2, <1>3, <2>1, <2>3, <2>4, PassedMarks
<1>4. CASE b = DLE /\ ~s.inText
  <2>1. t = Passed(s, 1, s.blockStart, FALSE, s.depth + 1)
    BY <1>4, OutsideStepIs
  <2>2. ~(FALSE \/ s.depth + 1 = 0)
    BY <1>0
  <2>3. b # ETB
    BY <1>4 DEF DLE, ETB
  <2> DEFINE d == s.depth + 1
             k == s.blockStart
  <2>4. t = Passed(s, 1, k, FALSE, d)
    BY <2>1
  <2>5. d \in Nat /\ k \in Nat /\ FALSE \in BOOLEAN /\ 1 \in Nat /\ ~(FALSE \/ d = 0)
    BY <1>0, <2>2
  <2> HIDE DEF d, k, t
  <2>6. Marked(log, Passed(s, 1, k, FALSE, d))
    BY <1>2, <2>3, <2>5, PassedMarks
  <2> QED
    BY <2>4, <2>6 DEF t
<1>5. CASE b = DLE /\ s.inText
  <2>1. t = Passed(s, 2, s.blockStart, TRUE, s.depth)
    BY <1>5, TextStepIs
  <2>2. EvenRun(log, s.pos)
    BY <1>0, <1>5 DEF Marked
  <2>3. ~EvenRun(log, s.pos + 1)
    BY <1>0, <1>5, <2>2, OddRunAfterDLE
  <2>4. b # ETB
    BY <1>5 DEF DLE, ETB
  <2>5. \A p \in CommitMarks(log) : p < s.pos + 2 => p < s.pos
    BY <1>0, <2>3, <2>4 DEF CommitMarks
  <2>6. EvenRun(log, s.pos + 2)
    <3>1. CASE At(log, s.pos + 1) = DLE
      BY <1>0, <1>5, <2>2, <3>1, EvenRunAfterPair
    <3>2. CASE At(log, s.pos + 1) # DLE
      <4>1. s.pos + 1 \in Nat /\ s.pos + 1 + 1 = s.pos + 2
        BY <1>0
      <4>2. EvenRun(log, s.pos + 1 + 1)
        BY <3>2, <4>1, EvenRunAfterOther
      <4> QED
        BY <4>1, <4>2
    <3> QED
      BY <3>1, <3>2
  <2> DEFINE d == s.depth
             k == s.blockStart
  <2>7. t = Passed(s, 2, k, TRUE, d)
    BY <2>1
  <2>8. d \in Nat /\ k \in Nat /\ TRUE \in BOOLEAN /\ 2 \in Nat
    BY <1>0
  <2> HIDE DEF d, k, t
  <2>9. Marked(log, Passed(s, 2, k, TRUE, d))
    BY <2>5, <2>6, <2>8, PassedMarks
  <2> QED
    BY <2>7, <2>9 DEF t
<1> QED
  BY <1>1, <1>3, <1>4, <1>5

(* So it is when the scan ends. *)
LEMMA ScanMarks ==
  ASSUME NEW log \in Seq(Byte)
  PROVE  Marked(log, Scan(log)) /\ Len(log) <= Scan(log).pos
<1> DEFINE T == {r \in ScanType : Marked(log, r) => Marked(log, ScanEnd(log)[r])}
<1>1. ASSUME NEW r \in ScanType, r.pos < Len(log) => ScanStep(log, r) \in T
      PROVE  r \in T
  <2>1. CASE r.pos < Len(log)
    <3>1. ScanEnd(log)[r] = ScanEnd(log)[ScanStep(log, r)]
      BY <2>1, ScanEndUnfolds
    <3> QED
      BY <1>1, <2>1, <3>1, StepMarks
  <2>2. CASE ~(r.pos < Len(log))
    BY <2>2, ScanEndUnfolds
  <2> QED
    BY <2>1, <2>2
<1>2. ScanType \subseteq T
  <2> HIDE DEF T
  <2> QED
    BY <1>1, ScanInduct
<1>3. NewScan \in ScanType /\ Marked(log, NewScan)
  <2>1. NewScan \in ScanType /\ NewScan.pos = 0 /\ NewScan.committedEnd = 0
        /\ NewScan.blocks = <<>>
    BY DEF NewScan, ScanType
  <2>2. \A p \in CommitMarks(log) : ~(p < 0)
    BY DEF CommitMarks
  <2>3. EvenRun(log, 0)
    <3>1. 0 \in 0 .. 0 /\ 0 % 2 = 0 /\ (0 - 0) .. (0 - 1) = {} /\ 0 - 0 = 0
      OBVIOUS
    <3> QED
      BY <3>1 DEF EvenRun
  <2> QED
    BY <2>1, <2>2, <2>3 DEF Marked
<1>4. Scan(log) = ScanEnd(log)[NewScan]
  BY ScanEndUnfolds
<1>5. Scan(log) \in ScanType /\ ~(Scan(log).pos < Len(log))
  BY <1>3, <1>4, ScanEndType
<1>6. Len(log) <= Scan(log).pos
  <2>1. Scan(log).pos \in Nat /\ Len(log) \in Nat
    BY <1>5 DEF ScanType
  <2> QED
    BY <1>5, <2>1
<1> QED
  BY <1>2, <1>3, <1>4, <1>6
-----------------------------------------------------------------------------
(* What was found stays found: the blocks and the damage of a scanner are  *)
(* there when the scan ends.                                               *)
Keeps(s, t) == /\ Len(s.blocks) <= Len(t.blocks)
               /\ \A i \in DOMAIN s.blocks : t.blocks[i] = s.blocks[i]
               /\ s.damaged \subseteq t.damaged

LEMMA KeepsTransitive ==
  ASSUME NEW r \in ScanType, NEW s \in ScanType, NEW t \in ScanType,
         Keeps(r, s), Keeps(s, t)
  PROVE  Keeps(r, t)
<1>1. /\ r.blocks \in Seq(BlockType) /\ s.blocks \in Seq(BlockType)
      /\ t.blocks \in Seq(BlockType)
  BY DEF ScanType
<1>2. /\ DOMAIN r.blocks = 1 .. Len(r.blocks) /\ DOMAIN s.blocks = 1 .. Len(s.blocks)
      /\ Len(r.blocks) \in Nat /\ Len(s.blocks) \in Nat /\ Len(t.blocks) \in Nat
  BY <1>1
<1> QED
  BY <1>2 DEF Keeps

LEMMA StepKeeps ==
  ASSUME NEW log \in Seq(Byte), NEW s \in ScanType, s.pos < Len(log)
  PROVE  Keeps(s, ScanStep(log, s))
<1>0. s.blocks \in Seq(BlockType) /\ s.pos \in Nat /\ s.blockStart \in Nat
  BY DEF ScanType
<1>1. CASE At(log, s.pos) = ETB
  <2> DEFINE block == [start |-> s.blockStart, stop |-> s.pos]
             t == ScanStep(log, s)
  <2>1. t.blocks = Append(s.blocks, block) /\ s.damaged \subseteq t.damaged
    <3>1. t = CommitBlock(log, s)
      BY <1>1, StepCommits
    <3>2. \E p, d : /\ t = [pos |-> p, blockStart |-> p, inText |-> FALSE, depth |-> 0,
                            blocks |-> Append(s.blocks, block), damaged |-> d,
                            committedEnd |-> p]
                    /\ s.damaged \subseteq d
      <4>1. s.damaged \subseteq (IF s.inText \/ s.depth > 0
                           THEN s.damaged \cup {Len(s.blocks) + 1} ELSE s.damaged)
        OBVIOUS
      <4> QED
        BY <3>1, <4>1, CommitIs, Zenon
    <3> QED
      BY <3>2
  <2>2. block \in BlockType
    BY <1>0 DEF BlockType
  <2> HIDE DEF block, t
  <2>3. /\ Len(Append(s.blocks, block)) = Len(s.blocks) + 1
        /\ \A i \in DOMAIN s.blocks : Append(s.blocks, block)[i] = s.blocks[i]
    BY <1>0, <2>2
  <2>4. Len(s.blocks) \in Nat
    BY <1>0
  <2> QED
    BY <2>1, <2>3, <2>4 DEF Keeps, t
<1>2. CASE At(log, s.pos) # ETB
  <2>1. PICK n \in {1, 2}, k \in {s.blockStart, s.pos}, x \in BOOLEAN, d \in Nat :
           ScanStep(log, s) = Passed(s, n, k, x, d)
    BY <1>2, StepPasses
  <2>2. Len(s.blocks) \in Nat
    BY <1>0
  <2> QED
    BY <2>1, <2>2 DEF Keeps, Passed
<1> QED
  BY <1>1, <1>2

LEMMA ScanEndKeeps ==
  ASSUME NEW log \in Seq(Byte), NEW s \in ScanType
  PROVE  Keeps(s, ScanEnd(log)[s])
<1> DEFINE T == {r \in ScanType : Keeps(r, ScanEnd(log)[r])}
<1>1. ASSUME NEW r \in ScanType, r.pos < Len(log) => ScanStep(log, r) \in T
      PROVE  r \in T
  <2>1. CASE r.pos < Len(log)
    <3>1. ScanEnd(log)[r] = ScanEnd(log)[ScanStep(log, r)]
      BY <2>1, ScanEndUnfolds
    <3>2. ScanStep(log, r) \in ScanType /\ Keeps(ScanStep(log, r), ScanEnd(log)[r])
      BY <1>1, <2>1, <3>1
    <3>3. Keeps(r, ScanStep(log, r)) /\ ScanEnd(log)[r] \in ScanType
      BY <2>1, StepKeeps, ScanEndType
    <3>4. Keeps(r, ScanEnd(log)[r])
      BY <3>2, <3>3, KeepsTransitive
    <3> QED
      BY <3>4
  <2>2. CASE ~(r.pos < Len(log))
    <3>1. ScanEnd(log)[r] = r
      BY <2>2, ScanEndUnfolds
    <3>2. Len(r.blocks) \in Nat
      BY DEF ScanType
    <3> QED
      BY <3>1, <3>2 DEF Keeps
  <2> QED
    BY <2>1, <2>2
<1>2. ScanType \subseteq T
  <2> HIDE DEF T
  <2> QED
    BY <1>1, ScanInduct
<1> QED
  BY <1>2

(* Appended bytes that begin with a code are read as if the scan of what   *)
(* is before them had waited for them.                                     *)
LEMMA ScanExtends ==
  ASSUME NEW log \in Seq(Byte), NEW w \in Seq(Byte), BeginsWithCode(w), NEW s \in ScanType
  PROVE  ScanEnd(log \o w)[s] = ScanEnd(log \o w)[ScanEnd(log)[s]]
<1> DEFINE l == log \o w
           T == {r \in ScanType : ScanEnd(l)[r] = ScanEnd(l)[ScanEnd(log)[r]]}
<1>0. /\ l \in Seq(Byte) /\ Len(l) = Len(log) + Len(w) /\ Len(log) \in Nat /\ Len(w) \in Nat
      /\ \A i \in 0 .. (Len(log) - 1) : At(l, i) = At(log, i)
  BY AtConcat
<1>1. ASSUME NEW r \in ScanType, r.pos < Len(log) => ScanStep(log, r) \in T
      PROVE  r \in T
  <2>0. r.pos \in Nat
    BY DEF ScanType
  <2>1. CASE r.pos < Len(log)
    <3>1. At(l, r.pos) = At(log, r.pos)
      BY <1>0, <2>0, <2>1
    <3>2. PayloadEnd(l, r.pos + 1) = PayloadEnd(log, r.pos + 1)
      BY <2>0, <2>1, PayloadEndExtends
    <3>3. ScanStep(l, r) = ScanStep(log, r)
      BY <3>1, <3>2 DEF ScanStep, TextStep, OutsideStep, CommitBlock
    <3>4. ScanEnd(log)[r] = ScanEnd(log)[ScanStep(log, r)]
      BY <2>1, ScanEndUnfolds
    <3>5. ScanEnd(l)[r] = ScanEnd(l)[ScanStep(log, r)]
      <4>1. r.pos < Len(l)
        BY <1>0, <2>0, <2>1
      <4>2. ScanEnd(l)[r] = ScanEnd(l)[ScanStep(l, r)]
        <5> HIDE DEF l
        <5> QED
          BY <1>0, <4>1, ScanEndUnfolds
      <4> QED
        BY <3>3, <4>2
    <3> QED
      BY <1>1, <2>1, <3>4, <3>5
  <2>2. CASE ~(r.pos < Len(log))
    <3>1. ScanEnd(log)[r] = r
      BY <2>2, ScanEndUnfolds
    <3> QED
      BY <3>1
  <2> QED
    BY <2>1, <2>2
<1>2. ScanType \subseteq T
  <2> HIDE DEF T
  <2> QED
    BY <1>1, ScanInduct
<1> QED
  BY <1>2
-----------------------------------------------------------------------------
(***************************************************************************)
(* A batch by itself is one undamaged block, and the scan of it behind a   *)
(* log takes the same steps.  The scanner s of the batch and the scanner t *)
(* of the log with (some of) the batch at off, which stood at t0 there.    *)
(***************************************************************************)
IsBatch(b) == /\ Scan(b).blocks = <<[start |-> 0, stop |-> Len(b) - 1]>>
              /\ Scan(b).damaged = {}

Rests(t0) == ~t0.inText /\ t0.depth = 0

Tracks(b, s, t, off, t0) ==
  /\ t.pos = off + s.pos
  /\ t.inText = s.inText /\ t.depth = s.depth
  /\ s.blocks = <<>> /\ s.damaged = {}
  /\ t.blocks = t0.blocks /\ t.damaged = t0.damaged /\ t.committedEnd = t0.committedEnd
  /\ s.blockStart = 0 => \/ t.blockStart = t0.blockStart
                         \/ t.blockStart = off /\ At(b, 0) = SYN
  /\ s.pos = 0 => ~s.inText /\ s.depth = 0

LEMMA PassedTracks ==
  ASSUME NEW b, NEW s \in ScanType, NEW t \in ScanType, NEW off \in Nat, NEW t0 \in ScanType,
         Tracks(b, s, t, off, t0),
         NEW n \in {1, 2}, NEW x \in BOOLEAN, NEW d \in Nat, NEW j \in Nat, NEW k \in Nat,
         \/ j = s.blockStart /\ k = t.blockStart
         \/ j = s.pos /\ s.pos > 0
         \/ j = s.blockStart /\ k = off /\ At(b, 0) = SYN
  PROVE  Tracks(b, Passed(s, n, j, x, d), Passed(t, n, k, x, d), off, t0)
<1>1. s.pos \in Nat /\ t.pos \in Nat
  BY DEF ScanType
<1>2. j = 0 => k = t0.blockStart \/ (k = off /\ At(b, 0) = SYN)
  BY <1>1 DEF Tracks
<1>3. t.pos + n = off + (s.pos + n) /\ s.pos + n # 0
  BY <1>1 DEF Tracks
<1> QED
  BY <1>2, <1>3 DEF Tracks, Passed

LEMMA StepTracks ==
  ASSUME NEW b, NEW l, NEW s \in ScanType, NEW t \in ScanType,
         NEW off \in Nat, NEW t0 \in ScanType, Tracks(b, s, t, off, t0),
         At(l, t.pos) = At(b, s.pos), At(b, s.pos) # ETB
  PROVE  Tracks(b, ScanStep(b, s), ScanStep(l, t), off, t0)
<1> DEFINE c == At(b, s.pos)
           lower == IF s.depth > 0 THEN s.depth - 1 ELSE s.depth
<1>1. /\ s.pos \in Nat /\ s.blockStart \in Nat /\ s.depth \in Nat
      /\ t.pos \in Nat /\ t.blockStart \in Nat /\ t.depth = s.depth
      /\ t.inText = s.inText /\ s.depth + 1 \in Nat /\ lower \in Nat
      /\ t.pos = off + s.pos /\ 0 \in Nat
  BY SMTT(60) DEF ScanType, Tracks
<1>n. 1 \in {1, 2} /\ 2 \in {1, 2} /\ TRUE \in BOOLEAN /\ FALSE \in BOOLEAN
  OBVIOUS
<1>2. ASSUME NEW n \in {1, 2}, NEW x \in BOOLEAN, NEW d \in Nat,
             ScanStep(b, s) = Passed(s, n, s.blockStart, x, d),
             ScanStep(l, t) = Passed(t, n, t.blockStart, x, d)
      PROVE  Tracks(b, ScanStep(b, s), ScanStep(l, t), off, t0)
  <2>1. Tracks(b, Passed(s, n, s.blockStart, x, d), Passed(t, n, t.blockStart, x, d), off, t0)
    BY <1>1, PassedTracks
  <2> QED
    BY <1>2, <2>1
<1>3. CASE s.inText
  <2>0. s.pos > 0 /\ t.inText
    BY <1>1, <1>3 DEF Tracks
  <2>1. CASE c = DLE
    <3>1. /\ ScanStep(b, s) = Passed(s, 2, s.blockStart, TRUE, s.depth)
          /\ ScanStep(l, t) = Passed(t, 2, t.blockStart, TRUE, s.depth)
      <4>1. ScanStep(b, s) = Passed(s, 2, s.blockStart, TRUE, s.depth)
        BY <1>1, <1>3, <2>1, TextStepIs
      <4>2. t.inText /\ t.depth = s.depth /\ At(l, t.pos) = DLE
        BY <1>1, <1>3, <2>0, <2>1 DEF Tracks
      <4>3. ScanStep(l, t) = Passed(t, 2, t.blockStart, TRUE, t.depth)
        BY <1>1, <4>2, TextStepIs
      <4> QED
        BY <4>1, <4>2, <4>3
    <3> QED
      BY <1>1, <1>n, <1>2, <3>1
  <2>2. CASE c = ETX
    <3>1. /\ ScanStep(b, s) = Passed(s, 1, s.blockStart, FALSE, s.depth)
          /\ ScanStep(l, t) = Passed(t, 1, t.blockStart, FALSE, s.depth)
      <4>1. ScanStep(b, s) = Passed(s, 1, s.blockStart, FALSE, s.depth)
        BY <1>1, <1>3, <2>2, TextStepIs
      <4>2. t.inText /\ t.depth = s.depth /\ At(l, t.pos) = ETX
        BY <1>1, <1>3, <2>0, <2>2 DEF Tracks
      <4>3. ScanStep(l, t) = Passed(t, 1, t.blockStart, FALSE, t.depth)
        BY <1>1, <4>2, TextStepIs
      <4> QED
        BY <4>1, <4>2, <4>3
    <3> QED
      BY <1>1, <1>n, <1>2, <3>1
  <2>3. CASE c = SYN
    <3>1. /\ ScanStep(b, s) = Passed(s, 1, s.pos, FALSE, 0)
          /\ ScanStep(l, t) = Passed(t, 1, t.pos, FALSE, 0)
      BY <1>1, <1>3, <2>3, TextStepIs
    <3>2. Tracks(b, Passed(s, 1, s.pos, FALSE, 0), Passed(t, 1, t.pos, FALSE, 0), off, t0)
      BY <1>1, <1>n, <2>0, PassedTracks
    <3> QED
      BY <3>1, <3>2
  <2>4. CASE c \in {EOT, EM}
    <3>1. /\ ScanStep(b, s) = Passed(s, 1, s.blockStart, FALSE, 0)
          /\ ScanStep(l, t) = Passed(t, 1, t.blockStart, FALSE, 0)
      BY <1>1, <1>3, <2>4, TextStepIs
    <3> QED
      BY <1>1, <1>n, <1>2, <3>1
  <2>5. CASE c \notin {DLE, ETX, ETB, SYN, EOT, EM}
    <3>1. /\ ScanStep(b, s) = Passed(s, 1, s.blockStart, TRUE, s.depth)
          /\ ScanStep(l, t) = Passed(t, 1, t.blockStart, TRUE, s.depth)
      BY <1>1, <1>3, <2>5, TextStepIs
    <3> QED
      BY <1>1, <1>n, <1>2, <3>1
  <2> QED
    BY <2>1, <2>2, <2>3, <2>4, <2>5
<1>4. CASE ~s.inText
  <2>0. ~t.inText
    BY <1>1, <1>4
  <2>1. CASE c = STX
    <3>1. /\ ScanStep(b, s) = Passed(s, 1, s.blockStart, TRUE, s.depth)
          /\ ScanStep(l, t) = Passed(t, 1, t.blockStart, TRUE, s.depth)
      BY <1>1, <1>4, <2>0, <2>1, OutsideStepIs
    <3> QED
      BY <1>1, <1>n, <1>2, <3>1
  <2>2. CASE c = DLE
    <3>1. /\ ScanStep(b, s) = Passed(s, 1, s.blockStart, FALSE, s.depth + 1)
          /\ ScanStep(l, t) = Passed(t, 1, t.blockStart, FALSE, s.depth + 1)
      BY <1>1, <1>4, <2>0, <2>2, OutsideStepIs
    <3> QED
      BY <1>1, <1>n, <1>2, <3>1
  <2>3. CASE c = CAN
    <3>1. /\ ScanStep(b, s) = Passed(s, 1, s.blockStart, FALSE, lower)
          /\ ScanStep(l, t) = Passed(t, 1, t.blockStart, FALSE, lower)
      BY <1>1, <1>4, <2>0, <2>3, OutsideStepIs
    <3> QED
      BY <1>1, <1>n, <1>2, <3>1
  <2>4. CASE c = SYN /\ s.pos > 0
    <3>1. ScanStep(b, s) = Passed(s, 1, s.pos, FALSE, 0)
      BY <1>4, <2>4, OutsideStepIs
    <3>2. t.pos > 0
      BY <1>1, <2>4
    <3>3. ScanStep(l, t) = Passed(t, 1, t.pos, FALSE, 0)
      BY <1>1, <1>4, <2>0, <2>4, <3>2, OutsideStepIs
    <3>4. Tracks(b, Passed(s, 1, s.pos, FALSE, 0), Passed(t, 1, t.pos, FALSE, 0), off, t0)
      BY <1>1, <1>n, <2>4, PassedTracks
    <3> QED
      BY <3>1, <3>3, <3>4
  <2>5. CASE c = SYN /\ ~(s.pos > 0)
    <3>1. s.pos = 0 /\ s.depth = 0 /\ t.pos = off /\ t.depth = 0 /\ At(b, 0) = SYN
      BY <1>1, <2>5 DEF Tracks
    <3>2. ScanStep(b, s) = Passed(s, 1, s.blockStart, FALSE, 0)
      BY <1>4, <2>5, <3>1, OutsideStepIs
    <3>3. \/ ScanStep(l, t) = Passed(t, 1, off, FALSE, 0)
          \/ ScanStep(l, t) = Passed(t, 1, t.blockStart, FALSE, 0)
      BY <1>1, <1>4, <2>0, <2>5, <3>1, OutsideStepIs
    <3>4. Tracks(b, Passed(s, 1, s.blockStart, FALSE, 0), Passed(t, 1, off, FALSE, 0), off, t0)
      BY <1>1, <1>n, <3>1, PassedTracks
    <3> QED
      BY <1>1, <1>n, <1>2, <3>2, <3>3, <3>4
  <2>6. CASE c \notin {STX, DLE, CAN, ETB, SYN}
    <3>1. /\ ScanStep(b, s) = Passed(s, 1, s.blockStart, FALSE, s.depth)
          /\ ScanStep(l, t) = Passed(t, 1, t.blockStart, FALSE, s.depth)
      BY <1>1, <1>4, <2>0, <2>6, OutsideStepIs
    <3> QED
      BY <1>1, <1>n, <1>2, <3>1
  <2> QED
    BY <2>1, <2>2, <2>3, <2>4, <2>5, <2>6
<1> QED
  BY <1>3, <1>4
LEMMA CommitBlocks ==
  ASSUME NEW log \in Seq(Byte), NEW s \in ScanType, s.pos < Len(log)
  PROVE  CommitBlock(log, s).blocks
           = Append(s.blocks, [start |-> s.blockStart, stop |-> s.pos])
<1>1. \E p, d : CommitBlock(log, s) =
           [pos |-> p, blockStart |-> p, inText |-> FALSE, depth |-> 0,
            blocks |-> Append(s.blocks, [start |-> s.blockStart, stop |-> s.pos]),
            damaged |-> d, committedEnd |-> p]
  BY CommitIs, Zenon
<1> QED
  BY <1>1

LEMMA StartTracks ==
  ASSUME NEW b, NEW t0 \in ScanType, Rests(t0)
  PROVE  NewScan \in ScanType /\ Tracks(b, NewScan, t0, t0.pos, t0)
<1>1. NewScan \in ScanType /\ t0.pos \in Nat /\ t0.pos = t0.pos + 0
  BY DEF NewScan, ScanType
<1>2. t0.inText = FALSE /\ t0.depth = 0
  BY DEF Rests, ScanType
<1> QED
  BY <1>1, <1>2 DEF NewScan, Tracks

(* Bytes that commit nothing by themselves commit nothing behind a log. *)
LEMMA ScanTracks ==
  ASSUME NEW log \in Seq(Byte), NEW u \in Seq(Byte), NEW t0 \in ScanType,
         NEW s \in ScanType, NEW t \in ScanType,
         Tracks(u, s, t, Len(log), t0), ScanEnd(u)[s].blocks = <<>>
  PROVE  Tracks(u, ScanEnd(u)[s], ScanEnd(log \o u)[t], Len(log), t0)
<1> DEFINE l == log \o u
           off == Len(log)
           T == {r \in ScanType : ScanEnd(u)[r].blocks = <<>> =>
                   \A q \in ScanType : Tracks(u, r, q, off, t0) =>
                     Tracks(u, ScanEnd(u)[r], ScanEnd(l)[q], off, t0)}
<1>0. /\ l \in Seq(Byte) /\ Len(l) = off + Len(u) /\ off \in Nat /\ Len(u) \in Nat
      /\ \A i \in 0 .. (Len(u) - 1) : At(l, off + i) = At(u, i)
  BY AtConcat
<1> HIDE DEF l, off
<1>1. ASSUME NEW r \in ScanType, r.pos < Len(u) => ScanStep(u, r) \in T,
             ScanEnd(u)[r].blocks = <<>>, NEW q \in ScanType, Tracks(u, r, q, off, t0)
      PROVE  Tracks(u, ScanEnd(u)[r], ScanEnd(l)[q], off, t0)
  <2>0. r.pos \in Nat /\ q.pos = off + r.pos /\ q.pos \in Nat
    BY <1>1 DEF ScanType, Tracks
  <2>1. CASE r.pos < Len(u)
    <3>1. r.pos \in 0 .. (Len(u) - 1) /\ q.pos < Len(l)
      BY <1>0, <2>0, <2>1
    <3>2. At(l, q.pos) = At(u, r.pos)
      BY <1>0, <2>0, <3>1
    <3>3. ScanEnd(u)[r] = ScanEnd(u)[ScanStep(u, r)] /\ ScanStep(u, r) \in ScanType
      BY <2>1, ScanEndUnfolds, ScanStepAdvances
    <3>4. ScanEnd(l)[q] = ScanEnd(l)[ScanStep(l, q)] /\ ScanStep(l, q) \in ScanType
      BY <1>0, <3>1, ScanEndUnfolds, ScanStepAdvances
    <3>5. At(u, r.pos) # ETB
      <4>1. SUFFICES ASSUME At(u, r.pos) = ETB PROVE FALSE
        OBVIOUS
      <4>2. Len(ScanStep(u, r).blocks) > 0
        <5>1. ScanStep(u, r) = CommitBlock(u, r)
          BY <4>1, StepCommits
        <5>2. CommitBlock(u, r).blocks =
                Append(r.blocks, [start |-> r.blockStart, stop |-> r.pos])
          BY <2>1, CommitBlocks
        <5>3. ScanStep(u, r).blocks = Append(r.blocks, [start |-> r.blockStart, stop |-> r.pos])
          BY <5>1, <5>2
        <5>4. r.blocks \in Seq(BlockType)
          BY DEF ScanType
        <5> QED
          BY <5>3, <5>4
      <4>3. Keeps(ScanStep(u, r), ScanEnd(u)[r])
        BY <3>3, ScanEndKeeps
      <4>4. Len(ScanStep(u, r).blocks) \in Nat
        BY <3>3 DEF ScanType
      <4> QED
        BY <4>2, <4>3, <4>4, <1>1 DEF Keeps
    <3>6. Tracks(u, ScanStep(u, r), ScanStep(l, q), off, t0)
      BY <1>0, <1>1, <3>2, <3>5, StepTracks
    <3> QED
      BY <1>1, <2>1, <3>3, <3>4, <3>6
  <2>2. CASE ~(r.pos < Len(u))
    <3>1. ~(q.pos < Len(l))
      BY <1>0, <2>0, <2>2
    <3>2. ScanEnd(u)[r] = r
      BY <2>2, ScanEndUnfolds
    <3>3. ScanEnd(l)[q] = q
      BY <1>0, <3>1, ScanEndUnfolds
    <3> QED
      BY <1>1, <3>2, <3>3
  <2> QED
    BY <2>1, <2>2
<1>2. ASSUME NEW r \in ScanType, r.pos < Len(u) => ScanStep(u, r) \in T
      PROVE  r \in T
  BY <1>1, <1>2
<1>3. ScanType \subseteq T
  <2> HIDE DEF T
  <2> QED
    BY <1>2, ScanInduct
<1>4. s \in T
  BY <1>3
<1> QED
  BY <1>4 DEF l, off

LEMMA SliceIs ==
  ASSUME NEW b \in Seq(Byte), NEW i \in Nat, NEW j \in Nat, i <= j, j <= Len(b)
  PROVE  /\ Slice(b, i, j) \in Seq(Byte) /\ Len(Slice(b, i, j)) = j - i
         /\ \A p \in 0 .. (j - i - 1) : At(Slice(b, i, j), p) = At(b, i + p)
BY DEF Slice, At

LEMMA PrefixIs ==
  ASSUME NEW b \in Seq(Byte), NEW k \in Nat, k <= Len(b)
  PROVE  /\ Slice(b, 0, k) \in Seq(Byte) /\ Len(Slice(b, 0, k)) = k
         /\ \A p \in 0 .. (k - 1) : At(Slice(b, 0, k), p) = At(b, p)
BY DEF Slice, At

LEMMA BatchIs ==
  ASSUME NEW b \in Seq(Byte), IsBatch(b)
  PROVE  /\ Len(b) > 0 /\ Len(b) - 1 \in Nat
         /\ ScanEnd(b)[NewScan].blocks = <<[start |-> 0, stop |-> Len(b) - 1]>>
         /\ ScanEnd(b)[NewScan].damaged = {}
<1>1. /\ ScanEnd(b)[NewScan].blocks = <<[start |-> 0, stop |-> Len(b) - 1]>>
      /\ ScanEnd(b)[NewScan].damaged = {}
  BY ScanEndUnfolds DEF IsBatch
<1>2. ScanEnd(b)[NewScan].blocks \in Seq(BlockType)
  BY ScanEndUnfolds, ScanEndType DEF ScanType
<1>3. [start |-> 0, stop |-> Len(b) - 1] \in BlockType
  BY <1>1, <1>2
<1>4. Len(b) - 1 \in Nat
  BY <1>3 DEF BlockType
<1> QED
  BY <1>1, <1>4

(* What a scanner of a batch that has found nothing yet does at an ETB. *)
LEMMA BatchCommits ==
  ASSUME NEW b \in Seq(Byte), NEW r \in ScanType, r.pos < Len(b), At(b, r.pos) = ETB,
         r.blocks = <<>>, r.damaged = {},
         ScanEnd(b)[r].blocks = <<[start |-> 0, stop |-> Len(b) - 1]>>,
         ScanEnd(b)[r].damaged = {}
  PROVE  r.pos = Len(b) - 1 /\ r.blockStart = 0 /\ ~r.inText /\ r.depth = 0
<1> DEFINE q == ScanStep(b, r)
           block == [start |-> r.blockStart, stop |-> r.pos]
           d == IF r.inText \/ r.depth > 0 THEN {Len(r.blocks) + 1} ELSE {}
<1>1. q.blocks = <<block>> /\ d \subseteq q.damaged
  <2>1. q = CommitBlock(b, r)
    BY StepCommits
  <2>2. \E p, e : /\ q = [pos |-> p, blockStart |-> p, inText |-> FALSE, depth |-> 0,
                          blocks |-> Append(r.blocks, block),
                          damaged |-> e, committedEnd |-> p]
                  /\ d \subseteq e
    <3> DEFINE p == PayloadEnd(b, r.pos + 1)
               e == IF r.inText \/ r.depth > 0
                    THEN r.damaged \cup {Len(r.blocks) + 1} ELSE r.damaged
    <3>1. d \subseteq e
      OBVIOUS
    <3>2. q = [pos |-> p, blockStart |-> p, inText |-> FALSE, depth |-> 0,
               blocks |-> Append(r.blocks, block), damaged |-> e, committedEnd |-> p]
      <4> HIDE DEF q
      <4> QED
        BY <2>1, CommitIs
    <3> HIDE DEF d, p, e, q, block
    <3> QED
      BY <3>1, <3>2
  <2>3. q.blocks = Append(r.blocks, block) /\ d \subseteq q.damaged
    BY <2>2
  <2> QED
    BY <2>3
<1>2. ScanEnd(b)[r] = ScanEnd(b)[q] /\ q \in ScanType
  BY ScanEndUnfolds, ScanStepAdvances
<1>3. Keeps(q, ScanEnd(b)[r])
  BY <1>2, ScanEndKeeps
<1>4. <<[start |-> 0, stop |-> Len(b) - 1]>>[1] = block /\ d = {}
  <2>1. 1 \in DOMAIN q.blocks /\ q.blocks[1] = block
    BY <1>1
  <2> HIDE DEF q, block, d
  <2> QED
    BY <1>1, <1>3, <2>1 DEF Keeps
<1>5. r.depth \in Nat
  BY DEF ScanType
<1> QED
  BY <1>4, <1>5

(* A batch cut short has committed nothing. *)
LEMMA CutScans ==
  ASSUME NEW b \in Seq(Byte), IsBatch(b), NEW k \in 0 .. (Len(b) - 1)
  PROVE  Scan(Slice(b, 0, k)).blocks = <<>>
<1> DEFINE u == Slice(b, 0, k)
           whole == <<[start |-> 0, stop |-> Len(b) - 1]>>
           T == {r \in ScanType :
                   /\ r.blocks = <<>> /\ r.damaged = {}
                   /\ ScanEnd(b)[r].blocks = whole /\ ScanEnd(b)[r].damaged = {}
                   => ScanEnd(u)[r].blocks = <<>>}
<1>0. /\ u \in Seq(Byte) /\ Len(u) = k /\ k \in Nat /\ Len(b) \in Nat /\ k < Len(b)
      /\ \A i \in 0 .. (k - 1) : At(u, i) = At(b, i)
  <2>1. k \in Nat /\ Len(b) \in Nat /\ k < Len(b) /\ k - 0 = k
    OBVIOUS
  <2> QED
    BY <2>1, PrefixIs
<1> HIDE DEF u, whole
<1>1. ASSUME NEW r \in ScanType, r.pos < Len(b) => ScanStep(b, r) \in T,
             r.blocks = <<>>, r.damaged = {},
             ScanEnd(b)[r].blocks = whole, ScanEnd(b)[r].damaged = {}
      PROVE  ScanEnd(u)[r].blocks = <<>>
  <2>0. r.pos \in Nat
    BY DEF ScanType
  <2>1. CASE r.pos < k
    <3>1. r.pos < Len(b) /\ At(u, r.pos) = At(b, r.pos)
      BY <1>0, <2>0, <2>1
    <3>2. At(b, r.pos) # ETB
      <4>1. r.pos # Len(b) - 1
        BY <1>0, <2>0, <2>1
      <4> QED
        BY <1>1, <3>1, <4>1, BatchCommits DEF whole
    <3>3. ScanEnd(b)[r] = ScanEnd(b)[ScanStep(b, r)] /\ ScanStep(b, r) \in ScanType
      BY <3>1, ScanEndUnfolds, ScanStepAdvances
    <3>4. ScanEnd(u)[r] = ScanEnd(u)[ScanStep(u, r)]
      BY <1>0, <2>1, ScanEndUnfolds
    <3>5. ScanStep(b, r) = ScanStep(u, r)
      BY <3>1, <3>2 DEF ScanStep, TextStep, OutsideStep
    <3>6. ScanStep(b, r).blocks = <<>> /\ ScanStep(b, r).damaged = {}
      <4>1. PICK n \in {1, 2}, j \in {r.blockStart, r.pos}, x \in BOOLEAN, d \in Nat :
               ScanStep(b, r) = Passed(r, n, j, x, d)
        BY <3>2, StepPasses
      <4> QED
        BY <4>1, <1>1 DEF Passed
    <3> QED
      BY <1>1, <3>1, <3>3, <3>4, <3>5, <3>6
  <2>2. CASE ~(r.pos < k)
    BY <1>0, <1>1, <2>2, ScanEndUnfolds
  <2> QED
    BY <2>1, <2>2
<1>2. ASSUME NEW r \in ScanType, r.pos < Len(b) => ScanStep(b, r) \in T
      PROVE  r \in T
  BY <1>1, <1>2
<1>3. ScanType \subseteq T
  <2> HIDE DEF T
  <2> QED
    BY <1>2, ScanInduct
<1>4. NewScan \in T /\ NewScan.blocks = <<>> /\ NewScan.damaged = {}
  BY <1>3, ScanEndUnfolds DEF NewScan
<1>5. ScanEnd(u)[NewScan].blocks = <<>>
  BY <1>4, BatchIs DEF whole
<1> QED
  BY <1>0, <1>5, ScanEndUnfolds DEF u
(* A commit at the end of a log has no payload. *)
LEMMA PayloadAtEnd ==
  ASSUME NEW log \in Seq(Byte)
  PROVE  PayloadEnd(log, Len(log)) = Len(log)
<1>1. PayloadEnd(log, Len(log)) \in Len(log) .. Len(log)
  BY PayloadEndStops
<1> QED
  BY <1>1

(* Nor has one that a code follows. *)
LEMMA PlainAtCode ==
  ASSUME NEW buf, NEW pos \in Nat, NEW stop \in Nat, pos <= stop,
         pos < stop => ~IsPlainByte(At(buf, pos))
  PROVE  ScanPlain(buf, pos, stop) = pos
<1>1. pos \in pos .. stop /\ pos .. (pos - 1) = {} /\ (pos = stop \/ ~IsPlainByte(At(buf, pos)))
  OBVIOUS
<1> QED
  BY <1>1, ScanPlainIs

LEMMA PayloadAtCode ==
  ASSUME NEW log \in Seq(Byte), NEW pos \in Nat, pos < Len(log),
         ~IsPlainByte(At(log, pos)), ~IsLayout(At(log, pos))
  PROVE  PayloadEnd(log, pos) = pos
<1> DEFINE n == Len(log)
<1>1. n \in Nat /\ pos \in pos .. n /\ pos .. (pos - 1) = {}
  OBVIOUS
<1> HIDE DEF n
<1>2. ScanLayout(log, pos, n) = pos
  BY <1>1, ScanLayoutIs
<1> QED
  BY <1>2, Zenon DEF PayloadEnd, n

(* The scanner behind a batch that was scanned from t0 to n, its block     *)
(* starting at start.                                                      *)
Committed(t0, start, n) ==
  [pos |-> n, blockStart |-> n, inText |-> FALSE, depth |-> 0,
   blocks |-> Append(t0.blocks, [start |-> start, stop |-> n - 1]),
   damaged |-> t0.damaged, committedEnd |-> n]

(* Where the block of a batch may start: where the scanner's did, or at    *)
(* the SYN the batch begins with.                                          *)
BlockStarts(b, off, t0) ==
  {i \in Nat : i = t0.blockStart \/ (i = off /\ At(b, 0) = SYN)}

LEMMA BatchTracks ==
  ASSUME NEW log \in Seq(Byte), NEW b \in Seq(Byte), NEW t0 \in ScanType,
         NEW s \in ScanType, NEW t \in ScanType, Tracks(b, s, t, Len(log), t0),
         ScanEnd(b)[s].blocks = <<[start |-> 0, stop |-> Len(b) - 1]>>,
         ScanEnd(b)[s].damaged = {}
  PROVE  \E i \in BlockStarts(b, Len(log), t0) :
           ScanEnd(log \o b)[t] = Committed(t0, i, Len(log \o b))
<1> DEFINE l == log \o b
           off == Len(log)
           whole == <<[start |-> 0, stop |-> Len(b) - 1]>>
           T == {r \in ScanType :
                   ScanEnd(b)[r].blocks = whole /\ ScanEnd(b)[r].damaged = {} =>
                   \A q \in ScanType : Tracks(b, r, q, off, t0) =>
                     \E i \in BlockStarts(b, off, t0) :
                       ScanEnd(l)[q] = Committed(t0, i, Len(l))}
<1>0. /\ l \in Seq(Byte) /\ Len(l) = off + Len(b) /\ off \in Nat /\ Len(b) \in Nat
      /\ \A i \in 0 .. (Len(b) - 1) : At(l, off + i) = At(b, i)
  BY AtConcat
<1>w. whole # <<>>
  OBVIOUS
<1> HIDE DEF l, off
<1>1. ASSUME NEW r \in ScanType, r.pos < Len(b) => ScanStep(b, r) \in T,
             ScanEnd(b)[r].blocks = whole, ScanEnd(b)[r].damaged = {},
             NEW q \in ScanType, Tracks(b, r, q, off, t0)
      PROVE  \E i \in BlockStarts(b, off, t0) :
               ScanEnd(l)[q] = Committed(t0, i, Len(l))
  <2>0. /\ r.pos \in Nat /\ q.pos = off + r.pos /\ q.pos \in Nat
        /\ r.blocks = <<>> /\ r.damaged = {}
        /\ q.blocks = t0.blocks /\ q.damaged = t0.damaged
    BY <1>1 DEF ScanType, Tracks
  <2>1. r.pos < Len(b)
    <3>1. SUFFICES ASSUME ~(r.pos < Len(b)) PROVE FALSE
      OBVIOUS
    <3>2. ScanEnd(b)[r] = r
      BY <3>1, ScanEndUnfolds
    <3> HIDE DEF whole
    <3> QED
      BY <1>1, <1>w, <2>0, <3>2
  <2>2. r.pos \in 0 .. (Len(b) - 1) /\ q.pos < Len(l)
    BY <1>0, <2>0, <2>1
  <2>3. At(l, q.pos) = At(b, r.pos)
    BY <1>0, <2>0, <2>2
  <2>4. ScanEnd(b)[r] = ScanEnd(b)[ScanStep(b, r)] /\ ScanStep(b, r) \in ScanType
    BY <2>1, ScanEndUnfolds, ScanStepAdvances
  <2>5. ScanEnd(l)[q] = ScanEnd(l)[ScanStep(l, q)] /\ ScanStep(l, q) \in ScanType
    BY <1>0, <2>2, ScanEndUnfolds, ScanStepAdvances
  <2>6. CASE At(b, r.pos) = ETB
    <3>1. r.pos = Len(b) - 1 /\ r.blockStart = 0 /\ ~r.inText /\ r.depth = 0
      BY <1>1, <2>0, <2>1, <2>6, BatchCommits
    <3>2. q.pos + 1 = Len(l) /\ q.pos = Len(l) - 1 /\ q.pos + 1 \in Nat
      BY <1>0, <2>0, <3>1
    <3>3. ~q.inText /\ q.depth = 0
      BY <1>1, <3>1 DEF Tracks
    <3>4. q.blockStart \in BlockStarts(b, off, t0)
      <4>1. q.blockStart \in Nat
        BY DEF ScanType
      <4> QED
        BY <1>1, <3>1, <4>1 DEF Tracks, BlockStarts
    <3>5. ScanStep(l, q) = CommitBlock(l, q)
      BY <2>3, <2>6, StepCommits
    <3> DEFINE p == PayloadEnd(l, q.pos + 1)
    <3>6. p = Len(l)
      BY <1>0, <3>2, PayloadAtEnd
    <3>7. CommitBlock(l, q) =
              [pos |-> p, blockStart |-> p, inText |-> FALSE, depth |-> 0,
               blocks |-> Append(q.blocks, [start |-> q.blockStart, stop |-> q.pos]),
               damaged |-> IF q.inText \/ q.depth > 0
                           THEN q.damaged \cup {Len(q.blocks) + 1} ELSE q.damaged,
               committedEnd |-> p]
      BY <1>0, <2>2, CommitIs, Zenon
    <3>8. (IF q.inText \/ q.depth > 0
           THEN q.damaged \cup {Len(q.blocks) + 1} ELSE q.damaged) = t0.damaged
      BY <2>0, <3>3
    <3> HIDE DEF p
    <3>9. CommitBlock(l, q) = Committed(t0, q.blockStart, Len(l))
      BY <2>0, <3>2, <3>6, <3>7, <3>8, Zenon DEF Committed
    <3>10. ScanEnd(l)[ScanStep(l, q)] = ScanStep(l, q)
      <4>1. ScanStep(l, q).pos = Len(l)
        BY <3>5, <3>9 DEF Committed
      <4>2. ~(ScanStep(l, q).pos < Len(l))
        BY <4>1, <1>0
      <4> QED
        BY <1>0, <2>5, <4>2, ScanEndUnfolds
    <3> QED
      BY <2>5, <3>4, <3>5, <3>9, <3>10
  <2>7. CASE At(b, r.pos) # ETB
    <3>1. Tracks(b, ScanStep(b, r), ScanStep(l, q), off, t0)
      BY <1>0, <1>1, <2>3, <2>7, StepTracks
    <3> QED
      BY <1>1, <2>1, <2>4, <2>5, <3>1
  <2> QED
    BY <2>6, <2>7
<1>2. ASSUME NEW r \in ScanType, r.pos < Len(b) => ScanStep(b, r) \in T
      PROVE  r \in T
  <2> HIDE DEF whole
  <2> QED
    BY <1>1, <1>2
<1>3. ScanType \subseteq T
  <2> HIDE DEF T
  <2> QED
    BY <1>2, ScanInduct
<1>4. s \in T
  BY <1>3
<1> QED
  BY <1>4 DEF l, off

(* The scan of a log that rests at its end goes on from there. *)
LEMMA ScanGoesOn ==
  ASSUME NEW log \in Seq(Byte), NEW w \in Seq(Byte), BeginsWithCode(w)
  PROVE  Scan(log) \in ScanType /\ Scan(log \o w) = ScanEnd(log \o w)[Scan(log)]
<1>1. log \o w \in Seq(Byte) /\ NewScan \in ScanType /\ Scan(log) = ScanEnd(log)[NewScan]
  BY AtConcat, ScanEndUnfolds
<1>2. Scan(log \o w) = ScanEnd(log \o w)[NewScan]
  BY <1>1, ScanEndUnfolds
<1>3. ScanEnd(log \o w)[NewScan] = ScanEnd(log \o w)[ScanEnd(log)[NewScan]]
  BY <1>1, ScanExtends
<1>4. Scan(log) \in ScanType
  BY <1>1, ScanEndType
<1> QED
  BY <1>1, <1>2, <1>3, <1>4

(* Bytes that commit nothing by themselves, behind a log that rests. *)
LEMMA CutAppends ==
  ASSUME NEW log \in Seq(Byte), NEW u \in Seq(Byte), BeginsWithCode(u),
         Scan(u).blocks = <<>>, Rests(Scan(log)), Scan(log).pos = Len(log)
  PROVE  /\ Scan(log \o u) \in ScanType
         /\ Tracks(u, Scan(u), Scan(log \o u), Len(log), Scan(log))
<1>1. Scan(log) \in ScanType /\ Scan(log \o u) = ScanEnd(log \o u)[Scan(log)]
  BY ScanGoesOn
<1>2. NewScan \in ScanType /\ Tracks(u, NewScan, Scan(log), Len(log), Scan(log))
  BY <1>1, StartTracks
<1>3. Scan(u) = ScanEnd(u)[NewScan]
  BY ScanEndUnfolds
<1>4. Tracks(u, ScanEnd(u)[NewScan], ScanEnd(log \o u)[Scan(log)], Len(log), Scan(log))
  BY <1>1, <1>2, <1>3, ScanTracks
<1>5. ScanEnd(log \o u)[Scan(log)] \in ScanType
  BY <1>1, AtConcat, ScanEndType
<1> QED
  BY <1>1, <1>3, <1>4, <1>5

(* A batch behind a log that rests. *)
LEMMA BatchAppends ==
  ASSUME NEW log \in Seq(Byte), NEW b \in Seq(Byte), BeginsWithCode(b), IsBatch(b),
         Rests(Scan(log)), Scan(log).pos = Len(log)
  PROVE  \E i \in BlockStarts(b, Len(log), Scan(log)) :
           Scan(log \o b) = Committed(Scan(log), i, Len(log) + Len(b))
<1>1. Scan(log) \in ScanType /\ Scan(log \o b) = ScanEnd(log \o b)[Scan(log)]
  BY ScanGoesOn
<1>2. NewScan \in ScanType /\ Tracks(b, NewScan, Scan(log), Len(log), Scan(log))
  BY <1>1, StartTracks
<1>3. /\ ScanEnd(b)[NewScan].blocks = <<[start |-> 0, stop |-> Len(b) - 1]>>
      /\ ScanEnd(b)[NewScan].damaged = {}
  BY BatchIs
<1>4. Len(log \o b) = Len(log) + Len(b)
  BY AtConcat
<1> QED
  BY SMTT(60), <1>1, <1>2, <1>3, <1>4, BatchTracks
-----------------------------------------------------------------------------
(* Notes.  A note is read the same wherever it stands (y holds the m bytes *)
(* of x at off), and whatever code follows it.                             *)
SameAt(x, m, y, off) == \A i \in 0 .. (m - 1) : At(y, off + i) = At(x, i)

Shifted(off, r) == IF r = Malformed THEN Malformed ELSE off + r

LEMMA LayoutShifts ==
  ASSUME NEW x, NEW y, NEW m \in Nat, NEW off \in Nat, SameAt(x, m, y, off),
         NEW i \in 0 .. m
  PROVE  ScanLayout(y, off + i, off + m) = off + ScanLayout(x, i, m)
<1> DEFINE r == ScanLayout(x, i, m)
<1>1. /\ r \in i .. m /\ (r < m => ~IsLayout(At(x, r)))
      /\ \A q \in i .. (r - 1) : IsLayout(At(x, q))
  BY ScanLayoutStops
<1> HIDE DEF r
<1>2. r \in Nat /\ off + i \in Nat /\ off + m \in Nat /\ off + i <= off + m
      /\ off + r \in (off + i) .. (off + m)
  BY <1>1
<1>3. off + r = off + m \/ ~IsLayout(At(y, off + r))
  BY <1>1, <1>2 DEF SameAt
<1>4. ASSUME NEW q \in (off + i) .. (off + r - 1) PROVE IsLayout(At(y, q))
  <2>1. q - off \in i .. (r - 1) /\ q - off \in 0 .. (m - 1) /\ off + (q - off) = q
    BY <1>1, <1>2
  <2> QED
    BY <2>1, <1>1 DEF SameAt
<1>5. ScanLayout(y, off + i, off + m) = off + r
  BY <1>2, <1>3, <1>4, ScanLayoutIs
<1> QED
  BY <1>5 DEF r

LEMMA PlainShifts ==
  ASSUME NEW x, NEW y, NEW m \in Nat, NEW off \in Nat, SameAt(x, m, y, off),
         NEW i \in 0 .. m
  PROVE  ScanPlain(y, off + i, off + m) = off + ScanPlain(x, i, m)
<1> DEFINE r == ScanPlain(x, i, m)
<1>1. /\ r \in i .. m /\ (r < m => ~IsPlainByte(At(x, r)))
      /\ \A q \in i .. (r - 1) : IsPlainByte(At(x, q))
  BY ScanPlainStops
<1> HIDE DEF r
<1>2. r \in Nat /\ off + i \in Nat /\ off + m \in Nat /\ off + i <= off + m
      /\ off + r \in (off + i) .. (off + m)
  BY <1>1
<1>3. off + r = off + m \/ ~IsPlainByte(At(y, off + r))
  BY <1>1, <1>2 DEF SameAt
<1>4. ASSUME NEW q \in (off + i) .. (off + r - 1) PROVE IsPlainByte(At(y, q))
  <2>1. q - off \in i .. (r - 1) /\ q - off \in 0 .. (m - 1) /\ off + (q - off) = q
    BY <1>1, <1>2
  <2> QED
    BY <2>1, <1>1 DEF SameAt
<1>5. ScanPlain(y, off + i, off + m) = off + r
  BY <1>2, <1>3, <1>4, ScanPlainIs
<1> QED
  BY <1>5 DEF r

LEMMA TextShifts ==
  ASSUME NEW x, NEW y, NEW m \in Nat, NEW off \in Nat, SameAt(x, m, y, off),
         NEW i \in 0 .. m
  PROVE  ScanText(y, off + i, off + m) = Shifted(off, ScanText(x, i, m))
<1> DEFINE D == (i + 1) .. (m + 1)
<1>1. PICK f \in [(i + 1) .. (m + 1) -> Int] :
        /\ \A p \in (i + 1) .. (m + 1) :
             TextRules(f, x, p, m) /\ f[p] \in {Malformed} \cup (p + 1) .. m
        /\ ScanText(x, i, m) = f[i + 1]
  <2>1. i \in Nat /\ i <= m
    OBVIOUS
  <2> QED
    BY <2>1, ScanTextUnfolds, Zenon
<1>2. PICK g \in [((off + i) + 1) .. ((off + m) + 1) -> Int] :
        /\ \A p \in ((off + i) + 1) .. ((off + m) + 1) :
             TextRules(g, y, p, off + m)
        /\ ScanText(y, off + i, off + m) = g[(off + i) + 1]
  <2>1. off + i \in Nat /\ off + m \in Nat /\ off + i <= off + m
    OBVIOUS
  <2> QED
    BY <2>1, ScanTextUnfolds, Zenon
<1>3. \A p \in D : p \in Nat /\ off + p \in Nat /\ TextRules(f, x, p, m)
                   /\ TextRules(g, y, off + p, off + m)
                   /\ (p < m => At(y, off + p) = At(x, p))
  <2> TAKE p \in D
  <2>1. off + p \in ((off + i) + 1) .. ((off + m) + 1)
    OBVIOUS
  <2>2. p < m => p \in 0 .. (m - 1)
    OBVIOUS
  <2>3. TextRules(f, x, p, m) /\ TextRules(g, y, off + p, off + m)
    BY <1>1, <1>2, <2>1
  <2> QED
    BY <2>2, <2>3 DEF SameAt
<1> DEFINE T == {p \in D : g[off + p] = Shifted(off, f[p])}
           measure == [p \in D |-> m + 1 - p]
<1>4. ASSUME NEW p \in D, \A q \in D : measure[q] < measure[p] => q \in T
      PROVE  p \in T
  <2>1. /\ p < m => p + 1 \in D /\ g[off + (p + 1)] = Shifted(off, f[p + 1])
        /\ p + 1 < m => p + 2 \in D /\ g[off + (p + 2)] = Shifted(off, f[p + 2])
    BY <1>4
  <2>2. off + (p + 1) = (off + p) + 1 /\ off + (p + 2) = (off + p) + 2
        /\ (p < m <=> off + p < off + m) /\ (p + 1 < m <=> (off + p) + 1 < off + m)
        /\ (p < m <=> ~(p >= m)) /\ (off + p < off + m <=> ~(off + p >= off + m))
    OBVIOUS
  <2>3. p + 1 < m => At(y, (off + p) + 1) = At(x, p + 1)
    <3>1. p + 1 < m => p + 1 \in 0 .. (m - 1)
      OBVIOUS
    <3> QED
      BY <2>2, <3>1 DEF SameAt
  <2>4. p + 1 # Malformed /\ p \in Nat
    BY DEF Malformed
  <2>5. /\ DLE \notin Framing \cup {STX, ETX} /\ ETX \notin Framing \cup {STX, DLE}
    BY DEF DLE, ETX, STX, Framing, ETB, EOT, SYN, EM
  <2>r. TextRules(f, x, p, m) /\ TextRules(g, y, off + p, off + m)
        /\ (p < m => At(y, off + p) = At(x, p))
    BY <1>3
  <2>6. CASE p >= m
    BY <2>2, <2>6, <2>r DEF TextRules, Shifted
  <2>7. CASE p < m /\ At(x, p) = DLE
    <3>1. CASE p + 1 < m /\ At(x, p + 1) \in TextEscaped
      <4>2. f[p] = f[p + 2]
        BY <2>r, <2>7, <3>1 DEF TextRules
      <4>3. g[off + p] = g[(off + p) + 2]
        BY <2>2, <2>3, <2>r, <2>7, <3>1 DEF TextRules
      <4>4. g[off + p] = Shifted(off, f[p])
        BY <2>1, <2>2, <3>1, <4>2, <4>3, Zenon
      <4> QED
        BY <4>4
    <3>2. CASE ~(p + 1 < m /\ At(x, p + 1) \in TextEscaped)
      <4>1. f[p] = Malformed
        BY <2>r, <2>7, <3>2 DEF TextRules
      <4>2. ~((off + p) + 1 < off + m /\ At(y, (off + p) + 1) \in TextEscaped)
        BY <2>2, <2>3, <3>2
      <4>3. off + p < off + m /\ At(y, off + p) = DLE
        BY <2>2, <2>r, <2>7
      <4>4. g[off + p] = Malformed
        BY <2>r, <4>2, <4>3 DEF TextRules
      <4> QED
        BY <4>1, <4>4 DEF Shifted
    <3> QED
      BY <3>1, <3>2
  <2>8. CASE p < m /\ At(x, p) = ETX
    <3>1. f[p] = p + 1
      BY <2>r, <2>8 DEF TextRules
    <3>2. off + p < off + m /\ At(y, off + p) = ETX
      BY <2>2, <2>r, <2>8
    <3>3. g[off + p] = (off + p) + 1
      BY <2>r, <3>2 DEF TextRules
    <3> QED
      BY <2>2, <2>4, <3>1, <3>3 DEF Shifted
  <2>9. CASE p < m /\ At(x, p) \in Framing \cup {STX}
    BY <2>2, <2>r, <2>9 DEF TextRules, Shifted
  <2>10. CASE p < m /\ At(x, p) \notin Framing \cup {STX, DLE, ETX}
    <3>1. f[p] = f[p + 1]
      BY <2>r, <2>10 DEF TextRules
    <3>2. off + p < off + m /\ At(y, off + p) \notin Framing \cup {STX, DLE, ETX}
      BY <2>2, <2>r, <2>10
    <3>3. g[off + p] = g[(off + p) + 1]
      BY <2>r, <3>2 DEF TextRules
    <3>4. g[off + p] = Shifted(off, f[p])
      BY <2>1, <2>2, <2>10, <3>1, <3>3, Zenon
    <3> QED
      BY <3>4
  <2> QED
    BY <2>2, <2>6, <2>7, <2>8, <2>9, <2>10
<1>5. D \subseteq T
  <2>1. measure \in [D -> Nat]
    OBVIOUS
  <2> HIDE DEF D, T, measure
  <2> QED
    BY <1>4, <2>1, MeasureInduct
<1>6. i + 1 \in T /\ off + (i + 1) = (off + i) + 1
  BY <1>5
<1> QED
  BY <1>1, <1>2, <1>6

LEMMA TextExtends ==
  ASSUME NEW x, NEW y, NEW n \in Nat, NEW N \in Nat, n <= N, SameAt(x, n, y, 0),
         NEW i \in 0 .. n, ScanText(x, i, n) # Malformed
  PROVE  ScanText(y, i, N) = ScanText(x, i, n)
<1> DEFINE D == (i + 1) .. (n + 1)
<1>0. i \in Nat /\ i <= n /\ i <= N
  OBVIOUS
<1>1. PICK f \in [(i + 1) .. (n + 1) -> Int] :
        /\ \A p \in (i + 1) .. (n + 1) :
             TextRules(f, x, p, n) /\ f[p] \in {Malformed} \cup (p + 1) .. n
        /\ ScanText(x, i, n) = f[i + 1]
  BY <1>0, ScanTextUnfolds, Zenon
<1>2. PICK g \in [(i + 1) .. (N + 1) -> Int] :
        /\ \A p \in (i + 1) .. (N + 1) : TextRules(g, y, p, N)
        /\ ScanText(y, i, N) = g[i + 1]
  BY <1>0, ScanTextUnfolds, Zenon
<1>3. \A p \in D : /\ p \in Nat /\ TextRules(f, x, p, n) /\ TextRules(g, y, p, N)
                   /\ p < n => At(y, p) = At(x, p) /\ p < N
  <2> TAKE p \in D
  <2>1. p \in (i + 1) .. (N + 1)
    OBVIOUS
  <2>2. p < n => p \in 0 .. (n - 1) /\ 0 + p = p
    OBVIOUS
  <2>3. TextRules(f, x, p, n) /\ TextRules(g, y, p, N)
    BY <1>1, <1>2, <2>1
  <2> QED
    BY <2>2, <2>3 DEF SameAt
<1> DEFINE T == {p \in D : f[p] # Malformed => g[p] = f[p]}
           measure == [p \in D |-> n + 1 - p]
<1>4. ASSUME NEW p \in D, \A q \in D : measure[q] < measure[p] => q \in T
      PROVE  p \in T
  <2>1. /\ p < n => p + 1 \in D /\ (f[p + 1] # Malformed => g[p + 1] = f[p + 1])
        /\ p + 1 < n => p + 2 \in D /\ (f[p + 2] # Malformed => g[p + 2] = f[p + 2])
    BY <1>4
  <2>2. p + 1 < n => p < n /\ At(y, p + 1) = At(x, p + 1) /\ p + 1 < N
    <3>1. p + 1 < n => p + 1 \in D /\ p < n
      OBVIOUS
    <3> QED
      BY <1>3, <3>1
  <2>r. /\ p \in Nat /\ TextRules(f, x, p, n) /\ TextRules(g, y, p, N)
        /\ p < n => At(y, p) = At(x, p) /\ p < N
    BY <1>3
  <2>3. \/ f[p] = Malformed
        \/ /\ p + 1 < n /\ At(x, p) = DLE /\ At(x, p + 1) \in TextEscaped
           /\ f[p] = f[p + 2]
        \/ p < n /\ At(x, p) = ETX /\ f[p] = p + 1
        \/ /\ p < n /\ At(x, p) \notin Framing \cup {STX, DLE, ETX}
           /\ f[p] = f[p + 1]
    <3>1. p >= n \/ p < n
      OBVIOUS
    <3> QED
      BY <2>r, <3>1 DEF TextRules
  <2>4. CASE f[p] = Malformed
    BY <2>4
  <2>5. CASE /\ p + 1 < n /\ At(x, p) = DLE /\ At(x, p + 1) \in TextEscaped
             /\ f[p] = f[p + 2]
    <3>1. g[p] = g[p + 2]
      BY <2>2, <2>5, <2>r DEF TextRules
    <3> QED
      BY <2>1, <2>5, <3>1
  <2>6. CASE p < n /\ At(x, p) = ETX /\ f[p] = p + 1
    <3>1. g[p] = p + 1
      BY <2>6, <2>r DEF TextRules
    <3> QED
      BY <2>6, <3>1
  <2>7. CASE /\ p < n /\ At(x, p) \notin Framing \cup {STX, DLE, ETX}
             /\ f[p] = f[p + 1]
    <3>1. g[p] = g[p + 1]
      BY <2>7, <2>r DEF TextRules
    <3> QED
      BY <2>1, <2>7, <3>1
  <2> QED
    BY <2>3, <2>4, <2>5, <2>6, <2>7
<1>5. D \subseteq T
  <2>1. measure \in [D -> Nat]
    OBVIOUS
  <2> HIDE DEF D, T, measure
  <2> QED
    BY <1>4, <2>1, MeasureInduct
<1>6. i + 1 \in T
  BY <1>5
<1> QED
  BY <1>1, <1>2, <1>6

(* A note ends behind its BEL and at least a byte of content. *)
LEMMA ScanNoteStops ==
  ASSUME NEW x, NEW n \in Nat, NEW i \in Nat, i < n
  PROVE  ScanNote(x, i, n) \in {Malformed} \cup (i + 2) .. n
<1> DEFINE p == ScanLayout(x, i + 1, n)
           r == ScanNote(x, i, n)
<1>1. p \in (i + 1) .. n
  BY ScanLayoutStops
<1>2. \/ r = Malformed
      \/ p < n /\ r = ScanText(x, p, n)
      \/ p < n /\ IsPlainByte(At(x, p)) /\ r = ScanPlain(x, p, n)
  <2> HIDE DEF p
  <2> QED
    BY <1>1 DEF ScanNote, p
<1> HIDE DEF p, r
<1>3. CASE p < n /\ r = ScanText(x, p, n)
  <2>1. ScanText(x, p, n) \in {Malformed} \cup (p + 2) .. n
    BY <1>1, <1>3, ScanTextStops
  <2> QED
    BY <2>1, <1>1, <1>3 DEF r
<1>4. CASE p < n /\ IsPlainByte(At(x, p)) /\ r = ScanPlain(x, p, n)
  <2>1. /\ ScanPlain(x, p, n) \in p .. n
        /\ ScanPlain(x, p, n) < n => ~IsPlainByte(At(x, ScanPlain(x, p, n)))
    BY <1>1, <1>4, ScanPlainStops
  <2>2. r # p
    BY <2>1, <1>1, <1>4
  <2> QED
    BY <2>1, <2>2, <1>1, <1>4 DEF r
<1> QED
  BY <1>2, <1>3, <1>4 DEF r

LEMMA NoteShifts ==
  ASSUME NEW x, NEW y, NEW m \in Nat, NEW off \in Nat, SameAt(x, m, y, off),
         NEW i \in Nat, i < m
  PROVE  ScanNote(y, off + i, off + m) = Shifted(off, ScanNote(x, i, m))
<1> DEFINE p == ScanLayout(x, i + 1, m)
<1>1. p \in (i + 1) .. m
  BY ScanLayoutStops
<1>2. ScanLayout(y, (off + i) + 1, off + m) = off + p
  <2>1. i + 1 \in 0 .. m /\ off + (i + 1) = (off + i) + 1
    OBVIOUS
  <2> QED
    BY <2>1, LayoutShifts
<1> HIDE DEF p
<1>3. p \in Nat /\ (off + p = off + m <=> p = m) /\ (off + p < off + m <=> p < m)
      /\ p \in 0 .. m
  BY <1>1
<1>4. ScanText(y, off + p, off + m) = Shifted(off, ScanText(x, p, m))
  BY <1>3, TextShifts
<1>5. ScanPlain(y, off + p, off + m) = off + ScanPlain(x, p, m)
  BY <1>3, PlainShifts
<1>6. p < m => At(y, off + p) = At(x, p)
  BY <1>3 DEF SameAt
<1>7. p < m => ScanPlain(x, p, m) # Malformed
  <2>1. p < m => ScanPlain(x, p, m) \in p .. m
    BY <1>3, ScanPlainStops
  <2> QED
    BY <2>1, <1>3 DEF Malformed
<1>8. STX # Malformed /\ ~IsPlainByte(STX)
  BY DEF STX, Malformed, IsPlainByte
<1>9. CASE p = m
  BY <1>2, <1>3, <1>9 DEF ScanNote, Shifted, p
<1>10. CASE p < m /\ At(x, p) = STX
  <2>1. ScanNote(x, i, m) = ScanText(x, p, m)
    BY <1>3, <1>8, <1>10 DEF ScanNote, p
  <2>2. ScanNote(y, off + i, off + m) = ScanText(y, off + p, off + m)
    BY <1>2, <1>3, <1>6, <1>8, <1>10 DEF ScanNote
  <2> QED
    BY <1>4, <2>1, <2>2
<1>11. CASE p < m /\ At(x, p) # STX /\ IsPlainByte(At(x, p))
  <2>1. ScanNote(x, i, m) = ScanPlain(x, p, m)
    BY <1>3, <1>11 DEF ScanNote, p
  <2>2. ScanNote(y, off + i, off + m) = ScanPlain(y, off + p, off + m)
    BY <1>2, <1>3, <1>6, <1>11 DEF ScanNote
  <2> QED
    BY <1>5, <1>7, <1>11, <2>1, <2>2 DEF Shifted
<1>12. CASE p < m /\ At(x, p) # STX /\ ~IsPlainByte(At(x, p))
  <2>1. ScanNote(x, i, m) = Malformed
    BY <1>3, <1>12 DEF ScanNote, p
  <2>2. ScanNote(y, off + i, off + m) = Malformed
    BY <1>2, <1>3, <1>6, <1>12 DEF ScanNote
  <2> QED
    BY <2>1, <2>2 DEF Shifted
<1> QED
  BY <1>1, <1>9, <1>10, <1>11, <1>12

LEMMA NoteExtends ==
  ASSUME NEW x, NEW y, NEW n \in Nat, NEW N \in Nat, n <= N, SameAt(x, n, y, 0),
         n = N \/ ~IsPlainByte(At(y, n)),
         NEW i \in Nat, i < n, ScanNote(x, i, n) # Malformed
  PROVE  ScanNote(y, i, N) = ScanNote(x, i, n)
<1> DEFINE p == ScanLayout(x, i + 1, n)
<1>8. ~IsPlainByte(STX)
  BY DEF STX, IsPlainByte
<1>1. /\ p \in (i + 1) .. n /\ (p < n => ~IsLayout(At(x, p)))
      /\ \A q \in (i + 1) .. (p - 1) : IsLayout(At(x, q))
  BY ScanLayoutStops
<1>2. \/ p < n /\ At(x, p) = STX /\ ScanNote(x, i, n) = ScanText(x, p, n)
      \/ /\ p < n /\ At(x, p) # STX /\ IsPlainByte(At(x, p))
         /\ ScanNote(x, i, n) = ScanPlain(x, p, n)
  <2> HIDE DEF p
  <2>1. (p = n /\ ~(p < n)) \/ (p < n /\ p # n)
    BY <1>1
  <2> QED
    BY <1>8, <2>1 DEF ScanNote, p
<1> HIDE DEF p
<1>s. \A q \in 0 .. (n - 1) : At(y, q) = At(x, q)
  <2>1. \A q \in 0 .. (n - 1) : 0 + q = q
    OBVIOUS
  <2> QED
    BY <2>1 DEF SameAt
<1>3. p \in Nat /\ p < n /\ p < N /\ At(y, p) = At(x, p) /\ p # N /\ p \in 0 .. n
  BY <1>1, <1>2, <1>s
<1>4. ScanLayout(y, i + 1, N) = p
  <2>1. p \in (i + 1) .. N /\ ~IsLayout(At(y, p)) /\ i + 1 \in Nat /\ i + 1 <= N
    BY <1>1, <1>3
  <2>2. \A q \in (i + 1) .. (p - 1) : IsLayout(At(y, q))
    BY <1>1, <1>3, <1>s
  <2> QED
    BY <2>1, <2>2, ScanLayoutIs
<1>5. CASE At(x, p) = STX /\ ScanNote(x, i, n) = ScanText(x, p, n)
  <2>1. ScanText(y, p, N) = ScanText(x, p, n)
    BY <1>3, <1>5, TextExtends
  <2>2. ScanNote(y, i, N) = ScanText(y, p, N)
    BY <1>3, <1>4, <1>5, <1>8 DEF ScanNote
  <2> QED
    BY <1>5, <2>1, <2>2
<1>6. CASE /\ At(x, p) # STX /\ IsPlainByte(At(x, p))
           /\ ScanNote(x, i, n) = ScanPlain(x, p, n)
  <2> DEFINE r == ScanPlain(x, p, n)
  <2>1. /\ r \in p .. n /\ (r < n => ~IsPlainByte(At(x, r)))
        /\ \A q \in p .. (r - 1) : IsPlainByte(At(x, q))
    BY <1>3, ScanPlainStops
  <2> HIDE DEF r
  <2>2. r \in p .. N /\ (r = N \/ ~IsPlainByte(At(y, r))) /\ p <= N
    BY <1>3, <1>s, <2>1
  <2>3. \A q \in p .. (r - 1) : IsPlainByte(At(y, q))
    BY <1>3, <1>s, <2>1
  <2>4. ScanPlain(y, p, N) = r
    BY <1>3, <2>2, <2>3, ScanPlainIs
  <2>5. ScanNote(y, i, N) = ScanPlain(y, p, N)
    BY <1>3, <1>4, <1>6 DEF ScanNote
  <2> QED
    BY <1>6, <2>4, <2>5 DEF r
<1> QED
  BY <1>2, <1>5, <1>6
-----------------------------------------------------------------------------
(* tornTail: the function that TornTail applies, and how a tail is judged  *)
(* from where its layout ends.                                             *)
TornFrom(tail, log, p, n) ==
  LET q == ScanLayout(log, p, n)
      note == ScanNote(log, q, n)
  IN  CASE q = n -> "clean"
        [] q < n /\ At(log, q) = EOT -> tail[q + 1]
        [] q < n /\ At(log, q) = EM -> "clean"
        [] q < n /\ At(log, q) = BEL ->
             IF note = Malformed THEN "torn" ELSE tail[note]
        [] OTHER -> "torn"

TornEnd(log) ==
  CHOOSE tail : tail = [p \in 0 .. Len(log) |-> TornFrom(tail, log, p, Len(log))]

TornRules(tail, log, p, n) ==
  LET q == ScanLayout(log, p, n)
      note == ScanNote(log, q, n)
  IN  /\ q \in p .. n
      /\ q < n => note \in {Malformed} \cup (q + 2) .. n
      /\ q = n => tail[p] = "clean"
      /\ q < n /\ At(log, q) = EOT => tail[p] = tail[q + 1]
      /\ q < n /\ At(log, q) = EM => tail[p] = "clean"
      /\ q < n /\ At(log, q) = BEL /\ note = Malformed => tail[p] = "torn"
      /\ q < n /\ At(log, q) = BEL /\ note # Malformed => tail[p] = tail[note]
      /\ q < n /\ At(log, q) \notin {EOT, EM, BEL} => tail[p] = "torn"

LEMMA TornRulesHold ==
  ASSUME NEW tail, NEW log, NEW n \in Nat, NEW p \in 0 .. n,
         tail[p] = TornFrom(tail, log, p, n)
  PROVE  TornRules(tail, log, p, n)
<1> DEFINE q == ScanLayout(log, p, n)
           note == ScanNote(log, q, n)
<1>1. p \in Nat /\ p <= n
  OBVIOUS
<1>2. q \in p .. n
  BY <1>1, ScanLayoutStops
<1>3. q < n => note \in {Malformed} \cup (q + 2) .. n
  <2>1. q \in Nat
    BY <1>1, <1>2
  <2> HIDE DEF q
  <2> QED
    BY <2>1, ScanNoteStops
<1>4. EOT # EM /\ EOT # BEL /\ EM # BEL
  BY DEF EOT, EM, BEL
<1>5. (q = n /\ ~(q < n)) \/ (q < n /\ q # n)
  BY <1>1, <1>2
<1>6. tail[p] = CASE q = n -> "clean"
                  [] q < n /\ At(log, q) = EOT -> tail[q + 1]
                  [] q < n /\ At(log, q) = EM -> "clean"
                  [] q < n /\ At(log, q) = BEL ->
                       IF note = Malformed THEN "torn" ELSE tail[note]
                  [] OTHER -> "torn"
  BY Zenon DEF TornFrom
<1> HIDE DEF q, note
<1>7. /\ q = n => tail[p] = "clean"
      /\ q < n /\ At(log, q) = EOT => tail[p] = tail[q + 1]
      /\ q < n /\ At(log, q) = EM => tail[p] = "clean"
      /\ q < n /\ At(log, q) = BEL /\ note = Malformed => tail[p] = "torn"
      /\ q < n /\ At(log, q) = BEL /\ note # Malformed => tail[p] = tail[note]
      /\ q < n /\ At(log, q) \notin {EOT, EM, BEL} => tail[p] = "torn"
  BY <1>4, <1>5, <1>6
<1> QED
  BY <1>2, <1>3, <1>7, Zenon DEF TornRules, q, note

LEMMA TornUnfolds ==
  ASSUME NEW log \in Seq(Byte)
  PROVE  /\ \A p \in 0 .. Len(log) : TornRules(TornEnd(log), log, p, Len(log))
         /\ \A p : TornTail(log, p) <=> TornEnd(log)[p] = "torn"
<1> DEFINE n == Len(log)
           D == 0 .. n
           V == {"clean", "torn"}
           F == [D -> V]
           G == [f \in F |-> [p \in D |-> TornFrom(f, log, p, n)]]
           m == [p \in D |-> n - p]
<1>n. n \in Nat
  OBVIOUS
<1> HIDE DEF n
<1>r. \A p \in D : LET q == ScanLayout(log, p, n)
                       note == ScanNote(log, q, n)
                   IN  /\ q \in p .. n
                       /\ q < n => note \in {Malformed} \cup (q + 2) .. n
  <2> TAKE p \in D
  <2> DEFINE q == ScanLayout(log, p, n)
  <2>1. p \in Nat /\ p <= n
    BY <1>n
  <2>2. q \in p .. n
    BY <1>n, <2>1, ScanLayoutStops
  <2>3. q \in Nat
    BY <2>1, <2>2
  <2> HIDE DEF q
  <2>4. q < n => ScanNote(log, q, n) \in {Malformed} \cup (q + 2) .. n
    BY <1>n, <2>3, ScanNoteStops
  <2> QED
    BY <2>2, <2>4 DEF q
<1>2. ASSUME NEW f \in F, NEW p \in D
      PROVE  /\ TornFrom(f, log, p, n) \in V
             /\ \A g \in F : (\A y \in D : m[y] < m[p] => f[y] = g[y])
                  => TornFrom(f, log, p, n) = TornFrom(g, log, p, n)
  <2> DEFINE q == ScanLayout(log, p, n)
             note == ScanNote(log, q, n)
  <2>0. q \in p .. n /\ (q < n => note \in {Malformed} \cup (q + 2) .. n)
    BY <1>r, Zenon
  <2>1. \A g : TornFrom(g, log, p, n) =
                 CASE q = n -> "clean"
                   [] q < n /\ At(log, q) = EOT -> g[q + 1]
                   [] q < n /\ At(log, q) = EM -> "clean"
                   [] q < n /\ At(log, q) = BEL ->
                        IF note = Malformed THEN "torn" ELSE g[note]
                   [] OTHER -> "torn"
    BY Zenon DEF TornFrom
  <2> HIDE DEF q, note
  <2>2. q < n => q + 1 \in D /\ m[q + 1] < m[p]
    BY <1>n, <2>0
  <2>3. q < n /\ note # Malformed => note \in D /\ m[note] < m[p]
    BY <1>n, <2>0
  <2>4. TornFrom(f, log, p, n) \in V
    BY <2>1, <2>2, <2>3
  <2>5. ASSUME NEW g \in F, \A y \in D : m[y] < m[p] => f[y] = g[y]
        PROVE  TornFrom(f, log, p, n) = TornFrom(g, log, p, n)
    <3>1. q < n => f[q + 1] = g[q + 1]
      BY <2>2, <2>5
    <3>2. q < n /\ note # Malformed => f[note] = g[note]
      BY <2>3, <2>5
    <3> QED
      BY <2>1, <3>1, <3>2
  <2> QED
    BY <2>4, <2>5
<1>3. \E f \in F : f = G[f]
  <2>1. G \in [F -> F]
    <3> HIDE DEF D, V
    <3> QED
      BY <1>2
  <2>2. m \in [D -> 0 .. n]
    BY <1>n
  <2>3. F # {}
    <3>1. [p \in D |-> "clean"] \in F
      OBVIOUS
    <3> QED
      BY <3>1
  <2>4. \A f \in F : f = [p \in D |-> f[p]]
    OBVIOUS
  <2>5. ASSUME NEW f \in F, NEW g \in F, NEW p \in D,
               \A y \in D : m[y] < m[p] => f[y] = g[y]
        PROVE  G[f][p] = G[g][p]
    <3>1. TornFrom(f, log, p, n) = TornFrom(g, log, p, n)
      <4> HIDE DEF F, D, m
      <4> QED
        BY <1>2, <2>5
    <3> QED
      BY <3>1
  <2>6. Contracts(D, F, m, G)
    BY <2>5 DEF Contracts
  <2> HIDE DEF F, D, m, G
  <2> QED
    BY <1>n, <2>1, <2>2, <2>3, <2>4, <2>6, Fixpoint
<1>4. TornEnd(log) = [p \in 0 .. Len(log) |-> TornFrom(TornEnd(log), log, p, Len(log))]
  BY <1>3 DEF TornEnd, n
<1>5. \A p \in 0 .. Len(log) : TornEnd(log)[p] = TornFrom(TornEnd(log), log, p, Len(log))
  BY <1>4
<1>6. \A p \in 0 .. Len(log) : TornRules(TornEnd(log), log, p, Len(log))
  BY <1>5, TornRulesHold
<1>7. \A p : TornTail(log, p) <=> TornEnd(log)[p] = "torn"
  BY DEF TornTail, TornEnd, TornFrom
<1> QED
  BY <1>6, <1>7

(* A tail is judged by its bytes alone. *)
LEMMA TornShifts ==
  ASSUME NEW log \in Seq(Byte), NEW w \in Seq(Byte)
  PROVE  \A i \in 0 .. Len(w) : TornEnd(log \o w)[Len(log) + i] = TornEnd(w)[i]
<1> DEFINE l == log \o w
           off == Len(log)
           n == Len(w)
           D == 0 .. n
           T == {i \in D : TornEnd(l)[off + i] = TornEnd(w)[i]}
           measure == [i \in D |-> n - i]
<1>0. /\ l \in Seq(Byte) /\ Len(l) = off + n /\ off \in Nat /\ n \in Nat
      /\ SameAt(w, n, l, off)
  BY AtConcat DEF SameAt
<1>w. \A p \in 0 .. n : TornRules(TornEnd(w), w, p, n)
  BY TornUnfolds
<1>l. \A p \in 0 .. (off + n) : TornRules(TornEnd(l), l, p, off + n)
  <2> HIDE DEF l, off, n
  <2> QED
    BY <1>0, TornUnfolds
<1> HIDE DEF l, off, n
<1>1. ASSUME NEW i \in D, \A j \in D : measure[j] < measure[i] => j \in T
      PROVE  i \in T
  <2> DEFINE q == ScanLayout(w, i, n)
             note == ScanNote(w, q, n)
             f == TornEnd(w)
             g == TornEnd(l)
  <2>0. i \in Nat /\ off + i \in 0 .. (off + n) /\ i \in 0 .. n
    BY <1>0
  <2>1. /\ q \in i .. n
        /\ q < n => note \in {Malformed} \cup (q + 2) .. n
        /\ q = n => f[i] = "clean"
        /\ q < n /\ At(w, q) = EOT => f[i] = f[q + 1]
        /\ q < n /\ At(w, q) = EM => f[i] = "clean"
        /\ q < n /\ At(w, q) = BEL /\ note = Malformed => f[i] = "torn"
        /\ q < n /\ At(w, q) = BEL /\ note # Malformed => f[i] = f[note]
        /\ q < n /\ At(w, q) \notin {EOT, EM, BEL} => f[i] = "torn"
    BY <1>w, <2>0, Zenon DEF TornRules
  <2>2. ScanLayout(l, off + i, off + n) = off + q
    BY <1>0, <2>0, LayoutShifts
  <2>3. q \in Nat /\ q \in 0 .. n
    BY <1>0, <2>0, <2>1
  <2>4. q < n => /\ ScanNote(l, off + q, off + n) = Shifted(off, note)
                 /\ At(l, off + q) = At(w, q)
    <3>1. q < n => q \in 0 .. (n - 1)
      BY <1>0, <2>3
    <3> HIDE DEF q
    <3>2. q < n => ScanNote(l, off + q, off + n) = Shifted(off, ScanNote(w, q, n))
      BY <1>0, <2>3, NoteShifts
    <3> QED
      BY <1>0, <3>1, <3>2 DEF SameAt
  <2> DEFINE r == ScanNote(l, off + q, off + n)
  <2>5. /\ off + q = off + n => g[off + i] = "clean"
        /\ off + q < off + n /\ At(l, off + q) = EOT => g[off + i] = g[(off + q) + 1]
        /\ off + q < off + n /\ At(l, off + q) = EM => g[off + i] = "clean"
        /\ off + q < off + n /\ At(l, off + q) = BEL /\ r = Malformed => g[off + i] = "torn"
        /\ off + q < off + n /\ At(l, off + q) = BEL /\ r # Malformed => g[off + i] = g[r]
        /\ off + q < off + n /\ At(l, off + q) \notin {EOT, EM, BEL} => g[off + i] = "torn"
    <3>1. TornRules(g, l, off + i, off + n)
      BY <1>l, <2>0
    <3> HIDE DEF q, g
    <3> QED
      BY <2>2, <3>1, Zenon DEF TornRules
  <2>6. /\ (off + q = off + n <=> q = n) /\ (off + q < off + n <=> q < n)
        /\ (off + q) + 1 = off + (q + 1)
    <3>1. q \in Nat /\ n \in Nat /\ off \in Nat
      BY <1>0, <2>3
    <3> HIDE DEF q
    <3> QED
      BY <3>1
  <2>7. q < n => q + 1 \in D /\ g[off + (q + 1)] = f[q + 1]
    <3>1. q < n => q + 1 \in D /\ measure[q + 1] < measure[i]
      BY <1>0, <2>0, <2>1
    <3> QED
      BY <1>1, <3>1
  <2>8. q < n /\ note # Malformed => g[off + note] = f[note]
    <3>1. q < n /\ note # Malformed => note \in D /\ measure[note] < measure[i]
      BY SMTT(60), <1>0, <2>0, <2>1
    <3> QED
      BY <1>1, <3>1
  <2>9. q < n => (r = Malformed <=> note = Malformed) /\ (note # Malformed => r = off + note)
    <3>1. q < n /\ note # Malformed => off + note # Malformed
      BY <1>0, <2>1, <2>3 DEF Malformed
    <3> QED
      BY <2>4, <3>1 DEF Shifted
  <2>10. q = n \/ q < n
    BY <1>0, <2>1
  <2> HIDE DEF q, note, r, f, g, D
  <2> SUFFICES g[off + i] = f[i]
    BY DEF f, g
  <2>11. CASE q = n
    BY <2>1, <2>5, <2>6, <2>11
  <2>12. CASE q < n /\ At(w, q) = BEL
    <3>1. At(l, off + q) = BEL /\ off + q < off + n
      BY <2>4, <2>6, <2>12
    <3>2. CASE note = Malformed
      BY <2>1, <2>5, <2>9, <2>12, <3>1, <3>2
    <3>3. CASE note # Malformed
      <4>1. f[i] = f[note]
        BY <2>1, <2>12, <3>3
      <4>2. r = off + note /\ r # Malformed
        BY <2>9, <2>12, <3>3
      <4>3. g[off + i] = g[r]
        BY <2>5, <3>1, <4>2
      <4> QED
        BY <2>8, <2>12, <3>3, <4>1, <4>2, <4>3
    <3> QED
      BY <3>2, <3>3
  <2>13. CASE q < n /\ At(w, q) # BEL
    <3>1. At(l, off + q) = At(w, q) /\ off + q < off + n
      BY <2>4, <2>6, <2>13
    <3>2. CASE At(w, q) = EOT
      BY <2>1, <2>5, <2>6, <2>7, <2>13, <3>1, <3>2
    <3>3. CASE At(w, q) = EM
      BY <2>1, <2>5, <2>13, <3>1, <3>3
    <3>4. CASE At(w, q) \notin {EOT, EM, BEL}
      BY <2>1, <2>5, <2>13, <3>1, <3>4
    <3> QED
      BY <2>13, <3>2, <3>3, <3>4
  <2> QED
    BY <2>10, <2>11, <2>12, <2>13
<1>2. D \subseteq T
  <2>1. measure \in [D -> Nat]
    BY <1>0
  <2> HIDE DEF D, T, measure
  <2> QED
    BY <1>1, <2>1, MeasureInduct
<1> QED
  BY <1>2 DEF l, off, n

(* The scanner s at p, inside a text or not. *)
MovedTo(s, p, inText) ==
  [pos |-> p, blockStart |-> s.blockStart, inText |-> inText, depth |-> s.depth,
   blocks |-> s.blocks, damaged |-> s.damaged, committedEnd |-> s.committedEnd]

LEMMA MovedOutside ==
  ASSUME NEW s \in ScanType, NEW p \in Nat
  PROVE  LET t == MovedTo(s, p, FALSE) IN
         /\ t \in ScanType /\ t.pos = p /\ ~t.inText
         /\ Passed(t, 1, t.blockStart, FALSE, t.depth) = MovedTo(s, p + 1, FALSE)
         /\ Passed(t, 1, t.blockStart, TRUE, t.depth) = MovedTo(s, p + 1, TRUE)
BY DEF MovedTo, ScanType, Passed

LEMMA MovedInside ==
  ASSUME NEW s \in ScanType, NEW p \in Nat
  PROVE  LET t == MovedTo(s, p, TRUE) IN
         /\ t \in ScanType /\ t.pos = p /\ t.inText
         /\ Passed(t, 1, t.blockStart, TRUE, t.depth) = MovedTo(s, p + 1, TRUE)
         /\ Passed(t, 2, t.blockStart, TRUE, t.depth) = MovedTo(s, p + 2, TRUE)
         /\ Passed(t, 1, t.blockStart, FALSE, t.depth) = MovedTo(s, p + 1, FALSE)
BY DEF MovedTo, ScanType, Passed

(* Bytes that mean nothing to the scan are passed. *)
LEMMA ScanPasses ==
  ASSUME NEW log \in Seq(Byte), NEW s \in ScanType, NEW p \in Nat, NEW q \in Nat,
         p <= q, q <= Len(log),
         \A i \in p .. (q - 1) : At(log, i) \notin {STX, DLE, CAN, ETB, SYN}
  PROVE  ScanEnd(log)[MovedTo(s, p, FALSE)] = ScanEnd(log)[MovedTo(s, q, FALSE)]
<1> DEFINE D == p .. q
           T == {i \in D : ScanEnd(log)[MovedTo(s, i, FALSE)]
                             = ScanEnd(log)[MovedTo(s, q, FALSE)]}
           measure == [i \in D |-> q - i]
<1>1. ASSUME NEW i \in D, \A j \in D : measure[j] < measure[i] => j \in T
      PROVE  i \in T
  <2>1. CASE i = q
    BY <2>1
  <2>2. CASE i # q
    <3>1. i \in Nat /\ i < Len(log) /\ i + 1 \in D /\ measure[i + 1] < measure[i]
          /\ i \in p .. (q - 1)
      BY <2>2
    <3>2. ScanEnd(log)[MovedTo(s, i + 1, FALSE)] = ScanEnd(log)[MovedTo(s, q, FALSE)]
      BY <1>1, <3>1
    <3> DEFINE t == MovedTo(s, i, FALSE)
    <3>3. /\ t \in ScanType /\ t.pos = i /\ ~t.inText
          /\ Passed(t, 1, t.blockStart, FALSE, t.depth) = MovedTo(s, i + 1, FALSE)
      BY <3>1, MovedOutside
    <3> HIDE DEF t
    <3>4. ScanStep(log, t) = Passed(t, 1, t.blockStart, FALSE, t.depth)
      BY <3>1, <3>3, OutsideStepIs
    <3>5. ScanEnd(log)[t] = ScanEnd(log)[ScanStep(log, t)]
      BY <3>1, <3>3, ScanEndUnfolds
    <3>6. ScanEnd(log)[t] = ScanEnd(log)[MovedTo(s, q, FALSE)]
      BY <3>2, <3>3, <3>4, <3>5
    <3> QED
      BY <3>6 DEF t
  <2> QED
    BY <2>1, <2>2
<1>2. D \subseteq T
  <2>1. measure \in [D -> Nat]
    OBVIOUS
  <2> HIDE DEF D, T, measure
  <2> QED
    BY <1>1, <2>1, MeasureInduct
<1>3. p \in T
  <2>1. p \in D
    OBVIOUS
  <2> HIDE DEF D, T
  <2> QED
    BY <1>2, <2>1
<1> QED
  BY <1>3

(* A text that closes is passed from its STX to behind its ETX. *)
LEMMA TextPasses ==
  ASSUME NEW log \in Seq(Byte), NEW s \in ScanType, NEW p \in Nat, p < Len(log),
         At(log, p) = STX, ScanText(log, p, Len(log)) # Malformed
  PROVE  ScanEnd(log)[MovedTo(s, p, FALSE)]
           = ScanEnd(log)[MovedTo(s, ScanText(log, p, Len(log)), FALSE)]
<1> DEFINE n == Len(log)
           D == (p + 1) .. (n + 1)
           End(i, x) == ScanEnd(log)[MovedTo(s, i, x)]
<1>n. n \in Nat /\ p <= n
  OBVIOUS
<1>1. PICK f \in [(p + 1) .. (n + 1) -> Int] :
        /\ \A i \in (p + 1) .. (n + 1) :
             TextRules(f, log, i, n) /\ f[i] \in {Malformed} \cup (i + 1) .. n
        /\ ScanText(log, p, n) = f[p + 1]
  <2> HIDE DEF n
  <2> QED
    BY <1>n, ScanTextUnfolds, Zenon
<1> DEFINE T == {i \in D : f[i] # Malformed => End(i, TRUE) = End(f[i], FALSE)}
           measure == [i \in D |-> n + 1 - i]
<1>2. ASSUME NEW i \in D, \A j \in D : measure[j] < measure[i] => j \in T,
             f[i] # Malformed
      PROVE  End(i, TRUE) = End(f[i], FALSE)
  <2> DEFINE t == MovedTo(s, i, TRUE)
  <2>r. i \in Nat /\ TextRules(f, log, i, n)
    BY <1>1
  <2>0. /\ i + 1 < n => (f[i + 2] # Malformed => End(i + 2, TRUE) = End(f[i + 2], FALSE))
        /\ i < n => (f[i + 1] # Malformed => End(i + 1, TRUE) = End(f[i + 1], FALSE))
    <3>1. /\ i + 1 < n => i + 2 \in D /\ measure[i + 2] < measure[i]
          /\ i < n => i + 1 \in D /\ measure[i + 1] < measure[i]
      OBVIOUS
    <3> HIDE DEF D, measure, n, End
    <3>2. /\ i + 1 < n => i + 2 \in T
          /\ i < n => i + 1 \in T
      BY <1>2, <3>1
    <3> QED
      BY <3>2
  <2>1. /\ t \in ScanType /\ t.pos = i /\ t.inText
        /\ Passed(t, 1, t.blockStart, TRUE, t.depth) = MovedTo(s, i + 1, TRUE)
        /\ Passed(t, 2, t.blockStart, TRUE, t.depth) = MovedTo(s, i + 2, TRUE)
        /\ Passed(t, 1, t.blockStart, FALSE, t.depth) = MovedTo(s, i + 1, FALSE)
    BY <2>r, MovedInside
  <2>2. i < n
    BY <1>2, <2>r DEF TextRules
  <2> HIDE DEF t
  <2>3. ScanEnd(log)[t] = ScanEnd(log)[ScanStep(log, t)]
    BY <2>1, <2>2, ScanEndUnfolds
  <2>4. CASE At(log, i) = DLE
    <3>1. f[i] = f[i + 2] /\ i + 1 < n
      BY <1>2, <2>2, <2>4, <2>r DEF TextRules
    <3>2. ScanStep(log, t) = Passed(t, 2, t.blockStart, TRUE, t.depth)
      BY <2>1, <2>4, TextStepIs
    <3> QED
      BY <1>2, <2>0, <2>1, <2>3, <3>1, <3>2 DEF t
  <2>5. CASE At(log, i) = ETX
    <3>1. f[i] = i + 1
      BY <2>2, <2>5, <2>r DEF TextRules
    <3>2. ScanStep(log, t) = Passed(t, 1, t.blockStart, FALSE, t.depth)
      BY <2>1, <2>5, TextStepIs
    <3> QED
      BY <2>1, <2>3, <3>1, <3>2 DEF t
  <2>6. CASE At(log, i) \notin {DLE, ETX}
    <3>1. f[i] = f[i + 1] /\ At(log, i) \notin Framing
      BY <1>2, <2>2, <2>6, <2>r DEF TextRules
    <3>2. ScanStep(log, t) = Passed(t, 1, t.blockStart, TRUE, t.depth)
      <4>1. At(log, i) \notin {DLE, ETX, ETB, SYN, EOT, EM}
        BY <2>6, <3>1 DEF Framing
      <4> QED
        BY <2>1, <4>1, TextStepIs
    <3> QED
      BY <1>2, <2>0, <2>1, <2>2, <2>3, <3>1, <3>2 DEF t
  <2> QED
    BY <2>4, <2>5, <2>6
<1>3. ASSUME NEW i \in D, \A j \in D : measure[j] < measure[i] => j \in T
      PROVE  i \in T
  <2> HIDE DEF End, measure, n
  <2> QED
    BY <1>2, <1>3
<1>4. D \subseteq T
  <2>1. measure \in [D -> Nat]
    OBVIOUS
  <2> HIDE DEF D, T, measure
  <2> QED
    BY <1>3, <2>1, MeasureInduct
<1>5. p + 1 \in T
  <2>1. p + 1 \in D
    OBVIOUS
  <2> HIDE DEF D, T
  <2> QED
    BY <1>4, <2>1
<1>6. End(p + 1, TRUE) = End(f[p + 1], FALSE)
  BY <1>1, <1>5
<1>7. End(p, FALSE) = End(p + 1, TRUE)
  <2> DEFINE t == MovedTo(s, p, FALSE)
  <2>1. /\ t \in ScanType /\ t.pos = p /\ ~t.inText
        /\ Passed(t, 1, t.blockStart, TRUE, t.depth) = MovedTo(s, p + 1, TRUE)
    BY MovedOutside
  <2> HIDE DEF t
  <2>2. ScanStep(log, t) = Passed(t, 1, t.blockStart, TRUE, t.depth)
    BY <2>1, OutsideStepIs
  <2>3. ScanEnd(log)[t] = ScanEnd(log)[ScanStep(log, t)]
    BY <2>1, ScanEndUnfolds
  <2> QED
    BY <2>1, <2>2, <2>3 DEF t
<1> QED
  BY <1>1, <1>6, <1>7

(* So is a note. *)
LEMMA NotePasses ==
  ASSUME NEW log \in Seq(Byte), NEW s \in ScanType, NEW p \in Nat, p < Len(log),
         At(log, p) = BEL, ScanNote(log, p, Len(log)) # Malformed
  PROVE  ScanEnd(log)[MovedTo(s, p, FALSE)]
           = ScanEnd(log)[MovedTo(s, ScanNote(log, p, Len(log)), FALSE)]
<1> DEFINE n == Len(log)
           q == ScanLayout(log, p + 1, n)
           codes == {STX, DLE, CAN, ETB, SYN}
<1>n. n \in Nat /\ p < n
  OBVIOUS
<1>1. /\ q \in (p + 1) .. n /\ \A i \in (p + 1) .. (q - 1) : IsLayout(At(log, i))
  <2> HIDE DEF n
  <2> QED
    BY <1>n, ScanLayoutStops
<1>2. \A c \in codes : ~IsLayout(c) /\ ~IsPlainByte(c) /\ c # BEL
  BY DEF STX, DLE, CAN, ETB, SYN, IsLayout, Layout, SP, HT, LF, CR, IsPlainByte, BEL
<1>3. ScanEnd(log)[MovedTo(s, p, FALSE)] = ScanEnd(log)[MovedTo(s, q, FALSE)]
  <2>1. \A i \in p .. (q - 1) : At(log, i) \notin codes
    <3> TAKE i \in p .. (q - 1)
    <3>1. i = p \/ i \in (p + 1) .. (q - 1)
      BY <1>1
    <3> HIDE DEF q
    <3> QED
      BY <1>1, <1>2, <3>1
  <2>2. q \in Nat /\ p <= q /\ q <= n
    BY <1>n, <1>1
  <2> HIDE DEF q
  <2> QED
    BY <2>1, <2>2, ScanPasses
<1> HIDE DEF q
<1>4. q \in Nat /\ q <= n
  BY <1>1
<1>5. \/ q < n /\ At(log, q) = STX /\ ScanNote(log, p, n) = ScanText(log, q, n)
      \/ q < n /\ IsPlainByte(At(log, q)) /\ ScanNote(log, p, n) = ScanPlain(log, q, n)
  <2>1. (q = n /\ ~(q < n)) \/ (q < n /\ q # n)
    BY <1>n, <1>4
  <2>2. ~IsPlainByte(STX)
    BY <1>2
  <2> QED
    BY <2>1, <2>2 DEF ScanNote, q
<1>6. CASE q < n /\ At(log, q) = STX /\ ScanNote(log, p, n) = ScanText(log, q, n)
  BY <1>3, <1>4, <1>6, TextPasses
<1>7. CASE q < n /\ IsPlainByte(At(log, q)) /\ ScanNote(log, p, n) = ScanPlain(log, q, n)
  <2> DEFINE r == ScanPlain(log, q, n)
  <2>1. r \in q .. n /\ \A i \in q .. (r - 1) : IsPlainByte(At(log, i))
    <3> HIDE DEF n
    <3> QED
      BY <1>n, <1>4, ScanPlainStops
  <2>2. \A i \in q .. (r - 1) : At(log, i) \notin codes
    BY <1>2, <2>1
  <2>3. r \in Nat /\ q <= r /\ r <= n
    BY <1>4, <2>1
  <2> HIDE DEF r
  <2>4. ScanEnd(log)[MovedTo(s, q, FALSE)] = ScanEnd(log)[MovedTo(s, r, FALSE)]
    BY <1>4, <2>2, <2>3, ScanPasses
  <2> QED
    BY <1>3, <1>7, <2>4 DEF r
<1> QED
  BY <1>5, <1>6, <1>7
=============================================================================
