------------------------- MODULE StreamReaderProofs -------------------------
(***************************************************************************)
(* What holds of StreamReader for every alphabet and every bound: types,   *)
(* the order of the blocks, that no unescaped ETB is missed, that commits  *)
(* stay when the log grows, and what a repair leaves.                      *)
(*                                                                         *)
(* None of the first three is inductive alone.  That a text does not       *)
(* swallow an unescaped ETB needs to know that in a text the scanner       *)
(* always stands behind an even run of DLEs (InTextEven): only then is the *)
(* byte an escape skips one behind an odd run.                             *)
(***************************************************************************)
EXTENDS MCStreamReader, StreamScanProofs

InTextEven == scan.inText /\ scan.pos <= Len(buf) => EvenRun(buf, scan.pos)

IInv == TypeOK /\ BlocksInOrder /\ NoCommitMissed /\ InTextEven
-----------------------------------------------------------------------------
(* A step that commits nothing: the scanner moves on by one byte that is   *)
(* no ETB and begins a block here or not at all.                           *)
Advance(t) ==
  /\ t \in ScanType
  /\ t.pos = scan.pos + 1
  /\ t.blockStart \in {scan.blockStart, scan.pos}
  /\ t.blocks = scan.blocks
  /\ t.damaged = scan.damaged
  /\ t.committedEnd = scan.committedEnd
  /\ t.inText => At(buf, scan.pos) # DLE

LEMMA PassAdvances ==
  ASSUME scan \in ScanType, NEW k \in {scan.blockStart, scan.pos},
         NEW x \in BOOLEAN, NEW d \in Nat, x => At(buf, scan.pos) # DLE
  PROVE  Advance(Pass(scan, k, x, d))
<1> DEFINE p == scan.pos + 1
           t == [scan EXCEPT !.pos = p, !.blockStart = k, !.inText = x, !.depth = d]
<1>1. p \in Nat /\ k \in Nat
  BY DEF ScanType
<1>2. Pass(scan, k, x, d) = t
  BY Zenon DEF Pass
<1>3. /\ t \in ScanType /\ t.pos = p /\ t.blockStart = k /\ t.blocks = scan.blocks
      /\ t.damaged = scan.damaged /\ t.committedEnd = scan.committedEnd
  <2> HIDE DEF p
  <2> QED
    BY <1>1 DEF ScanType
<1>4. t.inText = x
  BY DEF ScanType
<1> HIDE DEF t
<1> QED
  BY <1>2, <1>3, <1>4 DEF Advance

LEMMA AdvanceKeeps ==
  ASSUME IInv, Reading, Advance(scan'), UNCHANGED <<buf, phase, torn>>,
         At(buf, scan.pos) # ETB
  PROVE  IInv'
<1> USE DEF IInv, Advance, Reading
<1>1. scan.pos \in Nat /\ Len(buf) \in Nat
  BY DEF TypeOK, ScanType
<1>2. TypeOK'
  BY DEF TypeOK
<1>3. BlocksInOrder'
  BY <1>1 DEF BlocksInOrder, TypeOK, ScanType
<1>4. NoCommitMissed'
  <2>1. Stops' = Stops /\ CommitMarks(buf)' = CommitMarks(buf)
    BY DEF Stops, CommitMarks
  <2>2. scan.pos \notin CommitMarks(buf)
    BY DEF CommitMarks
  <2>3. \A p \in CommitMarks(buf) : p \in Nat
    BY DEF CommitMarks
  <2> QED
    BY <1>1, <2>1, <2>2, <2>3 DEF NoCommitMissed
<1>5. InTextEven'
  BY <1>1, EvenRunAfterOther DEF InTextEven
<1> QED
  BY <1>2, <1>3, <1>4, <1>5

(* A commit, damaged or not. *)
LEMMA CommitKeeps ==
  ASSUME IInv, Reading, At(buf, scan.pos) = ETB,
         scan' = CommitBlock(buf, scan), UNCHANGED <<buf, phase, torn>>
  PROVE  IInv'
<1> DEFINE p == PayloadEnd(buf, scan.pos + 1)
           block == [start |-> scan.blockStart, stop |-> scan.pos]
<1>1. scan \in ScanType /\ buf \in Seq(Byte) /\ scan.pos \in Nat /\ scan.pos < Len(buf)
  BY DEF IInv, TypeOK, ScanType, Reading
<1>2. p \in (scan.pos + 1) .. Len(buf)
      /\ \A q \in (scan.pos + 1) .. (p - 1) : At(buf, q) # ETB
  BY <1>1, PayloadEndStops
<1> HIDE DEF p
<1>3. /\ scan'.pos = p /\ scan'.blockStart = p /\ scan'.committedEnd = p
      /\ scan'.inText = FALSE /\ scan'.depth = 0
      /\ scan'.blocks = Append(scan.blocks, block)
      /\ scan'.damaged \in {scan.damaged, scan.damaged \cup {Len(scan.blocks) + 1}}
  BY <1>1 DEF CommitBlock, ScanType, p
<1>4. block \in BlockType /\ scan.blocks \in Seq(BlockType)
  BY <1>1 DEF ScanType, BlockType
<1>5. scan' \in ScanType
  <2>1. scan' = [pos |-> p, blockStart |-> p, inText |-> FALSE, depth |-> 0,
                 blocks |-> scan'.blocks, damaged |-> scan'.damaged,
                 committedEnd |-> p]
    BY <1>1 DEF CommitBlock, ScanType, p
  <2>2. scan'.blocks \in Seq(BlockType)
    BY <1>3, <1>4
  <2>3. scan'.damaged \in SUBSET (Nat \ {0})
    BY <1>1, <1>3 DEF ScanType
  <2>4. p \in Nat
    BY <1>1, <1>2
  <2>5. \A bs \in Seq(BlockType), d \in SUBSET (Nat \ {0}) :
          [pos |-> p, blockStart |-> p, inText |-> FALSE, depth |-> 0,
           blocks |-> bs, damaged |-> d, committedEnd |-> p] \in ScanType
    BY <2>4 DEF ScanType
  <2> QED
    BY <2>1, <2>2, <2>3, <2>5, Zenon
<1>6. TypeOK'
  BY <1>5 DEF IInv, TypeOK
<1>7. /\ Len(scan'.blocks) = Len(scan.blocks) + 1
      /\ \A i \in 1 .. Len(scan.blocks) : scan'.blocks[i] = scan.blocks[i]
      /\ scan'.blocks[Len(scan.blocks) + 1] = block
      /\ DOMAIN scan'.blocks = 1 .. (Len(scan.blocks) + 1)
      /\ DOMAIN scan.blocks = 1 .. Len(scan.blocks)
  BY <1>3, <1>4
<1>8. BlocksInOrder'
  <2> DEFINE m == Len(scan.blocks)
  <2>0. m \in Nat /\ \A i \in 1 .. m : scan.blocks[i] \in BlockType
    BY <1>4
  <2>a. \A i \in 1 .. m : /\ scan.blocks[i].start <= scan.blocks[i].stop
                          /\ scan.blocks[i].stop < Len(buf)
                          /\ At(buf, scan.blocks[i].stop) = ETB
                          /\ i > 1 => scan.blocks[i - 1].stop < scan.blocks[i].start
    BY <1>7 DEF IInv, BlocksInOrder
  <2>b. block.start <= block.stop /\ block.stop < Len(buf) /\ At(buf, block.stop) = ETB
    BY <1>1 DEF IInv, BlocksInOrder
  <2>1. \A i \in 1 .. (m + 1) : /\ scan'.blocks[i].start <= scan'.blocks[i].stop
                                /\ scan'.blocks[i].stop < Len(buf)
                                /\ At(buf, scan'.blocks[i].stop) = ETB
    <3> TAKE i \in 1 .. (m + 1)
    <3>1. CASE i \in 1 .. m
      BY <3>1, <1>7, <2>a
    <3>2. CASE i = m + 1
      BY <3>2, <1>7, <2>b
    <3> QED
      BY <3>1, <3>2, <2>0
  <2>2. \A i \in 1 .. (m + 1) :
          i > 1 => scan'.blocks[i - 1].stop < scan'.blocks[i].start
    <3> TAKE i \in 1 .. (m + 1)
    <3>1. CASE i <= m
      <4>1. i \in 1 .. m /\ (i > 1 => i - 1 \in 1 .. m)
        BY <3>1, <2>0
      <4> QED
        BY <4>1, <1>7, <2>a
    <3>2. CASE i = m + 1 /\ m > 0
      <4>1. scan.blocks[m].stop < scan.committedEnd /\ scan.committedEnd <= scan.blockStart
        BY <1>7, <3>2, <2>0 DEF IInv, BlocksInOrder
      <4>2. scan'.blocks[i - 1] = scan.blocks[m] /\ scan'.blocks[i] = block
        BY <1>7, <3>2, <2>0
      <4>3. scan.blocks[m].stop \in Nat /\ scan.committedEnd \in Nat /\ scan.blockStart \in Nat
        BY <1>1, <2>0, <3>2 DEF ScanType, BlockType
      <4> QED
        BY <4>1, <4>2, <4>3
    <3> QED
      BY <3>1, <3>2, <2>0
  <2>3. scan'.damaged \subseteq 1 .. (m + 1)
    BY <1>3, <1>7, <2>0 DEF IInv, BlocksInOrder
  <2>4. scan.pos < p /\ p <= Len(buf) /\ scan'.blocks # <<>>
    BY <1>1, <1>2, <1>7, <2>0
  <2>5. scan'.blocks[Len(scan'.blocks)].stop < scan'.committedEnd
    BY <2>4, <1>3, <1>7
  <2>6. scan'.committedEnd <= scan'.blockStart /\ scan'.blockStart <= scan'.pos
        /\ scan'.committedEnd <= Len(buf)
    BY <1>1, <1>2, <1>3
  <2> QED
    BY <1>7, <2>1, <2>2, <2>3, <2>4, <2>5, <2>6 DEF BlocksInOrder
<1>9. NoCommitMissed'
  <2>1. Stops \subseteq Stops' /\ scan.pos \in Stops'
    BY <1>7, <1>4 DEF Stops
  <2>2. ASSUME NEW q \in CommitMarks(buf), q < p PROVE q \in Stops'
    <3>1. q \in Nat /\ At(buf, q) = ETB
      BY DEF CommitMarks
    <3>2. q < scan.pos \/ q = scan.pos
      BY <1>1, <1>2, <2>2, <3>1
    <3> QED
      BY <2>1, <3>2 DEF IInv, NoCommitMissed
  <2> QED
    BY <1>3, <2>2 DEF NoCommitMissed
<1>10. InTextEven'
  BY <1>3 DEF InTextEven
<1> QED
  BY <1>6, <1>8, <1>9, <1>10 DEF IInv

(* An escape inside text takes two bytes; the second is behind an odd run. *)
LEMMA EscapeKeeps ==
  ASSUME IInv, Reading, scan.inText, At(buf, scan.pos) = DLE,
         scan' = SkipEscape(scan), UNCHANGED <<buf, phase, torn>>
  PROVE  IInv'
<1>1. scan \in ScanType /\ scan.pos \in Nat /\ scan.pos < Len(buf) /\ Len(buf) \in Nat
  BY DEF IInv, TypeOK, ScanType, Reading
<1>2. /\ scan' \in ScanType
      /\ scan'.pos = scan.pos + 2
      /\ scan'.blockStart = scan.blockStart
      /\ scan'.blocks = scan.blocks
      /\ scan'.damaged = scan.damaged
      /\ scan'.committedEnd = scan.committedEnd
  BY <1>1 DEF SkipEscape, ScanType
<1>3. EvenRun(buf, scan.pos)
  BY <1>1 DEF IInv, InTextEven
<1>4. TypeOK'
  BY <1>2 DEF IInv, TypeOK
<1>5. BlocksInOrder'
  BY <1>1, <1>2 DEF IInv, BlocksInOrder, ScanType
<1>6. NoCommitMissed'
  <2>1. Stops' = Stops /\ CommitMarks(buf)' = CommitMarks(buf)
    BY <1>2 DEF Stops, CommitMarks
  <2>2. scan.pos \notin CommitMarks(buf) /\ scan.pos + 1 \notin CommitMarks(buf)
    BY <1>1, <1>3, OddRunAfterDLE DEF CommitMarks, ETB, DLE
  <2>3. \A p \in CommitMarks(buf) :
          p \in Nat /\ (p < scan.pos + 2 => p < scan.pos)
    BY <1>1, <2>2 DEF CommitMarks
  <2> QED
    BY <1>2, <2>1, <2>3 DEF IInv, NoCommitMissed
<1>7. InTextEven'
  <2>1. CASE At(buf, scan.pos + 1) = DLE
    BY <1>1, <1>2, <1>3, <2>1, EvenRunAfterPair DEF InTextEven
  <2>2. CASE At(buf, scan.pos + 1) # DLE
    <3>1. EvenRun(buf, scan.pos + 1 + 1)
      BY <1>1, <2>2, EvenRunAfterOther
    <3> QED
      BY <1>1, <1>2, <3>1 DEF InTextEven
  <2> QED
    BY <2>1, <2>2
<1> QED
  BY <1>4, <1>5, <1>6, <1>7 DEF IInv
-----------------------------------------------------------------------------
(* Every byte the scanner reads takes one of the three kinds of step. *)
LEMMA ReadInTextKeeps == IInv /\ ReadInText => IInv'
<1> SUFFICES ASSUME IInv, ReadInText PROVE IInv'
  OBVIOUS
<1> DEFINE b == At(buf, scan.pos)
<1>1. /\ Reading /\ scan.inText /\ UNCHANGED <<buf, phase, torn>>
      /\ scan \in ScanType /\ scan' = TextStep(buf, scan)
  BY DEF ReadInText, IInv, TypeOK
<1>t. scan.blockStart \in Nat /\ scan.pos \in Nat /\ scan.depth \in Nat
  BY <1>1 DEF ScanType
<1>2. CASE b = DLE
  <2>1. b # ETX /\ b # ETB /\ b \notin {SYN, EOT, EM}
    BY <1>2 DEF DLE, ETX, ETB, SYN, EOT, EM
  <2>2. scan' = SkipEscape(scan)
    BY <1>1, <1>2, <2>1, Zenon DEF TextStep
  <2> QED
    BY <1>1, <1>2, <2>2, EscapeKeeps
<1>3. CASE b = ETX
  <2>1. b # DLE /\ b # ETB /\ b \notin {SYN, EOT, EM}
    BY <1>3 DEF DLE, ETX, ETB, SYN, EOT, EM
  <2>2. scan' = Pass(scan, scan.blockStart, FALSE, scan.depth)
    BY <1>1, <1>3, <2>1, Zenon DEF TextStep
  <2> QED
    BY <1>1, <1>t, <2>1, <2>2, PassAdvances, AdvanceKeeps
<1>4. CASE b = ETB
  <2>1. b # DLE /\ b # ETX /\ b \notin {SYN, EOT, EM}
    BY <1>4 DEF DLE, ETX, ETB, SYN, EOT, EM
  <2>2. scan' = CommitBlock(buf, scan)
    BY <1>1, <1>4, <2>1, Zenon DEF TextStep
  <2> QED
    BY <1>1, <1>4, <2>2, CommitKeeps
<1>5. CASE b \in {SYN, EOT, EM}
  <2>1. b # DLE /\ b # ETX /\ b # ETB
    BY <1>5 DEF DLE, ETX, ETB, SYN, EOT, EM
  <2>2. scan' = CutText(scan, b)
    BY <1>1, <1>5, <2>1, Zenon DEF TextStep
  <2>3. PICK k \in {scan.blockStart, scan.pos} : scan' = Pass(scan, k, FALSE, 0)
    BY <2>2, Zenon DEF CutText
  <2> QED
    BY <1>1, <1>t, <2>1, <2>3, PassAdvances, AdvanceKeeps
<1>6. CASE b \notin {DLE, ETX, ETB, SYN, EOT, EM}
  <2>1. b # DLE /\ b # ETX /\ b # ETB /\ b \notin {SYN, EOT, EM}
    BY <1>6
  <2>2. scan' = Pass(scan, scan.blockStart, TRUE, scan.depth)
    BY <1>1, <2>1, Zenon DEF TextStep
  <2> QED
    BY <1>1, <1>t, <2>1, <2>2, PassAdvances, AdvanceKeeps
<1> QED
  BY <1>2, <1>3, <1>4, <1>5, <1>6

LEMMA ReadOutsideKeeps == IInv /\ ReadOutside => IInv'
<1> SUFFICES ASSUME IInv, ReadOutside PROVE IInv'
  OBVIOUS
<1> DEFINE b == At(buf, scan.pos)
<1>1. /\ Reading /\ UNCHANGED <<buf, phase, torn>>
      /\ scan \in ScanType /\ scan' = OutsideStep(buf, scan)
  BY DEF ReadOutside, IInv, TypeOK
<1>t. scan.blockStart \in Nat /\ scan.pos \in Nat /\ scan.depth \in Nat
  BY <1>1 DEF ScanType
<1>2. CASE b = STX
  <2>1. b # DLE /\ b # CAN /\ b # ETB /\ b # SYN
    BY <1>2 DEF STX, DLE, CAN, ETB, SYN
  <2>2. scan' = Pass(scan, scan.blockStart, TRUE, scan.depth)
    BY <1>1, <1>2, <2>1, Zenon DEF OutsideStep
  <2> QED
    BY <1>1, <1>t, <2>1, <2>2, PassAdvances, AdvanceKeeps
<1>3. CASE b = DLE
  <2>1. b # STX /\ b # CAN /\ b # ETB /\ b # SYN
    BY <1>3 DEF STX, DLE, CAN, ETB, SYN
  <2>2. PICK d \in Nat : scan' = Pass(scan, scan.blockStart, FALSE, d)
    <3>1. scan' = Pass(scan, scan.blockStart, FALSE, scan.depth + 1)
      BY <1>1, <1>3, <2>1, Zenon DEF OutsideStep
    <3>2. scan.depth + 1 \in Nat
      BY <1>t
    <3> QED
      BY <3>1, <3>2, Zenon
  <2> QED
    BY <1>1, <1>t, <2>1, <2>2, PassAdvances, AdvanceKeeps
<1>4. CASE b = CAN
  <2>1. b # STX /\ b # DLE /\ b # ETB /\ b # SYN
    BY <1>4 DEF STX, DLE, CAN, ETB, SYN
  <2>2. scan' = CloseLevel(scan)
    BY <1>1, <1>4, <2>1, Zenon DEF OutsideStep
  <2>3. PICK d \in Nat : scan' = Pass(scan, scan.blockStart, FALSE, d)
    <3>1. (IF scan.depth > 0 THEN scan.depth - 1 ELSE scan.depth) \in Nat
      BY <1>t
    <3> QED
      BY <2>2, <3>1, Zenon DEF CloseLevel
  <2> QED
    BY <1>1, <1>t, <2>1, <2>3, PassAdvances, AdvanceKeeps
<1>5. CASE b = ETB
  <2>1. b # STX /\ b # DLE /\ b # CAN /\ b # SYN
    BY <1>5 DEF STX, DLE, CAN, ETB, SYN
  <2>2. scan' = CommitBlock(buf, scan)
    BY <1>1, <1>5, <2>1, Zenon DEF OutsideStep
  <2> QED
    BY <1>1, <1>5, <2>2, CommitKeeps
<1>6. CASE b = SYN
  <2>1. b # STX /\ b # DLE /\ b # CAN /\ b # ETB
    BY <1>6 DEF STX, DLE, CAN, ETB, SYN
  <2>2. scan' = NewDocument(scan)
    BY <1>1, <1>6, <2>1, Zenon DEF OutsideStep
  <2>3. PICK k \in {scan.blockStart, scan.pos}, d \in Nat :
          scan' = Pass(scan, k, FALSE, d)
    <3>1. 0 \in Nat
      OBVIOUS
    <3> QED
      BY <1>t, <2>2, <3>1, Zenon DEF NewDocument
  <2> QED
    BY <1>1, <1>t, <2>1, <2>3, PassAdvances, AdvanceKeeps
<1>7. CASE b \notin {STX, DLE, CAN, ETB, SYN}
  <2>1. b # STX /\ b # DLE /\ b # CAN /\ b # ETB /\ b # SYN
    BY <1>7
  <2>2. scan' = Pass(scan, scan.blockStart, FALSE, scan.depth)
    BY <1>1, <2>1, Zenon DEF OutsideStep
  <2> QED
    BY <1>1, <1>t, <2>1, <2>2, PassAdvances, AdvanceKeeps
<1> QED
  BY <1>2, <1>3, <1>4, <1>5, <1>6, <1>7

LEMMA InvariantHolds == Spec => []IInv
<1>1. Init => IInv
  <2> SUFFICES ASSUME Init PROVE IInv
    OBVIOUS
  <2>1. buf \in Seq(Byte)
    <3>1. PICK n \in 0 .. MaxLen : buf \in [1 .. n -> Alphabet]
      BY DEF Init, Buffers
    <3>2. n \in Nat
      BY <3>1, MaxLenAssumption
    <3> QED
      BY <3>1, <3>2, AlphabetAssumption
  <2>2. scan = NewScan /\ phase = "scan" /\ torn = FALSE
    BY DEF Init
  <2>3. NewScan \in ScanType
    <3>1. <<>> \in Seq(BlockType) /\ {} \in SUBSET (Nat \ {0})
      OBVIOUS
    <3> QED
      BY <3>1 DEF NewScan, ScanType
  <2>4. TypeOK
    BY <2>1, <2>2, <2>3 DEF TypeOK
  <2>5. /\ scan.blocks = <<>> /\ DOMAIN scan.blocks = {} /\ scan.committedEnd = 0
        /\ scan.blockStart = 0 /\ scan.pos = 0 /\ scan.damaged = {}
        /\ scan.inText = FALSE /\ Len(buf) \in Nat
    BY <2>1, <2>2 DEF NewScan
  <2>6. BlocksInOrder
    BY <2>5 DEF BlocksInOrder
  <2>7. NoCommitMissed /\ InTextEven
    BY <2>5 DEF NoCommitMissed, InTextEven, CommitMarks
  <2> QED
    BY <2>4, <2>6, <2>7 DEF IInv
<1>2. IInv /\ [Next]_vars => IInv'
  <2> SUFFICES ASSUME IInv, [Next]_vars PROVE IInv'
    OBVIOUS
  <2>1. CASE ReadInText
    BY <2>1, ReadInTextKeeps
  <2>2. CASE ReadOutside
    BY <2>2, ReadOutsideKeeps
  <2>3. CASE Finish
    <3>1. UNCHANGED <<buf, scan>> /\ phase' = "done"
          /\ torn' = TornTail(buf, scan.committedEnd)
      BY <2>3 DEF Finish
    <3>2. TornTail(buf, scan.committedEnd) \in BOOLEAN
      BY DEF TornTail
    <3> QED
      BY <3>1, <3>2 DEF IInv, TypeOK, BlocksInOrder, NoCommitMissed,
                        InTextEven, Stops, CommitMarks
  <2>4. CASE UNCHANGED vars
    BY <2>4 DEF vars, IInv, TypeOK, BlocksInOrder, NoCommitMissed,
                InTextEven, Stops, CommitMarks
  <2> QED
    BY <2>1, <2>2, <2>3, <2>4 DEF Next
<1> QED
  BY <1>1, <1>2, PTL DEF Spec
-----------------------------------------------------------------------------
(* The scanner's state is well typed, whatever the log. *)
THEOREM TypeCorrect == Spec => []TypeOK
BY InvariantHolds, PTL DEF IInv

(* The blocks of any log lie in it in order, each before its own ETB, so   *)
(* Block, Committed and Tail never slice outside the buffer.               *)
THEOREM BlocksLieInOrder == Spec => []BlocksInOrder
BY InvariantHolds, PTL DEF IInv

(* An unescaped ETB is always a commit. *)
THEOREM UnescapedETBCommits == Spec => []NoCommitMissed
BY InvariantHolds, PTL DEF IInv
-----------------------------------------------------------------------------
(***************************************************************************)
(* The scan of a prefix of a log.                                          *)
(***************************************************************************)
(* A prefix that a commit's payload ends in has that commit with the same  *)
(* payload.                                                                *)
LEMMA PayloadEndCut ==
  ASSUME NEW log \in Seq(Byte), NEW k \in Nat, k <= Len(log), NEW pos \in Nat,
         PayloadEnd(log, pos) <= k, pos <= k
  PROVE  PayloadEnd(Slice(log, 0, k), pos) = PayloadEnd(log, pos)
<1> DEFINE n == Len(log)
           c == Slice(log, 0, k)
           p == ScanLayout(log, pos, n)
           r == ScanLayout(c, pos, k)
           e == ScanPlain(log, p, n)
           f == ScanPlain(c, r, k)
           v == PayloadEnd(log, pos)
           T == {q \in pos .. e : q = pos \/ At(log, q - 1) # SP}
           U == {q \in pos .. f : q = pos \/ At(c, q - 1) # SP}
<1>n. n \in Nat /\ pos <= n /\ k <= n
  OBVIOUS
<1>c. /\ c \in Seq(Byte) /\ Len(c) = k
      /\ \A i \in 0 .. (k - 1) : At(c, i) = At(log, i)
  BY PrefixIs
<1>l. PayloadEnd(c, pos) = IF r < k /\ IsPlainByte(At(c, r)) THEN Max(U) ELSE pos
  <2> HIDE DEF c
  <2> QED
    BY <1>c DEF PayloadEnd
<1>v. v = IF p < n /\ IsPlainByte(At(log, p)) THEN Max(T) ELSE pos
  BY DEF PayloadEnd
<1> HIDE DEF n, c, v
<1>1. /\ p \in pos .. n /\ (p < n => ~IsLayout(At(log, p)))
      /\ \A q \in pos .. (p - 1) : IsLayout(At(log, q))
  BY <1>n, ScanLayoutStops
<1>2. /\ r \in pos .. k /\ (r < k => ~IsLayout(At(c, r)))
      /\ \A q \in pos .. (r - 1) : IsLayout(At(c, q))
  BY <1>n, ScanLayoutStops
<1> HIDE DEF p, r
<1>3. /\ e \in p .. n /\ (e < n => ~IsPlainByte(At(log, e)))
      /\ \A q \in p .. (e - 1) : IsPlainByte(At(log, q))
  <2>1. p \in Nat /\ p <= n
    BY <1>n, <1>1
  <2> QED
    BY <1>n, <2>1, ScanPlainStops
<1>4. /\ f \in r .. k /\ (f < k => ~IsPlainByte(At(c, f)))
      /\ \A q \in r .. (f - 1) : IsPlainByte(At(c, q))
  <2>1. r \in Nat /\ r <= k
    BY <1>n, <1>2
  <2> QED
    BY <1>n, <2>1, ScanPlainStops
<1> HIDE DEF e, f
<1>5. CASE p < k
  <2>1. r = p
    <3>1. p \in pos .. k /\ ~IsLayout(At(c, p))
      BY <1>n, <1>1, <1>c, <1>5
    <3>2. \A q \in pos .. (p - 1) : IsLayout(At(c, q))
      BY <1>n, <1>1, <1>c, <1>5
    <3> QED
      BY <3>1, <3>2, ScanLayoutIs DEF r
  <2>2. At(c, r) = At(log, p)
    BY <2>1, <1>c, <1>n, <1>1, <1>5
  <2>3. CASE IsPlainByte(At(log, p))
    <3>1. v = Max(T) /\ PayloadEnd(c, pos) = Max(U)
      BY <1>v, <1>l, <1>5, <1>n, <1>1, <2>1, <2>2, <2>3
    <3>2. f <= e
      <4>1. SUFFICES ASSUME e < f PROVE FALSE
        BY <1>3, <1>4, <1>n, <1>1, <1>2
      <4>2. e \in r .. (f - 1) /\ e < n /\ e \in 0 .. (k - 1)
        BY <4>1, <1>3, <1>4, <1>n, <1>1, <1>2, <2>1
      <4> QED
        BY <4>2, <1>3, <1>4, <1>c
    <3>3. f = e \/ f = k
      <4>1. SUFFICES ASSUME f < e, f < k PROVE FALSE
        BY <3>2, <1>3, <1>4, <1>n, <1>1, <1>2
      <4>2. f \in p .. (e - 1) /\ f \in 0 .. (k - 1)
        BY <4>1, <1>3, <1>4, <1>n, <1>1, <1>2, <2>1
      <4> QED
        BY <4>1, <4>2, <1>3, <1>4, <1>c
    <3>4. T \subseteq Nat /\ pos \in T /\ e \in Nat /\ \A j \in T : j <= e
      BY <1>1, <1>3, <1>n
    <3>5. v \in T /\ \A j \in T : j <= v
      <4> HIDE DEF T
      <4> QED
        BY <3>1, <3>4, MaxNat
    <3>6. U \subseteq Nat /\ pos \in U /\ f \in Nat /\ \A j \in U : j <= f
      BY <1>2, <1>4, <1>n
    <3>7. Max(U) \in U /\ \A j \in U : j <= Max(U)
      <4> HIDE DEF U
      <4> QED
        BY <3>6, MaxNat
    <3>8. v <= k
      BY DEF v
    <3>9. \A j \in pos .. f : j \in U <=> j \in T
      <4>1. \A j \in pos .. f : j # pos => j - 1 \in 0 .. (k - 1)
        BY <1>n, <1>4, <1>2
      <4> QED
        BY <4>1, <3>2, <1>c, <1>3, <1>4, <1>2, <1>1, <1>n
    <3>10. v \in pos .. f
      BY <3>3, <3>5, <3>8, <1>3, <1>4, <1>2, <1>1, <1>n
    <3>11. v \in U /\ Max(U) \in T
      BY <3>5, <3>7, <3>9, <3>10
    <3> DEFINE m == Max(U)
    <3>12. m \in Nat /\ v \in Nat /\ m <= v /\ v <= m
      <4>1. v \in Nat /\ m \in Nat
        BY <3>4, <3>5, <3>6, <3>7
      <4> HIDE DEF T, U
      <4> QED
        BY <4>1, <3>5, <3>7, <3>11
    <3> HIDE DEF m
    <3>13. m = v
      BY <3>12
    <3> QED
      BY <3>1, <3>13 DEF m, v, c
  <2>4. CASE ~IsPlainByte(At(log, p))
    BY <1>v, <1>l, <2>2, <2>4 DEF v, c
  <2> QED
    BY <2>3, <2>4
<1>6. CASE ~(p < k)
  <2>1. r = k
    <3>1. k \in pos .. k
      BY <1>n
    <3>2. \A q \in pos .. (k - 1) : IsLayout(At(c, q))
      BY <1>n, <1>1, <1>c, <1>6
    <3> QED
      BY <3>1, <3>2, ScanLayoutIs DEF r
  <2>2. PayloadEnd(c, pos) = pos
    BY <1>l, <1>n, <2>1
  <2>3. v = pos
    <3>1. SUFFICES ASSUME v # pos PROVE FALSE
      OBVIOUS
    <3>2. v = Max(T) /\ IsPlainByte(At(log, p)) /\ p < n
      BY <1>v, <3>1
    <3>3. T \subseteq Nat /\ pos \in T /\ e \in Nat /\ \A j \in T : j <= e
      BY <1>1, <1>3, <1>n
    <3>4. v \in T /\ \A j \in T : j <= v
      <4> HIDE DEF T
      <4> QED
        BY <3>2, <3>3, MaxNat
    <3>5. p < e
      <4>1. SUFFICES ASSUME e = p PROVE FALSE
        BY <1>1, <1>3, <1>n
      <4> QED
        BY <4>1, <3>2, <1>3, <1>n
    <3>6. p + 1 \in T
      <4>1. p + 1 \in pos .. e /\ (p + 1) - 1 = p
        BY <3>5, <1>1, <1>3, <1>n
      <4>2. At(log, (p + 1) - 1) # SP
        BY <4>1, <1>1, <3>2, Zenon DEF IsLayout, Layout
      <4> QED
        BY <4>1, <4>2
    <3>7. p + 1 <= v /\ v <= k
      BY <3>4, <3>6 DEF v
    <3> QED
      BY <3>7, <1>6, <1>n, <1>1, <3>3, <3>4
  <2> QED
    BY <2>2, <2>3 DEF v, c
<1> QED
  BY <1>5, <1>6
(* The scan of a prefix takes the steps of the scan of the log, as long as *)
(* no commit's payload is cut.                                             *)
LEMMA StepOfPrefix ==
  ASSUME NEW log \in Seq(Byte), NEW k \in Nat, k <= Len(log),
         NEW s \in ScanType, s.pos < k,
         At(log, s.pos) = ETB => PayloadEnd(log, s.pos + 1) <= k
  PROVE  ScanStep(Slice(log, 0, k), s) = ScanStep(log, s)
<1> DEFINE c == Slice(log, 0, k)
<1>1. s.pos \in Nat /\ s.pos + 1 \in Nat /\ s.pos + 1 <= k
  BY DEF ScanType
<1>2. At(c, s.pos) = At(log, s.pos)
  <2>1. s.pos \in 0 .. (k - 1)
    BY <1>1
  <2> QED
    BY <2>1, PrefixIs
<1>3. CASE At(log, s.pos) = ETB
  <2>1. PayloadEnd(c, s.pos + 1) = PayloadEnd(log, s.pos + 1)
    BY <1>1, <1>3, PayloadEndCut
  <2>2. ScanStep(c, s) = CommitBlock(c, s) /\ ScanStep(log, s) = CommitBlock(log, s)
    BY <1>2, <1>3, StepCommits
  <2> HIDE DEF c
  <2>3. CommitBlock(c, s) = CommitBlock(log, s)
    BY <2>1 DEF CommitBlock
  <2> QED
    BY <2>2, <2>3 DEF c
<1>4. CASE At(log, s.pos) # ETB
  <2> HIDE DEF c
  <2>1. CASE s.inText
    <3>1. TextStep(c, s) = TextStep(log, s)
      BY <1>2, <1>4 DEF TextStep
    <3> QED
      BY <2>1, <3>1 DEF ScanStep, c
  <2>2. CASE ~s.inText
    <3>1. OutsideStep(c, s) = OutsideStep(log, s)
      BY <1>2, <1>4 DEF OutsideStep
    <3> QED
      BY <2>2, <3>1 DEF ScanStep, c
  <2> QED
    BY <2>1, <2>2
<1> QED
  BY <1>3, <1>4

(* What a scan has found, it does not look at again: the blocks of s are   *)
(* the first ones of t, with the same verdict.                             *)
Grows(s, t) == /\ Len(s.blocks) <= Len(t.blocks)
               /\ \A i \in 1 .. Len(s.blocks) : /\ t.blocks[i] = s.blocks[i]
                                                /\ i \in t.damaged <=> i \in s.damaged

Sound(s) == s.damaged \subseteq 1 .. Len(s.blocks)

(* A commit adds one block, and a verdict on no other. *)
LEMMA CommitAdds ==
  ASSUME NEW log \in Seq(Byte), NEW s \in ScanType, s.pos < Len(log)
  PROVE  LET t == CommitBlock(log, s) IN
         /\ t.blocks = Append(s.blocks, [start |-> s.blockStart, stop |-> s.pos])
         /\ t.damaged \in {s.damaged, s.damaged \cup {Len(s.blocks) + 1}}
         /\ t.pos = PayloadEnd(log, s.pos + 1) /\ t.blockStart = t.pos
         /\ t.committedEnd = t.pos /\ t.inText = FALSE /\ t.depth = 0
         /\ t = [pos |-> t.pos, blockStart |-> t.pos, inText |-> FALSE, depth |-> 0,
                 blocks |-> t.blocks, damaged |-> t.damaged, committedEnd |-> t.pos]
<1> DEFINE p == PayloadEnd(log, s.pos + 1)
           bs == Append(s.blocks, [start |-> s.blockStart, stop |-> s.pos])
           d == IF s.inText \/ s.depth > 0
                THEN s.damaged \cup {Len(s.blocks) + 1} ELSE s.damaged
<1>1. CommitBlock(log, s) = [pos |-> p, blockStart |-> p, inText |-> FALSE, depth |-> 0,
                             blocks |-> bs, damaged |-> d, committedEnd |-> p]
  BY CommitIs, Zenon
<1>2. d \in {s.damaged, s.damaged \cup {Len(s.blocks) + 1}}
  OBVIOUS
<1> HIDE DEF p, bs, d
<1> QED
  BY <1>1, <1>2 DEF p, bs

LEMMA StepGrows ==
  ASSUME NEW log \in Seq(Byte), NEW s \in ScanType, s.pos < Len(log)
  PROVE  /\ Grows(s, ScanStep(log, s))
         /\ Sound(s) => Sound(ScanStep(log, s))
<1> DEFINE t == ScanStep(log, s)
           m == Len(s.blocks)
<1>0. s.blocks \in Seq(BlockType) /\ s.pos \in Nat /\ s.blockStart \in Nat /\ m \in Nat
      /\ s.damaged \in SUBSET (Nat \ {0})
  BY DEF ScanType
<1>1. CASE At(log, s.pos) = ETB
  <2> DEFINE block == [start |-> s.blockStart, stop |-> s.pos]
  <2>1. /\ t.blocks = Append(s.blocks, block)
        /\ t.damaged \in {s.damaged, s.damaged \cup {m + 1}}
    <3>1. t = CommitBlock(log, s)
      BY <1>1, StepCommits
    <3> QED
      BY <3>1, CommitAdds
  <2>2. block \in BlockType
    BY <1>0 DEF BlockType
  <2> HIDE DEF block, t
  <2>3. /\ Len(t.blocks) = m + 1
        /\ \A i \in 1 .. m : t.blocks[i] = s.blocks[i]
    BY <1>0, <2>1, <2>2
  <2> HIDE DEF m
  <2>4. \A i \in 1 .. m : i \in t.damaged <=> i \in s.damaged
    BY <1>0, <2>1
  <2>5. s.damaged \subseteq 1 .. m => t.damaged \subseteq 1 .. (m + 1)
    BY <1>0, <2>1
  <2> QED
    BY <1>0, <2>3, <2>4, <2>5 DEF Grows, Sound, t, m
<1>2. CASE At(log, s.pos) # ETB
  <2>1. PICK n \in {1, 2}, k \in {s.blockStart, s.pos}, x \in BOOLEAN, d \in Nat :
           t = Passed(s, n, k, x, d)
    BY <1>2, StepPasses
  <2>2. t.blocks = s.blocks /\ t.damaged = s.damaged
    BY <2>1 DEF Passed
  <2> HIDE DEF t
  <2> QED
    BY <1>0, <2>2 DEF Grows, Sound, t
<1> QED
  BY <1>1, <1>2

LEMMA GrowsTransitive ==
  ASSUME NEW r \in ScanType, NEW s \in ScanType, NEW t \in ScanType,
         Grows(r, s), Grows(s, t)
  PROVE  Grows(r, t)
<1>1. Len(r.blocks) \in Nat /\ Len(s.blocks) \in Nat /\ Len(t.blocks) \in Nat
  BY SMTT(60) DEF ScanType
<1>2. 1 .. Len(r.blocks) \subseteq 1 .. Len(s.blocks)
  BY <1>1 DEF Grows
<1> QED
  BY <1>1, <1>2 DEF Grows

LEMMA EndGrows ==
  ASSUME NEW log \in Seq(Byte), NEW s \in ScanType
  PROVE  /\ Grows(s, ScanEnd(log)[s])
         /\ Sound(s) => Sound(ScanEnd(log)[s])
<1> DEFINE T == {r \in ScanType : /\ Grows(r, ScanEnd(log)[r])
                                  /\ Sound(r) => Sound(ScanEnd(log)[r])}
<1>1. ASSUME NEW r \in ScanType, r.pos < Len(log) => ScanStep(log, r) \in T
      PROVE  r \in T
  <2>1. CASE r.pos < Len(log)
    <3>1. ScanEnd(log)[r] = ScanEnd(log)[ScanStep(log, r)]
      BY <2>1, ScanEndUnfolds
    <3>2. /\ ScanStep(log, r) \in ScanType /\ Grows(ScanStep(log, r), ScanEnd(log)[r])
          /\ Sound(ScanStep(log, r)) => Sound(ScanEnd(log)[r])
      BY <1>1, <2>1, <3>1
    <3>3. /\ Grows(r, ScanStep(log, r)) /\ ScanEnd(log)[r] \in ScanType
          /\ Sound(r) => Sound(ScanStep(log, r))
      BY <2>1, StepGrows, ScanEndType
    <3>4. Grows(r, ScanEnd(log)[r])
      BY <3>2, <3>3, GrowsTransitive
    <3> QED
      BY <3>2, <3>3, <3>4
  <2>2. CASE ~(r.pos < Len(log))
    <3>1. ScanEnd(log)[r] = r
      BY <2>2, ScanEndUnfolds
    <3>2. Len(r.blocks) \in Nat
      BY DEF ScanType
    <3> QED
      BY <3>1, <3>2 DEF Grows
  <2> QED
    BY <2>1, <2>2
<1>2. ScanType \subseteq T
  <2> HIDE DEF T
  <2> QED
    BY <1>1, ScanInduct
<1> QED
  BY <1>2

(* Where there is no ETB left, nothing more is found. *)
LEMMA NothingFound ==
  ASSUME NEW log \in Seq(Byte), NEW s \in ScanType,
         \A i \in s.pos .. (Len(log) - 1) : At(log, i) # ETB
  PROVE  LET t == ScanEnd(log)[s] IN
         t.blocks = s.blocks /\ t.damaged = s.damaged /\ t.committedEnd = s.committedEnd
<1> DEFINE Found(r, t) == /\ t.blocks = r.blocks /\ t.damaged = r.damaged
                          /\ t.committedEnd = r.committedEnd
           T == {r \in ScanType : (\A i \in r.pos .. (Len(log) - 1) : At(log, i) # ETB)
                                    => Found(r, ScanEnd(log)[r])}
<1>1. ASSUME NEW r \in ScanType, r.pos < Len(log) => ScanStep(log, r) \in T
      PROVE  r \in T
  <2> SUFFICES ASSUME \A i \in r.pos .. (Len(log) - 1) : At(log, i) # ETB
               PROVE  Found(r, ScanEnd(log)[r])
    OBVIOUS
  <2>0. r.pos \in Nat /\ Len(log) \in Nat
    BY DEF ScanType
  <2>1. CASE r.pos < Len(log)
    <3> DEFINE t == ScanStep(log, r)
    <3>1. ScanEnd(log)[r] = ScanEnd(log)[t]
      BY <2>1, ScanEndUnfolds
    <3>2. At(log, r.pos) # ETB
      BY <2>0, <2>1
    <3>3. PICK n \in {1, 2}, k \in {r.blockStart, r.pos}, x \in BOOLEAN, d \in Nat :
             t = Passed(r, n, k, x, d)
      BY <3>2, StepPasses
    <3>4. t.pos = r.pos + n /\ Found(r, t)
      BY <3>3 DEF Passed
    <3> HIDE DEF t
    <3>5. \A i \in t.pos .. (Len(log) - 1) : At(log, i) # ETB
      BY <2>0, <3>4
    <3>6. t \in T
      BY <1>1, <2>1 DEF t
    <3>7. Found(t, ScanEnd(log)[t])
      BY <3>5, <3>6
    <3> QED
      BY <3>1, <3>4, <3>7
  <2>2. CASE ~(r.pos < Len(log))
    <3>1. ScanEnd(log)[r] = r
      BY <2>2, ScanEndUnfolds
    <3> QED
      BY <3>1
  <2> QED
    BY <2>1, <2>2
<1>2. ScanType \subseteq T
  <2> HIDE DEF T
  <2> QED
    BY <1>1, ScanInduct
<1> QED
  BY <1>2

(* A prefix of a log has the first blocks of the log. *)
LEMMA PrefixFinds ==
  ASSUME NEW log \in Seq(Byte), NEW k \in Nat, k <= Len(log), NEW s \in ScanType
  PROVE  Grows(ScanEnd(Slice(log, 0, k))[s], ScanEnd(log)[s])
<1> DEFINE c == Slice(log, 0, k)
           T == {r \in ScanType : Grows(ScanEnd(c)[r], ScanEnd(log)[r])}
<1>c. /\ c \in Seq(Byte) /\ Len(c) = k /\ Len(log) \in Nat
      /\ \A i \in 0 .. (k - 1) : At(c, i) = At(log, i)
  BY PrefixIs
<1>1. ASSUME NEW r \in ScanType, r.pos < Len(log) => ScanStep(log, r) \in T
      PROVE  r \in T
  <2>0. r.pos \in Nat
    BY DEF ScanType
  <2>1. CASE ~(r.pos < k)
    <3>1. ScanEnd(c)[r] = r
      <4> HIDE DEF c
      <4> QED
        BY <1>c, <2>1, ScanEndUnfolds
    <3> QED
      BY <3>1, EndGrows
  <2>2. CASE r.pos < k
    <3> DEFINE q == ScanStep(log, r)
    <3>1. r.pos < Len(log) /\ r.pos < Len(c)
      BY <1>c, <2>0, <2>2
    <3>2. /\ ScanEnd(log)[r] = ScanEnd(log)[q]
          /\ ScanEnd(c)[r] = ScanEnd(c)[ScanStep(c, r)]
      <4> HIDE DEF c
      <4> QED
        BY <1>c, <3>1, ScanEndUnfolds
    <3>3. q \in ScanType /\ Grows(ScanEnd(c)[q], ScanEnd(log)[q])
      BY <1>1, <3>1
    <3>4. CASE At(log, r.pos) = ETB => PayloadEnd(log, r.pos + 1) <= k
      <4>1. ScanStep(c, r) = q
        BY <2>2, <3>4, StepOfPrefix
      <4> QED
        BY <3>2, <3>3, <4>1
    <3>5. CASE At(log, r.pos) = ETB /\ ~(PayloadEnd(log, r.pos + 1) <= k)
      <4> DEFINE u == CommitBlock(c, r)
                 p == PayloadEnd(log, r.pos + 1)
      <4>1. p \in (r.pos + 1) .. Len(log) /\ \A i \in (r.pos + 1) .. (p - 1) : At(log, i) # ETB
        <5>1. r.pos + 1 \in Nat /\ r.pos + 1 <= Len(log)
          BY <2>0, <3>1
        <5> QED
          BY <5>1, PayloadEndStops
      <4>2. u.pos = PayloadEnd(c, r.pos + 1) /\ u \in ScanType
        <5> HIDE DEF c
        <5> QED
          BY <1>c, <3>1, CommitAdds, CommitIs
      <4>3. PayloadEnd(c, r.pos + 1) \in (r.pos + 1) .. k
        <5>1. r.pos + 1 \in Nat /\ r.pos + 1 <= k
          BY <2>0, <2>2
        <5> HIDE DEF c
        <5> QED
          BY <1>c, <5>1, PayloadEndStops
      <4>4. ScanStep(c, r) = u /\ q = CommitBlock(log, r)
        <5>1. At(c, r.pos) = At(log, r.pos)
          BY <1>c, <2>0, <2>2
        <5> HIDE DEF c
        <5> QED
          BY <3>5, <5>1, StepCommits
      <4>5. u.blocks = q.blocks /\ u.damaged = q.damaged
        <5>1. u.blocks = q.blocks
          <6> HIDE DEF c
          <6> QED
            BY <1>c, <3>1, <4>4, CommitAdds
        <5>2. u.damaged = q.damaged
          <6>1. ASSUME NEW l PROVE CommitBlock(l, r).damaged =
                  (IF r.inText \/ r.depth > 0 THEN r.damaged \cup {Len(r.blocks) + 1}
                                              ELSE r.damaged)
            BY DEF CommitBlock, ScanType
          <6> HIDE DEF c
          <6> QED
            BY <4>4, <6>1
        <5> QED
          BY <5>1, <5>2
      <4> HIDE DEF u, p
      <4>6. \A i \in u.pos .. (Len(c) - 1) : At(c, i) # ETB
        <5> TAKE i \in u.pos .. (Len(c) - 1)
        <5>1. i \in (r.pos + 1) .. (p - 1) /\ i \in 0 .. (k - 1)
          <6> HIDE DEF c
          <6> QED
            BY <1>c, <2>0, <3>5, <4>1, <4>2, <4>3 DEF p
        <5> QED
          BY <1>c, <4>1, <5>1
      <4>7. /\ ScanEnd(c)[u].blocks = u.blocks /\ ScanEnd(c)[u].damaged = u.damaged
        <5> HIDE DEF c
        <5> QED
          BY <1>c, <4>2, <4>6, NothingFound
      <4>8. Grows(q, ScanEnd(log)[q])
        BY <3>3, EndGrows
      <4>9. ScanEnd(c)[r] = ScanEnd(c)[u]
        BY <3>2, <4>4
      <4> HIDE DEF c, q
      <4> QED
        BY <3>2, <4>5, <4>7, <4>8, <4>9 DEF Grows, c, q
    <3> HIDE DEF c
    <3> QED
      BY <3>4, <3>5
  <2> QED
    BY <2>1, <2>2
<1>2. ScanType \subseteq T
  <2> HIDE DEF T
  <2> QED
    BY <1>1, ScanInduct
<1> QED
  BY <1>2
-----------------------------------------------------------------------------
(***************************************************************************)
(* A log cut behind its last commit, and a tail that is not torn.          *)
(***************************************************************************)
(* The scanner as the last commit of a scan left it. *)
AtCommit(z) ==
  [pos |-> z.committedEnd, blockStart |-> z.committedEnd, inText |-> FALSE, depth |-> 0,
   blocks |-> z.blocks, damaged |-> z.damaged, committedEnd |-> z.committedEnd]

SameFound(z, r) == /\ z.blocks = r.blocks /\ z.damaged = r.damaged
                   /\ z.committedEnd = r.committedEnd

(* The scan of the log comes by there, and that of the part up to there    *)
(* ends so.                                                                *)
CutScan(log, r) ==
  LET z == ScanEnd(log)[r] IN
  /\ r.pos < z.committedEnd /\ z.committedEnd <= Len(log)
  /\ ScanEnd(Slice(log, 0, z.committedEnd))[r] = AtCommit(z)
  /\ ScanEnd(log)[r] = ScanEnd(log)[AtCommit(z)]

LEMMA CutScanBack ==
  ASSUME NEW log \in Seq(Byte), NEW r \in ScanType, r.pos < Len(log),
         CutScan(log, ScanStep(log, r))
  PROVE  CutScan(log, r)
<1> DEFINE q == ScanStep(log, r)
           z == ScanEnd(log)[r]
           e == z.committedEnd
           c == Slice(log, 0, e)
<1>1. z = ScanEnd(log)[q] /\ z \in ScanType
  BY ScanEndUnfolds, ScanEndType
<1>2. /\ q.pos < e /\ e <= Len(log) /\ ScanEnd(c)[q] = AtCommit(z)
      /\ z = ScanEnd(log)[AtCommit(z)]
  BY <1>1 DEF CutScan
<1>3. q \in ScanType /\ r.pos < q.pos /\ r.pos \in Nat /\ q.pos \in Nat /\ e \in Nat
  BY <1>1, ScanStepAdvances DEF ScanType
<1>c. c \in Seq(Byte) /\ Len(c) = e
  BY <1>2, <1>3, PrefixIs
<1> HIDE DEF z, q, e
<1>4. r.pos < e
  BY <1>2, <1>3
<1>5. ScanStep(c, r) = q
  <2>1. At(log, r.pos) = ETB => PayloadEnd(log, r.pos + 1) <= e
    <3> SUFFICES ASSUME At(log, r.pos) = ETB PROVE PayloadEnd(log, r.pos + 1) <= e
      OBVIOUS
    <3>1. q = CommitBlock(log, r)
      BY StepCommits DEF q
    <3>2. q.pos = PayloadEnd(log, r.pos + 1)
      BY <3>1, CommitAdds
    <3> QED
      BY <3>2, <1>2, <1>3
  <2> QED
    BY <1>2, <1>3, <1>4, <2>1, StepOfPrefix DEF q
<1>6. ScanEnd(c)[r] = ScanEnd(c)[q]
  <2>1. r.pos < Len(c)
    BY <1>4, <1>c
  <2> HIDE DEF c
  <2> QED
    BY <1>5, <1>c, <2>1, ScanEndUnfolds
<1> QED
  BY <1>2, <1>4, <1>6 DEF CutScan, z, e

LEMMA CutAtCommit ==
  ASSUME NEW log \in Seq(Byte), NEW s \in ScanType
  PROVE  SameFound(ScanEnd(log)[s], s) \/ CutScan(log, s)
<1> DEFINE T == {r \in ScanType : SameFound(ScanEnd(log)[r], r) \/ CutScan(log, r)}
<1>1. ASSUME NEW r \in ScanType, r.pos < Len(log) => ScanStep(log, r) \in T
      PROVE  SameFound(ScanEnd(log)[r], r) \/ CutScan(log, r)
  <2>1. CASE ~(r.pos < Len(log))
    <3>1. ScanEnd(log)[r] = r
      BY <2>1, ScanEndUnfolds
    <3> QED
      BY <3>1 DEF SameFound
  <2>2. CASE r.pos < Len(log) /\ CutScan(log, ScanStep(log, r))
    BY <2>2, CutScanBack
  <2>3. CASE r.pos < Len(log) /\ SameFound(ScanEnd(log)[ScanStep(log, r)], ScanStep(log, r))
    <3> DEFINE q == ScanStep(log, r)
               z == ScanEnd(log)[r]
    <3>1. z = ScanEnd(log)[q] /\ z \in ScanType
      BY <2>3, ScanEndUnfolds, ScanEndType
    <3>2. z.blocks = q.blocks /\ z.damaged = q.damaged /\ z.committedEnd = q.committedEnd
      BY <2>3, <3>1 DEF SameFound
    <3>3. CASE At(log, r.pos) # ETB
      <4>1. \E n \in {1, 2}, k \in {r.blockStart, r.pos}, x \in BOOLEAN, d \in Nat :
             q = Passed(r, n, k, x, d)
        BY <3>3, StepPasses
      <4>2. SameFound(q, r)
        BY <4>1 DEF SameFound, Passed
      <4> HIDE DEF z, q
      <4>3. SameFound(z, r)
        BY <3>2, <4>2 DEF SameFound
      <4> QED
        BY <4>3 DEF z
    <3>4. CASE At(log, r.pos) = ETB
      <4>1. q = CommitBlock(log, r)
        BY <3>4, StepCommits
      <4>2. /\ q.pos = PayloadEnd(log, r.pos + 1) /\ q.committedEnd = q.pos
            /\ q = [pos |-> q.pos, blockStart |-> q.pos, inText |-> FALSE, depth |-> 0,
                    blocks |-> q.blocks, damaged |-> q.damaged, committedEnd |-> q.pos]
        BY <2>3, <4>1, CommitAdds, Zenon
      <4>3. /\ r.pos \in Nat /\ q \in ScanType /\ r.pos < q.pos /\ q.pos \in Nat
        BY <2>3, ScanStepAdvances DEF ScanType
      <4>4. q.pos <= Len(log)
        <5>1. r.pos + 1 \in Nat /\ r.pos + 1 <= Len(log)
          BY <2>3, <4>3
        <5>2. PayloadEnd(log, r.pos + 1) \in (r.pos + 1) .. Len(log)
          BY <5>1, PayloadEndStops
        <5> QED
          BY <4>2, <5>2
      <4> DEFINE c == Slice(log, 0, q.pos)
      <4>c. c \in Seq(Byte) /\ Len(c) = q.pos
        BY <4>3, <4>4, PrefixIs
      <4>5. ScanStep(c, r) = q
        <5> HIDE DEF q
        <5>1. PayloadEnd(log, r.pos + 1) <= q.pos
          BY <4>2, <4>3
        <5> QED
          BY <4>3, <4>4, <5>1, StepOfPrefix DEF q
      <4> HIDE DEF c, q
      <4>6. ScanEnd(c)[r] = q
        <5>1. r.pos < Len(c) /\ ~(q.pos < Len(c))
          BY <4>3, <4>c
        <5>2. ScanEnd(c)[r] = ScanEnd(c)[q]
          BY <4>5, <4>c, <5>1, ScanEndUnfolds
        <5>3. ScanEnd(c)[q] = q
          BY <4>3, <4>c, <5>1, ScanEndUnfolds
        <5> QED
          BY <5>2, <5>3
      <4> HIDE DEF z
      <4>7. q = AtCommit(z) /\ z.committedEnd = q.pos
        BY <3>2, <4>2, Zenon DEF AtCommit
      <4>8. CutScan(log, r)
        BY <3>1, <4>3, <4>4, <4>6, <4>7 DEF CutScan, z, c
      <4> QED
        BY <4>8
    <3> QED
      BY <3>3, <3>4
  <2> QED
    BY <1>1, <2>1, <2>2, <2>3
<1>2. ScanType \subseteq T
  <2>1. \A r \in ScanType : (r.pos < Len(log) => ScanStep(log, r) \in T) => r \in T
    BY <1>1
  <2> HIDE DEF T
  <2> QED
    BY <2>1, ScanInduct
<1> QED
  BY <1>2

(* So for the scan of a whole log: the committed region has its blocks,    *)
(* and nothing else.                                                       *)
LEMMA CommittedScan ==
  ASSUME NEW log \in Seq(Byte)
  PROVE  LET z == Scan(log) IN
         /\ z \in ScanType /\ z.committedEnd \in 0 .. Len(log)
         /\ Scan(Slice(log, 0, z.committedEnd)) = AtCommit(z)
         /\ z = ScanEnd(log)[AtCommit(z)]
         /\ AtCommit(z) \in ScanType
<1> DEFINE z == ScanEnd(log)[NewScan]
<1>1. z = Scan(log) /\ NewScan \in ScanType /\ z \in ScanType
  BY ScanEndUnfolds, ScanEndType
<1>2. AtCommit(z) \in ScanType
  <2> HIDE DEF z
  <2> QED
    BY <1>1 DEF AtCommit, ScanType
<1>3. CASE SameFound(z, NewScan)
  <2> DEFINE c == Slice(log, 0, 0)
  <2>1. c \in Seq(Byte) /\ Len(c) = 0
    <3>1. 0 \in Nat /\ 0 <= Len(log)
      OBVIOUS
    <3> QED
      BY <3>1, PrefixIs
  <2>2. z.committedEnd = 0 /\ AtCommit(z) = NewScan
    <3> HIDE DEF z
    <3> QED
      BY <1>3 DEF SameFound, NewScan, AtCommit
  <2>3. Scan(c) = NewScan
    <3>1. ~(NewScan.pos < Len(c))
      BY <2>1 DEF NewScan
    <3> HIDE DEF c
    <3> QED
      BY <2>1, <3>1, ScanEndUnfolds
  <2> QED
    BY <1>1, <1>2, <2>2, <2>3
<1>4. CASE CutScan(log, NewScan)
  <2>1. /\ 0 < z.committedEnd /\ z.committedEnd <= Len(log)
        /\ ScanEnd(Slice(log, 0, z.committedEnd))[NewScan] = AtCommit(z)
        /\ z = ScanEnd(log)[AtCommit(z)]
    BY <1>4 DEF CutScan, NewScan
  <2>2. z.committedEnd \in Nat
    BY <1>1 DEF ScanType
  <2> HIDE DEF z
  <2>3. Slice(log, 0, z.committedEnd) \in Seq(Byte)
    BY <2>1, <2>2, PrefixIs
  <2>4. Scan(Slice(log, 0, z.committedEnd)) = AtCommit(z)
    BY <2>1, <2>3, ScanEndUnfolds
  <2> QED
    BY <1>1, <1>2, <2>1, <2>2, <2>4
<1> QED
  BY <1>1, <1>3, <1>4, CutAtCommit
(* A tail of layout, notes and EOT leaves the scanner outside of all.      *)
(* (Behind an EM the scan goes on, and may come into a text.)              *)
LEMMA TailRests ==
  ASSUME NEW log \in Seq(Byte), NEW s \in ScanType, NEW p \in 0 .. Len(log),
         ~TornTail(log, p), \A i \in p .. (Len(log) - 1) : At(log, i) # EM
  PROVE  ScanEnd(log)[MovedTo(s, p, FALSE)] = MovedTo(s, Len(log), FALSE)
<1> DEFINE n == Len(log)
           f == TornEnd(log)
           End(i) == ScanEnd(log)[MovedTo(s, i, FALSE)]
           D == p .. n
           T == {i \in D : f[i] # "torn" => End(i) = End(n)}
           measure == [i \in D |-> n - i]
           codes == {STX, DLE, CAN, ETB, SYN}
<1>0. n \in Nat /\ p \in Nat /\ p <= n
  OBVIOUS
<1>f. \A i \in 0 .. n : TornRules(f, log, i, n)
  BY TornUnfolds
<1>c. EOT \notin codes /\ \A b \in Layout : b \notin codes
  BY DEF EOT, STX, DLE, CAN, ETB, SYN, Layout, SP, HT, LF, CR
<1> HIDE DEF f, codes
<1>1. ASSUME NEW i \in D, \A j \in D : measure[j] < measure[i] => j \in T,
             f[i] # "torn"
      PROVE  End(i) = End(n)
  <2> DEFINE q == ScanLayout(log, i, n)
             note == ScanNote(log, q, n)
  <2>0. i \in Nat /\ i <= n /\ p <= i
    BY <1>0
  <2>1. /\ q \in i .. n /\ \A j \in i .. (q - 1) : IsLayout(At(log, j))
    BY <1>0, <2>0, ScanLayoutStops
  <2>2. /\ q < n => note \in {Malformed} \cup (q + 2) .. n
        /\ q < n /\ At(log, q) = EOT => f[i] = f[q + 1]
        /\ q < n /\ At(log, q) = BEL /\ note = Malformed => f[i] = "torn"
        /\ q < n /\ At(log, q) = BEL /\ note # Malformed => f[i] = f[note]
        /\ q < n /\ At(log, q) \notin {EOT, EM, BEL} => f[i] = "torn"
    <3>1. TornRules(f, log, i, n)
      BY <1>f, <2>0
    <3> QED
      BY <3>1, Zenon DEF TornRules
  <2>3. End(i) = End(q)
    <3>1. \A j \in i .. (q - 1) : At(log, j) \notin codes
      BY <1>c, <2>1 DEF IsLayout
    <3>2. q \in Nat /\ i <= q /\ q <= Len(log)
      BY <2>0, <2>1
    <3> HIDE DEF q
    <3> QED
      BY <2>0, <3>1, <3>2, ScanPasses DEF codes
  <2>4. q \in Nat /\ q <= n /\ i <= q
    BY <2>0, <2>1
  <2> HIDE DEF q, note
  <2>5. CASE q = n
    BY <2>3, <2>5
  <2>6. CASE q < n /\ At(log, q) = EOT
    <3>1. End(q) = End(q + 1)
      <4>1. \A j \in q .. ((q + 1) - 1) : At(log, j) \notin codes
        <5> TAKE j \in q .. ((q + 1) - 1)
        <5>1. j = q
          BY <2>4
        <5> QED
          BY <1>c, <2>6, <5>1
      <4>2. q + 1 \in Nat /\ q <= q + 1 /\ q + 1 <= Len(log)
        BY <2>4, <2>6
      <4> QED
        BY <2>4, <4>1, <4>2, ScanPasses DEF codes
    <3>2. q + 1 \in D /\ measure[q + 1] < measure[i]
      BY <1>0, <2>0, <2>4, <2>6
    <3> HIDE DEF D, measure, End
    <3>3. q + 1 \in T
      BY <1>1, <3>2
    <3> QED
      BY <1>1, <2>2, <2>3, <2>6, <3>1, <3>3
  <2>7. CASE q < n /\ At(log, q) = BEL /\ note # Malformed
    <3>1. End(q) = End(note)
      BY <2>4, <2>7, NotePasses DEF note
    <3>2. note \in (q + 2) .. n
      BY <2>2, <2>7
    <3>3. note \in D /\ measure[note] < measure[i]
      BY <1>0, <2>0, <2>4, <3>2
    <3> HIDE DEF D, measure, End
    <3>4. note \in T
      BY <1>1, <3>3
    <3> QED
      BY <1>1, <2>2, <2>3, <2>7, <3>1, <3>4
  <2>8. CASE q < n /\ At(log, q) # EOT /\ ~(At(log, q) = BEL /\ note # Malformed)
    <3>1. At(log, q) # EM
      BY <2>0, <2>4, <2>8
    <3> HIDE DEF D, measure, End
    <3> QED
      BY <1>1, <2>2, <2>8, <3>1
  <2>9. q = n \/ q < n
    BY <1>0, <2>4
  <2> HIDE DEF End
  <2> QED
    BY <2>5, <2>6, <2>7, <2>8, <2>9
<1>2. ASSUME NEW i \in D, \A j \in D : measure[j] < measure[i] => j \in T
      PROVE  i \in T
  <2> HIDE DEF End, measure
  <2> QED
    BY <1>1, <1>2
<1>3. D \subseteq T
  <2>1. measure \in [D -> Nat]
    BY <1>0
  <2> HIDE DEF D, T, measure
  <2> QED
    BY <1>2, <2>1, MeasureInduct
<1>4. p \in T /\ f[p] # "torn"
  <2>1. p \in D
    BY <1>0
  <2>2. f[p] # "torn"
    BY TornUnfolds DEF f
  <2> HIDE DEF D, T
  <2> QED
    BY <1>3, <2>1, <2>2
<1>5. End(p) = End(n)
  BY <1>4
<1>7. End(n) = MovedTo(s, n, FALSE)
  <2> DEFINE t == MovedTo(s, n, FALSE)
  <2>1. t \in ScanType /\ t.pos = n
    BY <1>0, MovedOutside
  <2> HIDE DEF t
  <2>2. ~(t.pos < Len(log))
    BY <1>0, <2>1
  <2> QED
    BY <2>1, <2>2, ScanEndUnfolds DEF t
<1> QED
  BY <1>5, <1>7

(* What a repair leaves: the committed region as it was, and behind it no  *)
(* torn tail.                                                              *)
LEMMA RepairedIs ==
  ASSUME NEW log \in Seq(Byte)
  PROVE  LET z == Scan(log)
             l == Repaired(log)
         IN  /\ l \in Seq(Byte) /\ z.committedEnd \in 0 .. Len(l)
             /\ Scan(l) \in ScanType
             /\ Scan(l).blocks = z.blocks /\ Scan(l).damaged = z.damaged
             /\ Scan(l).committedEnd = z.committedEnd
             /\ ~TornTail(l, z.committedEnd)
<1> DEFINE z == Scan(log)
           e == z.committedEnd
           c == Slice(log, 0, e)
<1>1. /\ z \in ScanType /\ e \in 0 .. Len(log)
      /\ Scan(c) = AtCommit(z) /\ AtCommit(z) \in ScanType
  BY CommittedScan
<1>2. Repaired(log) = IF TornTail(log, e) THEN c ELSE log
  BY DEF Repaired
<1>3. CASE ~TornTail(log, e)
  <2> HIDE DEF z
  <2> QED
    BY <1>1, <1>2, <1>3 DEF z
<1>4. CASE TornTail(log, e)
  <2>1. e \in Nat /\ e <= Len(log)
    BY <1>1
  <2> HIDE DEF z
  <2>2. c \in Seq(Byte) /\ Len(c) = e
    BY <2>1, PrefixIs
  <2> HIDE DEF c
  <2>3. TornRules(TornEnd(c), c, e, e)
    <3>1. e \in 0 .. Len(c)
      BY <2>1, <2>2
    <3> QED
      BY <2>2, <3>1, TornUnfolds
  <2>4. ScanLayout(c, e, e) = e
    <3>1. ScanLayout(c, e, e) \in e .. e
      BY <2>1, ScanLayoutStops
    <3> QED
      BY <2>1, <3>1
  <2>5. TornEnd(c)[e] = "clean"
    BY <2>3, <2>4 DEF TornRules
  <2>6. ~TornTail(c, e)
    BY <2>2, <2>5, TornUnfolds
  <2>7. /\ Scan(c).blocks = z.blocks /\ Scan(c).damaged = z.damaged
        /\ Scan(c).committedEnd = e /\ Scan(c) \in ScanType
    BY <1>1 DEF AtCommit
  <2>8. Repaired(log) = c /\ e \in 0 .. Len(c)
    BY <1>2, <1>4, <2>1, <2>2
  <2> QED
    BY <2>2, <2>6, <2>7, <2>8 DEF z
<1> QED
  BY <1>3, <1>4

(* A batch appended to a log without a torn tail is one more block, and    *)
(* changes none before it.                                                 *)
LEMMA AppendsAfterRepair ==
  ASSUME NEW log \in Seq(Byte), ~TornTail(log, Scan(log).committedEnd),
         \A i \in Scan(log).committedEnd .. (Len(log) - 1) : At(log, i) # EM,
         NEW b \in Seq(Byte), BeginsWithCode(b), IsBatch(b)
  PROVE  /\ Rests(Scan(log)) /\ Scan(log).pos = Len(log) /\ Scan(log).blockStart <= Len(log)
         /\ \E i \in BlockStarts(b, Len(log), Scan(log)) :
              Scan(log \o b) = Committed(Scan(log), i, Len(log) + Len(b))
<1> DEFINE z == Scan(log)
           e == z.committedEnd
           t == AtCommit(z)
<1>1. /\ e \in 0 .. Len(log) /\ z = ScanEnd(log)[t] /\ t \in ScanType
  BY CommittedScan
<1>2. t = MovedTo(t, e, FALSE)
  BY DEF MovedTo, AtCommit
<1> HIDE DEF t
<1>3. ScanEnd(log)[MovedTo(t, e, FALSE)] = MovedTo(t, Len(log), FALSE)
  <2> HIDE DEF z
  <2> QED
    BY <1>1, TailRests DEF z
<1>4. z = MovedTo(t, Len(log), FALSE)
  BY <1>1, <1>2, <1>3
<1>5. /\ z.pos = Len(log) /\ z.inText = FALSE /\ z.depth = 0 /\ z.blockStart = e
  <2> HIDE DEF z
  <2> QED
    BY <1>4 DEF MovedTo, t, AtCommit
<1>6. Rests(z) /\ z.blockStart <= Len(log)
  <2> HIDE DEF z
  <2> QED
    BY <1>1, <1>5 DEF Rests
<1> QED
  BY <1>5, <1>6, BatchAppends
-----------------------------------------------------------------------------
(* The scanner is on its way to what Scan computes, and arrives there.     *)
Arrives == ScanEnd(buf)[scan] = Scan(buf)

LEMMA ArrivesKept == TypeOK /\ Arrives /\ [Next]_vars => Arrives'
<1> SUFFICES ASSUME TypeOK, Arrives, [Next]_vars PROVE Arrives'
  OBVIOUS
<1>1. buf \in Seq(Byte) /\ scan \in ScanType
  BY DEF TypeOK
<1>2. CASE ReadInText \/ ReadOutside
  <2>1. /\ scan.pos < Len(buf) /\ scan' = ScanStep(buf, scan) /\ buf' = buf
    BY <1>2 DEF ReadInText, ReadOutside, Reading, ScanStep
  <2>2. ScanEnd(buf)[scan] = ScanEnd(buf)[scan']
    BY <1>1, <2>1, ScanEndUnfolds
  <2> QED
    BY <2>1, <2>2 DEF Arrives
<1>3. CASE UNCHANGED <<buf, scan>>
  BY <1>3 DEF Arrives
<1> QED
  BY <1>2, <1>3 DEF Next, Finish, vars

(* When it is done it is what Scan computes. *)
HasScanned == phase = "done" => scan = Scan(buf)

LEMMA DoneHasScanned == Spec => [](HasScanned /\ TypeOK)
<1> DEFINE Inv == TypeOK /\ Arrives /\ (phase = "done" => ~(scan.pos < Len(buf)))
<1>1. Init => Arrives /\ (phase = "done" => ~(scan.pos < Len(buf)))
  <2> SUFFICES ASSUME Init PROVE Arrives /\ phase # "done"
    OBVIOUS
  <2>1. buf \in Seq(Byte)
    <3>1. PICK n \in 0 .. MaxLen : buf \in [1 .. n -> Alphabet]
      BY DEF Init, Buffers
    <3>2. n \in Nat
      BY <3>1, MaxLenAssumption
    <3> QED
      BY <3>1, <3>2, AlphabetAssumption
  <2>2. Scan(buf) = ScanEnd(buf)[NewScan]
    BY <2>1, ScanEndUnfolds
  <2> QED
    BY <2>2 DEF Init, Arrives
<1>2. TypeOK /\ TypeOK' /\ Inv /\ [Next]_vars => Inv'
  <2> SUFFICES ASSUME TypeOK, TypeOK', Inv, [Next]_vars PROVE Inv'
    OBVIOUS
  <2>1. Arrives'
    BY ArrivesKept
  <2>2. (phase = "done" => ~(scan.pos < Len(buf)))'
    BY DEF Next, ReadInText, ReadOutside, Reading, Finish, vars
  <2> QED
    BY <2>1, <2>2
<1>3. Inv => HasScanned
  <2> SUFFICES ASSUME Inv, phase = "done" PROVE scan = Scan(buf)
    BY DEF HasScanned
  <2>1. ScanEnd(buf)[scan] = scan
    BY ScanEndUnfolds DEF TypeOK
  <2> QED
    BY <2>1 DEF Arrives
<1>4. Spec => []TypeOK
  BY InvariantHolds, PTL DEF IInv
<1> QED
  BY <1>1, <1>2, <1>3, <1>4, PTL DEF Spec

(* What has been committed stays committed: whatever is appended to a log, *)
(* its blocks are the first ones of the longer log, damaged or not as they *)
(* were.  A reader that follows a log never has to take a block back.      *)
THEOREM CommitsStay == Spec => []PrefixStable
<1>1. HasScanned /\ TypeOK => PrefixStable
  <2> SUFFICES ASSUME HasScanned, TypeOK, Done, NEW k \in 0 .. Len(buf)
               PROVE  LET before == Scan(Slice(buf, 0, k)) IN
                      /\ IsPrefix(before.blocks, scan.blocks)
                      /\ before.damaged = scan.damaged \cap DOMAIN before.blocks
    BY DEF PrefixStable
  <2> DEFINE c == Slice(buf, 0, k)
             a == Scan(c)
  <2>1. buf \in Seq(Byte) /\ scan = Scan(buf)
    BY DEF TypeOK, HasScanned, Done
  <2>2. k \in Nat /\ k <= Len(buf)
    BY <2>1
  <2>3. c \in Seq(Byte)
    BY <2>1, <2>2, PrefixIs
  <2>4. Grows(ScanEnd(c)[NewScan], ScanEnd(buf)[NewScan])
    BY <2>1, <2>2, PrefixFinds, ScanEndUnfolds
  <2> HIDE DEF c
  <2>5. a = ScanEnd(c)[NewScan] /\ a \in ScanType
    BY <2>3, ScanEndUnfolds, ScanEndType
  <2>6. Sound(a)
    <3>1. Sound(NewScan)
      BY DEF Sound, NewScan
    <3> QED
      BY <2>3, <2>5, <3>1, EndGrows, ScanEndUnfolds
  <2>7. Grows(a, scan)
    BY <2>1, <2>4, <2>5, ScanEndUnfolds
  <2> HIDE DEF a
  <2>8. /\ a.blocks \in Seq(BlockType) /\ scan.blocks \in Seq(BlockType)
        /\ Len(a.blocks) \in Nat
    BY SMTT(60), <2>5 DEF TypeOK, ScanType
  <2>9. DOMAIN a.blocks = 1 .. Len(a.blocks)
    BY <2>8
  <2>10. a.damaged = scan.damaged \cap DOMAIN a.blocks
    BY <2>6, <2>7, <2>8, <2>9 DEF Grows, Sound
  <2>11. IsPrefix(a.blocks, scan.blocks)
    <3> DEFINE s == a.blocks
               t == scan.blocks
    <3>1. Len(s) <= Len(t) /\ \A i \in 1 .. Len(s) : t[i] = s[i]
      BY <2>7 DEF Grows
    <3>2. s \in Seq(BlockType) /\ t \in Seq(BlockType) /\ Len(s) \in Nat /\ Len(t) \in Nat
      BY <2>8
    <3> HIDE DEF s, t
    <3>3. SubSeq(s, 1, Len(s)) = SubSeq(t, 1, Len(s))
      BY <3>1, <3>2
    <3>4. IsPrefix(s, t)
      BY <3>1, <3>3 DEF IsPrefix
    <3> QED
      BY <3>4 DEF s, t
  <2> QED
    BY <2>10, <2>11 DEF a, c
<1> QED
  BY <1>1, DoneHasScanned, PTL

(* RepairStream loses no commit and leaves nothing to repair, whatever the *)
(* log is.                                                                 *)
THEOREM RepairLosesNothing == Spec => []RepairKeepsCommits
<1>1. HasScanned /\ TypeOK => RepairKeepsCommits
  <2> SUFFICES ASSUME HasScanned, TypeOK, Done PROVE RepairKeepsCommits
    BY DEF RepairKeepsCommits
  <2>1. buf \in Seq(Byte) /\ scan = Scan(buf)
    BY DEF TypeOK, HasScanned, Done
  <2> QED
    BY <2>1, RepairedIs DEF RepairKeepsCommits
<1> QED
  BY <1>1, DoneHasScanned, PTL
-----------------------------------------------------------------------------
(* Bytes that the scan passes, and an ETB behind them, are a batch. *)
LEMMA PassedIsBatch ==
  ASSUME NEW b \in Seq(Byte), NEW n \in Nat, Len(b) = n + 1, At(b, n) = ETB,
         ScanEnd(b)[NewScan] = ScanEnd(b)[MovedTo(NewScan, n, FALSE)]
  PROVE  IsBatch(b)
<1> DEFINE s == MovedTo(NewScan, n, FALSE)
           t == CommitBlock(b, s)
<1>1. NewScan \in ScanType /\ Scan(b) = ScanEnd(b)[NewScan]
  BY ScanEndUnfolds
<1>2. s \in ScanType /\ s.pos = n
  BY <1>1, MovedOutside
<1>3. /\ s.blocks = <<>> /\ s.damaged = {} /\ s.inText = FALSE /\ s.depth = 0
      /\ s.blockStart = 0
  BY DEF MovedTo, NewScan
<1> HIDE DEF s
<1>4. s.pos < Len(b)
  BY <1>2
<1>5. ScanEnd(b)[s] = ScanEnd(b)[t]
  <2>1. ScanStep(b, s) = t
    BY <1>2, StepCommits
  <2> QED
    BY <1>2, <1>4, <2>1, ScanEndUnfolds
<1>6. t \in ScanType /\ t.pos = PayloadEnd(b, n + 1)
      /\ t.blocks = Append(s.blocks, [start |-> s.blockStart, stop |-> s.pos])
  BY <1>2, <1>4, CommitIs, CommitAdds
<1>7. t.damaged = {}
  BY <1>3 DEF CommitBlock, ScanType
<1> HIDE DEF t
<1>8. t.pos = Len(b)
  BY <1>6, PayloadAtEnd
<1>9. ScanEnd(b)[t] = t
  BY <1>6, <1>8, ScanEndUnfolds
<1>10. t.blocks = <<[start |-> 0, stop |-> Len(b) - 1]>>
  BY <1>2, <1>3, <1>6
<1> QED
  BY <1>1, <1>5, <1>7, <1>9, <1>10 DEF s, IsBatch

(* The record and the record with an escaped ETB that a run appends. *)
LEMMA AppendicesAreBatches ==
  ASSUME NEW w \in Appendices
  PROVE  w \in Seq(Byte) /\ BeginsWithCode(w) /\ IsBatch(w) /\ Len(w) \in Nat \ {0}
<1> DEFINE codes == {STX, DLE, CAN, ETB, SYN}
<1>0. /\ RS = 30 /\ STX = 2 /\ DLE = 16 /\ ETB = 23 /\ ETX = 3 /\ CAN = 24 /\ SYN = 22
      /\ Byte = 0 .. 255
  BY DEF RS, STX, DLE, ETB, ETX, CAN, SYN, Byte
<1>c. RS \notin codes /\ 120 \notin codes
  BY <1>0
<1>s. NewScan \in ScanType /\ MovedTo(NewScan, 0, FALSE) = NewScan
  <2>1. NewScan \in ScanType
    BY DEF NewScan, ScanType
  <2> QED
    BY <2>1 DEF MovedTo, NewScan
<1>p. ~IsPlainByte(RS) /\ ~IsLayout(RS)
  BY <1>0 DEF IsPlainByte, IsLayout, Layout, SP, HT, LF, CR
<1> HIDE DEF codes
<1>1. CASE w = <<RS, 120, ETB>>
  <2>1. /\ w \in Seq(Byte) /\ Len(w) = 3 /\ At(w, 0) = RS /\ At(w, 1) = 120 /\ At(w, 2) = ETB
    BY <1>0, <1>1 DEF At
  <2>2. \A i \in 0 .. (2 - 1) : At(w, i) \notin codes
    <3> TAKE i \in 0 .. (2 - 1)
    <3>1. i = 0 \/ i = 1
      OBVIOUS
    <3> QED
      BY <1>c, <2>1, <3>1
  <2>3. ScanEnd(w)[MovedTo(NewScan, 0, FALSE)] = ScanEnd(w)[MovedTo(NewScan, 2, FALSE)]
    <3>1. 0 \in Nat /\ 2 \in Nat /\ 0 <= 2 /\ 2 <= Len(w) /\ w \in Seq(Byte)
      BY <2>1
    <3>2. \A i \in 0 .. (2 - 1) : At(w, i) \notin {STX, DLE, CAN, ETB, SYN}
      BY <2>2 DEF codes
    <3> QED
      BY <1>s, <3>1, <3>2, ScanPasses, Zenon
  <2>4. IsBatch(w)
    <3>1. 2 \in Nat /\ Len(w) = 2 + 1
      BY <2>1
    <3> QED
      BY <1>s, <2>1, <2>3, <3>1, PassedIsBatch, ZenonT(60)
  <2> QED
    BY <1>p, <2>1, <2>4 DEF BeginsWithCode
<1>2. CASE w = <<RS, STX, DLE, ETB, ETX, ETB>>
  <2>1. /\ w \in Seq(Byte) /\ Len(w) = 6 /\ At(w, 0) = RS /\ At(w, 1) = STX /\ At(w, 2) = DLE
        /\ At(w, 3) = ETB /\ At(w, 4) = ETX /\ At(w, 5) = ETB
    BY <1>0, <1>2 DEF At
  <2>2. \A i \in 0 .. (1 - 1) : At(w, i) \notin codes
    <3> TAKE i \in 0 .. (1 - 1)
    <3>1. i = 0
      OBVIOUS
    <3> QED
      BY <1>c, <2>1, <3>1
  <2>3. ScanEnd(w)[MovedTo(NewScan, 0, FALSE)] = ScanEnd(w)[MovedTo(NewScan, 1, FALSE)]
    <3>1. 0 \in Nat /\ 1 \in Nat /\ 0 <= 1 /\ 1 <= Len(w)
      BY <2>1
    <3> QED
      BY <1>s, <2>1, <2>2, <3>1, ScanPasses, Zenon DEF codes
  <2>4. ScanText(w, 1, 6) = 5
    <3>1. PICK f \in [2 .. 7 -> Int] :
            /\ \A p \in 2 .. 7 : TextRules(f, w, p, 6)
            /\ ScanText(w, 1, 6) = f[2]
      <4>1. 1 \in Nat /\ 6 \in Nat /\ 1 <= 6 /\ 1 + 1 = 2 /\ 6 + 1 = 7
        OBVIOUS
      <4>2. \E f \in [(1 + 1) .. (6 + 1) -> Int] :
              /\ \A p \in (1 + 1) .. (6 + 1) :
                   /\ TextRules(f, w, p, 6)
                   /\ f[p] \in {Malformed} \cup (p + 1) .. 6
              /\ ScanText(w, 1, 6) = f[1 + 1]
        BY <4>1, ScanTextUnfolds, Zenon
      <4>3. PICK f \in [2 .. 7 -> Int] :
              /\ \A p \in 2 .. 7 :
                   /\ TextRules(f, w, p, 6)
                   /\ f[p] \in {Malformed} \cup (p + 1) .. 6
              /\ ScanText(w, 1, 6) = f[2]
        BY <4>1, <4>2
      <4> QED
        BY <4>3, Zenon
    <3>2. f[2] = f[4]
      <4>1. TextRules(f, w, 2, 6)
        BY <3>1
      <4>2. ETB \in TextEscaped
        BY DEF TextEscaped, Framing
      <4> QED
        BY <2>1, <4>1, <4>2 DEF TextRules
    <3>3. f[4] = 5
      <4>1. TextRules(f, w, 4, 6)
        BY <3>1
      <4> QED
        BY <2>1, <4>1 DEF TextRules
    <3> QED
      BY <3>1, <3>2, <3>3
  <2>5. ScanEnd(w)[MovedTo(NewScan, 1, FALSE)] = ScanEnd(w)[MovedTo(NewScan, 5, FALSE)]
    <3>1. 1 \in Nat /\ 1 < Len(w) /\ ScanText(w, 1, Len(w)) = 5
      BY <2>1, <2>4
    <3>2. ScanText(w, 1, Len(w)) # Malformed
      BY <3>1 DEF Malformed
    <3>3. ScanEnd(w)[MovedTo(NewScan, 1, FALSE)]
            = ScanEnd(w)[MovedTo(NewScan, ScanText(w, 1, Len(w)), FALSE)]
      BY <1>s, <2>1, <3>1, <3>2, TextPasses, Zenon
    <3> QED
      BY <3>1, <3>3
  <2>6. IsBatch(w)
    <3>1. 5 \in Nat /\ Len(w) = 5 + 1
      BY <2>1
    <3>2. ScanEnd(w)[NewScan] = ScanEnd(w)[MovedTo(NewScan, 5, FALSE)]
      BY <1>s, <2>3, <2>5
    <3> QED
      BY <2>1, <3>1, <3>2, PassedIsBatch, Zenon
  <2> QED
    BY <1>p, <2>1, <2>6 DEF BeginsWithCode
<1> QED
  BY <1>1, <1>2 DEF Appendices

(* A block appended to a repaired log is read back whole, undamaged, and   *)
(* takes nothing from the blocks before it.                                *)
THEOREM AppendsReadBack == Spec => []AppendAfterRepair
<1>1. HasScanned /\ TypeOK => AppendAfterRepair
  <2> SUFFICES ASSUME HasScanned, TypeOK, Done PROVE AppendAfterRepair
    BY DEF AppendAfterRepair
  <2> DEFINE log == Repaired(buf)
             z == Scan(log)
             n == Len(scan.blocks)
  <2>1. buf \in Seq(Byte) /\ scan = Scan(buf)
    BY DEF TypeOK, HasScanned, Done
  <2>2. /\ log \in Seq(Byte) /\ scan.committedEnd \in 0 .. Len(log)
        /\ z \in ScanType
        /\ z.blocks = scan.blocks /\ z.damaged = scan.damaged
        /\ z.committedEnd = scan.committedEnd /\ ~TornTail(log, scan.committedEnd)
    BY <2>1, RepairedIs
  <2> HIDE DEF log
  <2> SUFFICES ASSUME ~Holds(Slice(log, scan.committedEnd, Len(log)), {EM}),
                      NEW w \in Appendices
               PROVE  LET now == Scan(log \o w) IN
                      /\ Len(now.blocks) = n + 1
                      /\ SubSeq(now.blocks, 1, n) = scan.blocks
                      /\ now.damaged = scan.damaged
                      /\ now.blocks[n + 1].stop = Len(log) + Len(w) - 1
                      /\ now.blocks[n + 1].start <= Len(log)
    BY DEF AppendAfterRepair, log
  <2>3. \A i \in z.committedEnd .. (Len(log) - 1) : At(log, i) # EM
    <3> DEFINE e == scan.committedEnd
               tail == Slice(log, e, Len(log))
    <3>1. e \in Nat /\ e <= Len(log) /\ Len(log) \in Nat
      BY <2>2
    <3>2. /\ Len(tail) = Len(log) - e /\ tail \in Seq(Byte)
          /\ \A p \in 0 .. (Len(log) - e - 1) : At(tail, p) = At(log, e + p)
      <4> HIDE DEF e
      <4>1. Len(log) <= Len(log)
        BY <3>1
      <4> QED
        BY <2>2, <3>1, <4>1, SliceIs
    <3> HIDE DEF tail
    <3>3. ASSUME NEW i \in e .. (Len(log) - 1) PROVE At(log, i) # EM
      <4>1. i - e \in 0 .. (Len(log) - e - 1) /\ e + (i - e) = i /\ (i - e) + 1 \in DOMAIN tail
        BY <3>1, <3>2
      <4>2. At(tail, i - e) = At(log, i)
        BY <3>2, <4>1
      <4>3. tail[(i - e) + 1] # EM
        BY <4>1 DEF Holds, tail
      <4> QED
        BY <4>2, <4>3 DEF At
    <3> QED
      BY <2>2, <3>3
  <2>4. w \in Seq(Byte) /\ BeginsWithCode(w) /\ IsBatch(w) /\ Len(w) \in Nat \ {0}
    BY AppendicesAreBatches
  <2>5. /\ Rests(z) /\ z.pos = Len(log) /\ z.blockStart <= Len(log)
        /\ \E i \in BlockStarts(w, Len(log), z) :
             Scan(log \o w) = Committed(z, i, Len(log) + Len(w))
    BY <2>2, <2>3, <2>4, AppendsAfterRepair
  <2>6. PICK i \in BlockStarts(w, Len(log), z) :
          Scan(log \o w) = Committed(z, i, Len(log) + Len(w))
    BY <2>5
  <2> DEFINE now == Scan(log \o w)
             block == [start |-> i, stop |-> Len(log) + Len(w) - 1]
  <2>7. /\ now.blocks = Append(z.blocks, block) /\ now.damaged = z.damaged
    BY <2>6 DEF Committed
  <2>8. i <= Len(log) /\ i \in Nat /\ block \in BlockType
    <3>1. i \in Nat /\ (i = z.blockStart \/ i = Len(log))
      BY <2>6 DEF BlockStarts
    <3>2. Len(log) \in Nat /\ Len(log) + Len(w) - 1 \in Nat
      BY <2>2, <2>4
    <3> QED
      BY <2>5, <3>1, <3>2 DEF BlockType
  <2>9. z.blocks \in Seq(BlockType)
    BY <2>2 DEF ScanType
  <2> HIDE DEF z, now, block
  <2>10. /\ Len(now.blocks) = n + 1 /\ SubSeq(now.blocks, 1, n) = scan.blocks
         /\ now.blocks[n + 1] = block
    BY <2>2, <2>7, <2>8, <2>9
  <2> QED
    BY <2>2, <2>7, <2>8, <2>10 DEF now, block
<1> QED
  BY <1>1, DoneHasScanned, PTL
-----------------------------------------------------------------------------
(***************************************************************************)
(* The verdict on a block: EndsOpen, which reads a block by itself,        *)
(* against the depth and the open text that the scanner carries along.     *)
(***************************************************************************)
OpenFrom(open, c, x) ==
  LET p == x[1]
      depth == x[2]
  IN  CASE p = Len(c) -> depth > 0
        [] p < Len(c) /\ At(c, p) = STX ->
             Closers(c, p) = {} \/ open[<<Min(Closers(c, p)) + 1, depth>>]
        [] p < Len(c) /\ At(c, p) = DLE -> open[<<p + 1, depth + 1>>]
        [] p < Len(c) /\ At(c, p) = CAN -> open[<<p + 1, IF depth = 0 THEN 0 ELSE depth - 1>>]
        [] OTHER -> open[<<p + 1, depth>>]

OpenPoints(c) == (0 .. Len(c)) \X Nat

OpenOf(c) == CHOOSE open : open = [x \in OpenPoints(c) |-> OpenFrom(open, c, x)]

OpenAt(c, p, depth) == OpenOf(c)[<<p, depth>>]

(* The points whose value OpenFrom looks at lie behind. *)
LEMMA OpenLooks ==
  ASSUME NEW c \in Seq(Byte), NEW p \in 0 .. Len(c), NEW d \in Nat
  PROVE  /\ p < Len(c) => p + 1 \in 0 .. Len(c)
         /\ Closers(c, p) # {} => /\ Min(Closers(c, p)) \in Closers(c, p)
                                  /\ \A q \in Closers(c, p) : Min(Closers(c, p)) <= q
                                  /\ Min(Closers(c, p)) + 1 \in (p + 2) .. Len(c)
         /\ d + 1 \in Nat /\ (IF d = 0 THEN 0 ELSE d - 1) \in Nat
<1> DEFINE T == Closers(c, p)
<1>1. T \subseteq Nat /\ \A q \in T : q \in (p + 1) .. (Len(c) - 1)
  BY DEF Closers
<1>2. T # {} => Min(T) \in T /\ \A q \in T : Min(T) <= q
  <2> HIDE DEF T
  <2> QED
    BY <1>1, MinNat
<1>3. T # {} => Min(T) + 1 \in (p + 2) .. Len(c)
  <2>1. \A q \in (p + 1) .. (Len(c) - 1) : q + 1 \in (p + 2) .. Len(c)
    OBVIOUS
  <2>2. T # {} => Min(T) \in (p + 1) .. (Len(c) - 1)
    BY <1>1, <1>2, Zenon
  <2> HIDE DEF T
  <2> QED
    BY <2>1, <2>2
<1> QED
  BY <1>2, <1>3

LEMMA OpenTurn ==
  ASSUME NEW c \in Seq(Byte), NEW p \in 0 .. Len(c), NEW d \in Nat, NEW f, NEW g,
         \A q \in (p + 1) .. Len(c), e \in Nat : f[<<q, e>>] = g[<<q, e>>]
  PROVE  OpenFrom(f, c, <<p, d>>) = OpenFrom(g, c, <<p, d>>)
<1>1. p < Len(c) => p + 1 \in (p + 1) .. Len(c)
  OBVIOUS
<1>2. Closers(c, p) # {} => Min(Closers(c, p)) + 1 \in (p + 1) .. Len(c)
  BY OpenLooks
<1>3. p = Len(c) \/ p < Len(c)
  OBVIOUS
<1>4. d + 1 \in Nat /\ (IF d = 0 THEN 0 ELSE d - 1) \in Nat
  OBVIOUS
<1>5. p < Len(c) => f[<<p + 1, d>>] = g[<<p + 1, d>>] /\ f[<<p + 1, d + 1>>] = g[<<p + 1, d + 1>>]
         /\ f[<<p + 1, IF d = 0 THEN 0 ELSE d - 1>>] = g[<<p + 1, IF d = 0 THEN 0 ELSE d - 1>>]
  BY <1>1, <1>4, Zenon
<1>6. Closers(c, p) # {} => f[<<Min(Closers(c, p)) + 1, d>>] = g[<<Min(Closers(c, p)) + 1, d>>]
  BY <1>2
<1> QED
  BY <1>3, <1>5, <1>6 DEF OpenFrom

LEMMA OpenUnfolds ==
  ASSUME NEW c \in Seq(Byte)
  PROVE  /\ EndsOpen(c) = OpenAt(c, 0, 0)
         /\ \A p \in 0 .. Len(c), d \in Nat : OpenAt(c, p, d) = OpenFrom(OpenOf(c), c, <<p, d>>)
<1> DEFINE n == Len(c)
           D == OpenPoints(c)
           F == [D -> BOOLEAN]
           G == [f \in F |-> [x \in D |-> OpenFrom(f, c, x)]]
           m == [x \in D |-> n - x[1]]
<1>1. \A x \in D : x[1] \in 0 .. n /\ x[2] \in Nat /\ x = <<x[1], x[2]>>
  BY DEF OpenPoints
<1>2. m \in [D -> 0 .. n] /\ n \in Nat
  BY <1>1
<1>3. ASSUME NEW f \in F, NEW x \in D PROVE OpenFrom(f, c, x) \in BOOLEAN
  <2> DEFINE p == x[1]
             d == x[2]
  <2>1. p \in 0 .. n /\ d \in Nat /\ (p = n \/ p < n)
    BY <1>1
  <2>2. \A q \in 0 .. n, e \in Nat : f[<<q, e>>] \in BOOLEAN
    BY DEF OpenPoints
  <2>3. p < n => p + 1 \in 0 .. n
    BY <2>1
  <2>4. Closers(c, p) # {} => Min(Closers(c, p)) + 1 \in 0 .. n
    <3>1. Closers(c, p) # {} => Min(Closers(c, p)) + 1 \in (p + 2) .. n
      BY <2>1, OpenLooks
    <3> HIDE DEF p
    <3> QED
      BY <2>1, <3>1
  <2>5. d + 1 \in Nat /\ (IF d = 0 THEN 0 ELSE d - 1) \in Nat
    BY <2>1
  <2>6. p < n => /\ f[<<p + 1, d>>] \in BOOLEAN /\ f[<<p + 1, d + 1>>] \in BOOLEAN
                 /\ f[<<p + 1, IF d = 0 THEN 0 ELSE d - 1>>] \in BOOLEAN
    BY <2>1, <2>2, <2>3, <2>5, Zenon
  <2>7. Closers(c, p) # {} => f[<<Min(Closers(c, p)) + 1, d>>] \in BOOLEAN
    BY <2>1, <2>2, <2>4
  <2>8. x[1] = p /\ x[2] = d
    OBVIOUS
  <2> HIDE DEF p, d, F
  <2>9. p = n => OpenFrom(f, c, x) \in BOOLEAN
    <3>1. p = n => OpenFrom(f, c, x) = (d > 0)
      BY <2>8 DEF OpenFrom
    <3>2. (d > 0) \in BOOLEAN
      OBVIOUS
    <3> QED
      BY <3>1, <3>2
  <2>10. CASE p < n
    <3>1. p # n
      BY <2>1, <2>10
    <3>2. CASE At(c, p) = STX
      BY <3>1, <3>2, <2>7, <2>8, <2>10 DEF OpenFrom, STX, DLE, CAN
    <3>3. CASE At(c, p) = DLE
      BY <3>1, <3>3, <2>6, <2>8, <2>10 DEF OpenFrom, STX, DLE, CAN
    <3>4. CASE At(c, p) = CAN
      BY <3>1, <3>4, <2>6, <2>8, <2>10 DEF OpenFrom, STX, DLE, CAN
    <3>5. CASE At(c, p) \notin {STX, DLE, CAN}
      BY <3>1, <3>5, <2>6, <2>8, <2>10 DEF OpenFrom
    <3> QED
      BY <3>2, <3>3, <3>4, <3>5
  <2> QED
    BY <2>1, <2>9, <2>10
<1>4. G \in [F -> F]
  <2> HIDE DEF D
  <2> QED
    BY <1>3
<1>5. ASSUME NEW f \in F, NEW g \in F, NEW x \in D,
             \A y \in D : m[y] < m[x] => f[y] = g[y]
      PROVE  G[f][x] = G[g][x]
  <2>1. x[1] \in 0 .. n /\ x[2] \in Nat /\ x = <<x[1], x[2]>>
    BY <1>1
  <2>2. ASSUME NEW q \in (x[1] + 1) .. n, NEW e \in Nat PROVE f[<<q, e>>] = g[<<q, e>>]
    <3>1. <<q, e>> \in D /\ <<q, e>>[1] = q
      BY <2>1 DEF OpenPoints
    <3>2. m[<<q, e>>] < m[x]
      BY <2>1, <3>1
    <3> QED
      BY <1>5, <3>1, <3>2
  <2> DEFINE p == x[1]
             d == x[2]
  <2>p. p \in 0 .. Len(c) /\ d \in Nat /\ \A q \in (p + 1) .. Len(c), e \in Nat : f[<<q, e>>] = g[<<q, e>>]
    BY <2>1, <2>2
  <2> HIDE DEF p, d
  <2>t. OpenFrom(f, c, <<p, d>>) = OpenFrom(g, c, <<p, d>>)
    BY <2>p, OpenTurn
  <2>3. OpenFrom(f, c, <<x[1], x[2]>>) = OpenFrom(g, c, <<x[1], x[2]>>)
    BY <2>t DEF p, d
  <2> HIDE DEF D, F
  <2> QED
    BY <2>1, <2>3
<1>6. \E f \in F : f = G[f]
  <2>1. [x \in D |-> TRUE] \in F
    OBVIOUS
  <2>2. F # {} /\ \A f \in F : f = [x \in D |-> f[x]]
    BY <2>1
  <2>3. Contracts(D, F, m, G)
    BY <1>5 DEF Contracts
  <2> HIDE DEF F, D, m, G, n
  <2> QED
    BY <1>2, <1>4, <2>2, <2>3, Fixpoint
<1>7. OpenOf(c) = [x \in D |-> OpenFrom(OpenOf(c), c, x)]
  <2>1. \E f : f = [x \in D |-> OpenFrom(f, c, x)]
    BY <1>6
  <2> QED
    BY <2>1 DEF OpenOf
<1>8. EndsOpen(c) = OpenAt(c, 0, 0)
  BY DEF EndsOpen, OpenAt, OpenOf, OpenFrom, OpenPoints
<1>9. \A p \in 0 .. n, d \in Nat : <<p, d>> \in D
  BY DEF OpenPoints
<1> HIDE DEF D
<1> QED
  BY <1>7, <1>8, <1>9 DEF OpenAt

LEMMA OpenRules ==
  ASSUME NEW c \in Seq(Byte), NEW d \in Nat
  PROVE  /\ OpenAt(c, Len(c), d) <=> d > 0
         /\ \A p \in 0 .. (Len(c) - 1) :
              LET b == At(c, p) IN
              /\ b = STX /\ Closers(c, p) = {} => OpenAt(c, p, d)
              /\ b = STX /\ Closers(c, p) # {} =>
                   (OpenAt(c, p, d) <=> OpenAt(c, Min(Closers(c, p)) + 1, d))
              /\ b = DLE => (OpenAt(c, p, d) <=> OpenAt(c, p + 1, d + 1))
              /\ b = CAN => (OpenAt(c, p, d) <=> OpenAt(c, p + 1, IF d = 0 THEN 0 ELSE d - 1))
              /\ b \notin {STX, DLE, CAN} => (OpenAt(c, p, d) <=> OpenAt(c, p + 1, d))
<1>1. Len(c) \in 0 .. Len(c) /\ \A p \in 0 .. (Len(c) - 1) : p \in 0 .. Len(c) /\ p < Len(c) /\ p # Len(c)
  OBVIOUS
<1>2. \A p \in 0 .. Len(c) : OpenAt(c, p, d) = OpenFrom(OpenOf(c), c, <<p, d>>)
  BY OpenUnfolds
<1>3. OpenAt(c, Len(c), d) <=> d > 0
  <2>1. OpenFrom(OpenOf(c), c, <<Len(c), d>>) = (d > 0)
    BY DEF OpenFrom
  <2> QED
    BY <1>1, <1>2, <2>1
<1>4. ASSUME NEW p \in 0 .. (Len(c) - 1)
      PROVE  LET b == At(c, p) IN
              /\ b = STX /\ Closers(c, p) = {} => OpenAt(c, p, d)
              /\ b = STX /\ Closers(c, p) # {} =>
                   (OpenAt(c, p, d) <=> OpenAt(c, Min(Closers(c, p)) + 1, d))
              /\ b = DLE => (OpenAt(c, p, d) <=> OpenAt(c, p + 1, d + 1))
              /\ b = CAN => (OpenAt(c, p, d) <=> OpenAt(c, p + 1, IF d = 0 THEN 0 ELSE d - 1))
              /\ b \notin {STX, DLE, CAN} => (OpenAt(c, p, d) <=> OpenAt(c, p + 1, d))
  <2>1. OpenAt(c, p, d) = OpenFrom(OpenOf(c), c, <<p, d>>) /\ p # Len(c) /\ p < Len(c)
    BY <1>1, <1>2
  <2>2. STX # DLE /\ STX # CAN /\ DLE # CAN
    BY DEF STX, DLE, CAN
  <2> QED
    BY <2>1, <2>2 DEF OpenFrom, OpenAt
<1> QED
  BY <1>3, <1>4

(***************************************************************************)
(* The scanner p bytes into a block c: outside text the rest of c decides, *)
(* from here and at this depth; in text the rest from the STX on, which is *)
(* not closed yet.                                                         *)
(***************************************************************************)
InBlock(c, p, inText, depth) ==
  /\ ~inText => (EndsOpen(c) <=> OpenAt(c, p, depth))
  /\ inText => /\ EvenRun(c, p)
               /\ \E t \in 0 .. (p - 1) : /\ At(c, t) = STX
                                          /\ \A q \in Closers(c, t) : q >= p
                                          /\ EndsOpen(c) <=> OpenAt(c, t, depth)

LEMMA InBlockOutside ==
  ASSUME NEW c \in Seq(Byte), NEW p \in 0 .. (Len(c) - 1), NEW d \in Nat, InBlock(c, p, FALSE, d)
  PROVE  LET b == At(c, p) IN
         /\ b = STX => InBlock(c, p + 1, TRUE, d)
         /\ b = DLE => InBlock(c, p + 1, FALSE, d + 1)
         /\ b = CAN => InBlock(c, p + 1, FALSE, IF d > 0 THEN d - 1 ELSE d)
         /\ b \notin {STX, DLE, CAN} => InBlock(c, p + 1, FALSE, d)
<1> DEFINE b == At(c, p)
<1>1. EndsOpen(c) <=> OpenAt(c, p, d)
  BY DEF InBlock
<1>2. ASSUME b = STX PROVE InBlock(c, p + 1, TRUE, d)
  <2>1. EvenRun(c, p + 1)
    BY <1>2, EvenRunAfterOther DEF STX, DLE
  <2>2. p \in 0 .. ((p + 1) - 1) /\ \A q \in Closers(c, p) : q >= p + 1
    BY DEF Closers
  <2> QED
    BY <1>1, <1>2, <2>1, <2>2 DEF InBlock
<1>3. (IF d > 0 THEN d - 1 ELSE d) = (IF d = 0 THEN 0 ELSE d - 1)
  OBVIOUS
<1>4. /\ b = DLE => (OpenAt(c, p, d) <=> OpenAt(c, p + 1, d + 1))
      /\ b = CAN => (OpenAt(c, p, d) <=> OpenAt(c, p + 1, IF d = 0 THEN 0 ELSE d - 1))
      /\ b \notin {STX, DLE, CAN} => (OpenAt(c, p, d) <=> OpenAt(c, p + 1, d))
  BY OpenRules
<1> QED
  BY <1>1, <1>2, <1>3, <1>4 DEF InBlock

LEMMA InBlockText ==
  ASSUME NEW c \in Seq(Byte), NEW p \in 0 .. (Len(c) - 1), NEW d \in Nat, InBlock(c, p, TRUE, d)
  PROVE  LET b == At(c, p) IN
         /\ b = DLE => InBlock(c, p + 2, TRUE, d)
         /\ b = ETX => InBlock(c, p + 1, FALSE, d)
         /\ b \notin {DLE, ETX} => InBlock(c, p + 1, TRUE, d)
<1> DEFINE b == At(c, p)
<1>0. p \in Nat /\ EvenRun(c, p)
  BY DEF InBlock
<1>1. PICK t \in 0 .. (p - 1) : /\ At(c, t) = STX
                                /\ \A q \in Closers(c, t) : q >= p
                                /\ EndsOpen(c) <=> OpenAt(c, t, d)
  BY DEF InBlock
<1>2. \A q \in Closers(c, t) : q \in Nat /\ At(c, q) = ETX /\ EvenRun(c, q)
  BY DEF Closers
<1>3. ASSUME b = DLE PROVE InBlock(c, p + 2, TRUE, d)
  <2>1. ~EvenRun(c, p + 1)
    BY <1>0, <1>3, OddRunAfterDLE
  <2>2. EvenRun(c, p + 2)
    <3>1. CASE At(c, p + 1) = DLE
      BY <1>0, <1>3, <3>1, EvenRunAfterPair
    <3>2. CASE At(c, p + 1) # DLE
      <4>1. p + 1 \in Nat /\ (p + 1) + 1 = p + 2
        BY <1>0
      <4>2. EvenRun(c, (p + 1) + 1)
        BY <4>1, <3>2, EvenRunAfterOther
      <4> QED
        BY <4>1, <4>2
    <3> QED
      BY <3>1, <3>2
  <2>3. \A q \in Closers(c, t) : q >= p + 2
    <3> TAKE q \in Closers(c, t)
    <3>1. q # p + 1 /\ q # p
      BY <1>2, <1>3, <2>1 DEF DLE, ETX
    <3> QED
      BY <1>0, <1>1, <1>2, <3>1
  <2>4. t \in 0 .. ((p + 2) - 1)
    BY <1>1
  <2> QED
    BY <1>1, <2>2, <2>3, <2>4 DEF InBlock
<1>4. ASSUME b = ETX PROVE InBlock(c, p + 1, FALSE, d)
  <2>1. p \in Closers(c, t)
    BY <1>0, <1>4 DEF Closers
  <2>2. Min(Closers(c, t)) = p
    <3>1. t \in 0 .. Len(c)
      BY <1>1
    <3>2. Min(Closers(c, t)) \in Closers(c, t) /\ Min(Closers(c, t)) <= p
      BY <2>1, <3>1, OpenLooks
    <3>3. Min(Closers(c, t)) >= p /\ Min(Closers(c, t)) \in Nat
      BY <1>1, <1>2, <3>2
    <3> QED
      BY <1>0, <3>2, <3>3
  <2>3. OpenAt(c, t, d) <=> OpenAt(c, p + 1, d)
    <3>1. t \in 0 .. (Len(c) - 1) /\ Closers(c, t) # {}
      BY <1>1, <2>1
    <3>2. OpenAt(c, t, d) <=> OpenAt(c, Min(Closers(c, t)) + 1, d)
      BY <1>1, <3>1, OpenRules
    <3> QED
      BY <2>2, <3>2
  <2> QED
    BY <1>1, <2>3 DEF InBlock
<1>5. ASSUME b \notin {DLE, ETX} PROVE InBlock(c, p + 1, TRUE, d)
  <2>1. EvenRun(c, p + 1)
    BY <1>0, <1>5, EvenRunAfterOther
  <2>2. \A q \in Closers(c, t) : q >= p + 1
    <3> TAKE q \in Closers(c, t)
    <3>1. q # p
      BY <1>2, <1>5
    <3> QED
      BY <1>0, <1>1, <1>2, <3>1
  <2>3. t \in 0 .. ((p + 1) - 1)
    BY <1>1
  <2> QED
    BY <1>1, <2>1, <2>2, <2>3 DEF InBlock
<1> QED
  BY <1>3, <1>4, <1>5

LEMMA InBlockEnds ==
  ASSUME NEW c \in Seq(Byte), NEW x \in BOOLEAN, NEW d \in Nat
  PROVE  /\ InBlock(c, 0, FALSE, 0)
         /\ InBlock(c, Len(c), x, d) => (EndsOpen(c) <=> x \/ d > 0)
<1>1. InBlock(c, 0, FALSE, 0)
  BY OpenUnfolds DEF InBlock
<1>2. ASSUME InBlock(c, Len(c), x, d) PROVE EndsOpen(c) <=> x \/ d > 0
  <2>1. CASE ~x
    BY <1>2, <2>1, OpenRules DEF InBlock
  <2>2. CASE x
    <3>1. PICK t \in 0 .. (Len(c) - 1) : /\ At(c, t) = STX
                                         /\ \A q \in Closers(c, t) : q >= Len(c)
                                         /\ EndsOpen(c) <=> OpenAt(c, t, d)
      BY <1>2, <2>2 DEF InBlock
    <3>2. Closers(c, t) = {}
      BY <3>1 DEF Closers
    <3>3. OpenAt(c, t, d)
      BY <3>1, <3>2, OpenRules
    <3> QED
      BY <2>2, <3>1, <3>3
  <2> QED
    BY <2>1, <2>2
<1> QED
  BY <1>1, <1>2

(***************************************************************************)
(* The invariant: whatever byte of the log the block being read will end   *)
(* at, if no framing cuts it the scanner is in it as InBlock says; and the *)
(* verdict on each block so far is EndsOpen's.                             *)
(***************************************************************************)
Cut(c) == Holds(SubSeq(c, 2, Len(c)), {EOT, EM, SYN})

Follows(log, s) ==
  /\ s.blockStart <= s.pos
  /\ \A j \in s.pos .. Len(log) :
       LET c == Slice(log, s.blockStart, j) IN
       Cut(c) \/ InBlock(c, s.pos - s.blockStart, s.inText, s.depth)

Judged(log, s) ==
  /\ s.damaged \subseteq DOMAIN s.blocks
  /\ \A i \in DOMAIN s.blocks :
       LET c == BlockBytes(log, s.blocks[i]) IN
       Cut(c) \/ (i \in s.damaged <=> EndsOpen(c))

(* A step that goes on in the block it is in. *)
LEMMA GoesOn ==
  ASSUME NEW log \in Seq(Byte), NEW s \in ScanType, s.pos < Len(log), Follows(log, s),
         NEW n \in {1, 2}, NEW x \in BOOLEAN, NEW d \in Nat,
         \A c \in Seq(Byte), p \in Nat :
           p < Len(c) /\ p + n <= Len(c) /\ At(c, p) = At(log, s.pos)
             /\ InBlock(c, p, s.inText, s.depth) =>
               Cut(c) \/ InBlock(c, p + n, x, d)
  PROVE  Follows(log, Passed(s, n, s.blockStart, x, d))
<1> DEFINE t == Passed(s, n, s.blockStart, x, d)
           p == s.pos - s.blockStart
<1>1. /\ s.pos \in Nat /\ s.blockStart \in Nat /\ s.blockStart <= s.pos /\ Len(log) \in Nat
      /\ p \in Nat
  BY DEF ScanType, Follows
<1>2. t.pos = s.pos + n /\ t.blockStart = s.blockStart /\ t.inText = x /\ t.depth = d
  BY DEF Passed
<1>3. ASSUME NEW j \in (s.pos + n) .. Len(log)
      PROVE  Cut(Slice(log, s.blockStart, j)) \/ InBlock(Slice(log, s.blockStart, j), p + n, x, d)
  <2> DEFINE c == Slice(log, s.blockStart, j)
  <2>1. j \in Nat /\ s.blockStart <= j /\ j <= Len(log) /\ j \in s.pos .. Len(log)
        /\ p < j - s.blockStart /\ p + n <= j - s.blockStart
        /\ p \in 0 .. (j - s.blockStart - 1) /\ s.blockStart + p = s.pos
    BY SMTT(60), <1>1, <1>3
  <2>2. c \in Seq(Byte) /\ Len(c) = j - s.blockStart
        /\ \A q \in 0 .. (j - s.blockStart - 1) : At(c, q) = At(log, s.blockStart + q)
    BY <1>1, <2>1, SliceIs
  <2>3. At(c, p) = At(log, s.pos)
    BY <2>1, <2>2
  <2>4. Cut(c) \/ InBlock(c, p, s.inText, s.depth)
    BY <2>1 DEF Follows
  <2> HIDE DEF c, p
  <2>5. p < Len(c) /\ p + n <= Len(c)
    BY <2>1, <2>2
  <2> QED
    BY <1>1, <2>2, <2>3, <2>4, <2>5 DEF c
<1>4. t.pos - t.blockStart = p + n /\ t.blockStart <= t.pos
  BY <1>1, <1>2
<1> HIDE DEF t, p
<1> QED
  BY <1>2, <1>3, <1>4 DEF Follows, t

(* A SYN at the scanner: a block begins there, and nothing of it is open. *)
LEMMA Restarts ==
  ASSUME NEW log \in Seq(Byte), NEW s \in ScanType, s.pos < Len(log), At(log, s.pos) = SYN
  PROVE  Follows(log, Passed(s, 1, s.pos, FALSE, 0))
<1> DEFINE t == Passed(s, 1, s.pos, FALSE, 0)
<1>1. s.pos \in Nat /\ Len(log) \in Nat
  BY DEF ScanType
<1>2. t.pos = s.pos + 1 /\ t.blockStart = s.pos /\ t.inText = FALSE /\ t.depth = 0
  BY DEF Passed
<1>3. ASSUME NEW j \in (s.pos + 1) .. Len(log)
      PROVE  InBlock(Slice(log, s.pos, j), 1, FALSE, 0)
  <2> DEFINE c == Slice(log, s.pos, j)
  <2>1. j \in Nat /\ s.pos <= j /\ j <= Len(log) /\ 0 \in 0 .. (j - s.pos - 1) /\ s.pos + 0 = s.pos
    BY <1>1, <1>3
  <2>2. c \in Seq(Byte) /\ Len(c) = j - s.pos
        /\ \A q \in 0 .. (j - s.pos - 1) : At(c, q) = At(log, s.pos + q)
    BY <1>1, <2>1, SliceIs
  <2>3. At(c, 0) = SYN /\ 0 \in 0 .. (Len(c) - 1)
    BY <2>1, <2>2
  <2> HIDE DEF c
  <2>4. InBlock(c, 0, FALSE, 0)
    BY <2>2, InBlockEnds
  <2>5. At(c, 0) \notin {STX, DLE, CAN}
    BY <2>3 DEF SYN, STX, DLE, CAN
  <2>6. 0 \in Nat /\ 0 + 1 = 1
    OBVIOUS
  <2>7. InBlock(c, 0 + 1, FALSE, 0)
    BY <2>2, <2>3, <2>4, <2>5, <2>6, InBlockOutside
  <2> QED
    BY <2>6, <2>7 DEF c
<1>4. t.pos - t.blockStart = 1 /\ t.blockStart <= t.pos
  <2> HIDE DEF t
  <2>1. (s.pos + 1) - s.pos = 1 /\ s.pos <= s.pos + 1
    BY <1>1
  <2> QED
    BY <1>2, <2>1
<1> HIDE DEF t
<1> QED
  BY <1>2, <1>3, <1>4 DEF Follows, t

(* In text, EOT or EM cuts the block for good. *)
LEMMA CutInside ==
  ASSUME NEW c \in Seq(Byte), NEW p \in Nat, p < Len(c), At(c, p) \in {EOT, EM, SYN},
         NEW d \in Nat, InBlock(c, p, TRUE, d)
  PROVE  Cut(c)
<1>1. p >= 1
  BY DEF InBlock
<1>2. SubSeq(c, 2, Len(c))[p] = c[p + 1] /\ p \in DOMAIN SubSeq(c, 2, Len(c))
  BY <1>1
<1> QED
  BY <1>2 DEF Cut, Holds, At

LEMMA PassedJudged ==
  ASSUME NEW log \in Seq(Byte), NEW s \in ScanType, Judged(log, s),
         NEW n \in Nat, NEW k \in Nat, NEW x \in BOOLEAN, NEW d \in Nat
  PROVE  Judged(log, Passed(s, n, k, x, d))
<1>1. Passed(s, n, k, x, d).blocks = s.blocks /\ Passed(s, n, k, x, d).damaged = s.damaged
  BY DEF Passed
<1> QED
  BY <1>1 DEF Judged

(* A commit: the block ends where the scanner is, and it is judged by the  *)
(* open text and the depth there; behind it a block begins.                *)
LEMMA CommitJudges ==
  ASSUME NEW log \in Seq(Byte), NEW s \in ScanType, s.pos < Len(log),
         Follows(log, s), Judged(log, s)
  PROVE  Follows(log, CommitBlock(log, s)) /\ Judged(log, CommitBlock(log, s))
<1> DEFINE t == CommitBlock(log, s)
           m == Len(s.blocks)
           p == PayloadEnd(log, s.pos + 1)
           block == [start |-> s.blockStart, stop |-> s.pos]
           c == Slice(log, s.blockStart, s.pos)
<1>1. /\ s.pos \in Nat /\ s.blockStart \in Nat /\ s.blockStart <= s.pos /\ Len(log) \in Nat
      /\ s.blocks \in Seq(BlockType) /\ s.inText \in BOOLEAN /\ s.depth \in Nat
  BY DEF ScanType, Follows
<1>2. p \in (s.pos + 1) .. Len(log)
  <2>1. s.pos + 1 \in Nat /\ s.pos + 1 <= Len(log)
    BY <1>1
  <2> QED
    BY <2>1, PayloadEndStops
<1> HIDE DEF p
<1>3. /\ t.pos = p /\ t.blockStart = p /\ t.inText = FALSE /\ t.depth = 0
      /\ t.blocks = Append(s.blocks, block)
      /\ t.damaged = IF s.inText \/ s.depth > 0 THEN s.damaged \cup {m + 1} ELSE s.damaged
  BY DEF CommitBlock, ScanType, p
<1> HIDE DEF t
<1>4. Follows(log, t)
  <2>1. ASSUME NEW j \in p .. Len(log) PROVE InBlock(Slice(log, p, j), 0, FALSE, 0)
    <3>1. p \in Nat /\ j \in Nat /\ p <= j /\ j <= Len(log)
      BY <1>1, <1>2
    <3>2. Slice(log, p, j) \in Seq(Byte)
      BY <3>1, SliceIs
    <3> QED
      BY <3>2, InBlockEnds
  <2>2. p - p = 0 /\ p <= p
    BY <1>1, <1>2
  <2> QED
    BY <1>3, <2>1, <2>2 DEF Follows
<1>5. Cut(c) \/ (s.inText \/ s.depth > 0 <=> EndsOpen(c))
  <2>1. s.pos \in s.pos .. Len(log)
    BY <1>1
  <2>2. Cut(c) \/ InBlock(c, s.pos - s.blockStart, s.inText, s.depth)
    BY <2>1 DEF Follows
  <2>0. s.pos <= Len(log)
    BY <1>1
  <2>3. c \in Seq(Byte) /\ Len(c) = s.pos - s.blockStart
    BY <1>1, <2>0, SliceIs
  <2> HIDE DEF c
  <2>4. InBlock(c, Len(c), s.inText, s.depth) => (EndsOpen(c) <=> s.inText \/ s.depth > 0)
    BY <1>1, <2>3, InBlockEnds
  <2> QED
    BY <2>2, <2>3, <2>4
<1>6. /\ DOMAIN t.blocks = 1 .. (m + 1) /\ DOMAIN s.blocks = 1 .. m /\ m \in Nat
      /\ t.blocks[m + 1] = block
      /\ \A i \in 1 .. m : t.blocks[i] = s.blocks[i]
  BY <1>1, <1>3
<1>7. s.damaged \subseteq 1 .. m
  BY <1>6 DEF Judged
<1>8. ASSUME NEW i \in 1 .. (m + 1)
      PROVE  Cut(BlockBytes(log, t.blocks[i]))
               \/ (i \in t.damaged <=> EndsOpen(BlockBytes(log, t.blocks[i])))
  <2>1. CASE i = m + 1
    <3>1. BlockBytes(log, t.blocks[i]) = c
      BY <1>6, <2>1 DEF BlockBytes
    <3>2. i \in t.damaged <=> s.inText \/ s.depth > 0
      BY <1>3, <1>6, <1>7, <2>1
    <3> QED
      BY <1>5, <3>1, <3>2
  <2>2. CASE i # m + 1
    <3>1. i \in 1 .. m /\ t.blocks[i] = s.blocks[i]
      BY <1>6, <2>2
    <3>2. i \in t.damaged <=> i \in s.damaged
      BY <1>3, <2>2
    <3>3. Cut(BlockBytes(log, s.blocks[i])) \/ (i \in s.damaged <=> EndsOpen(BlockBytes(log, s.blocks[i])))
      BY <1>6, <3>1 DEF Judged
    <3> QED
      BY <3>1, <3>2, <3>3
  <2> QED
    BY <2>1, <2>2
<1>9. t.damaged \subseteq DOMAIN t.blocks
  BY <1>3, <1>6, <1>7
<1> QED
  BY <1>4, <1>6, <1>8, <1>9 DEF Judged, t

LEMMA StepJudges ==
  ASSUME NEW log \in Seq(Byte), NEW s \in ScanType, s.pos < Len(log),
         Follows(log, s), Judged(log, s)
  PROVE  Follows(log, ScanStep(log, s)) /\ Judged(log, ScanStep(log, s))
<1> DEFINE b == At(log, s.pos)
           t == ScanStep(log, s)
<1>0. /\ s.blockStart \in Nat /\ s.pos \in Nat /\ s.depth \in Nat /\ s.inText \in BOOLEAN
      /\ s.depth + 1 \in Nat /\ (IF s.depth > 0 THEN s.depth - 1 ELSE s.depth) \in Nat
  BY DEF ScanType
<1>j. \A n \in Nat, k \in Nat, x \in BOOLEAN, d \in Nat : Judged(log, Passed(s, n, k, x, d))
  BY PassedJudged
<1>p. \A c \in Seq(Byte), p \in Nat : p < Len(c) => p \in 0 .. (Len(c) - 1)
  OBVIOUS
<1>1. CASE b = ETB
  <2>1. t = CommitBlock(log, s)
    <3>1. s.inText => t = CommitBlock(log, s)
      BY <1>1, TextStepIs
    <3>2. ~s.inText => t = CommitBlock(log, s)
      BY <1>1, OutsideStepIs
    <3> QED
      BY <3>1, <3>2
  <2> QED
    BY <2>1, CommitJudges
<1>2. CASE s.inText /\ b # ETB
  <2>0. s.inText = TRUE
    BY <1>0, <1>2
  <2>1. CASE b = DLE
    <3>1. \A c \in Seq(Byte), p \in Nat :
           p < Len(c) /\ p + 2 <= Len(c) /\ At(c, p) = b /\ InBlock(c, p, s.inText, s.depth) =>
             Cut(c) \/ InBlock(c, p + 2, TRUE, s.depth)
      BY <1>0, <1>p, <2>0, <2>1, InBlockText
    <3>2. Follows(log, Passed(s, 2, s.blockStart, TRUE, s.depth))
      BY <1>0, <3>1, GoesOn
    <3>3. t = Passed(s, 2, s.blockStart, TRUE, s.depth)
      BY <1>2, <2>1, TextStepIs
    <3> QED
      BY <1>0, <1>j, <3>2, <3>3
  <2>2. CASE b = ETX
    <3>1. \A c \in Seq(Byte), p \in Nat :
           p < Len(c) /\ p + 1 <= Len(c) /\ At(c, p) = b /\ InBlock(c, p, s.inText, s.depth) =>
             Cut(c) \/ InBlock(c, p + 1, FALSE, s.depth)
      BY <1>0, <1>p, <2>0, <2>2, InBlockText
    <3>2. Follows(log, Passed(s, 1, s.blockStart, FALSE, s.depth))
      BY <1>0, <3>1, GoesOn
    <3>3. t = Passed(s, 1, s.blockStart, FALSE, s.depth)
      BY <1>2, <2>2, TextStepIs
    <3> QED
      BY <1>0, <1>j, <3>2, <3>3
  <2>3. CASE b = SYN
    <3>1. t = Passed(s, 1, s.pos, FALSE, 0)
      BY <1>2, <2>3, TextStepIs
    <3>2. Follows(log, Passed(s, 1, s.pos, FALSE, 0))
      BY <2>3, Restarts
    <3> QED
      BY <1>0, <1>j, <3>1, <3>2
  <2>4. CASE b \in {EOT, EM}
    <3>1. \A c \in Seq(Byte), p \in Nat :
           p < Len(c) /\ p + 1 <= Len(c) /\ At(c, p) = b /\ InBlock(c, p, s.inText, s.depth) =>
             Cut(c) \/ InBlock(c, p + 1, FALSE, 0)
      BY <1>0, <2>0, <2>4, CutInside
    <3>2. Follows(log, Passed(s, 1, s.blockStart, FALSE, 0))
      BY <1>0, <3>1, GoesOn
    <3>3. t = Passed(s, 1, s.blockStart, FALSE, 0)
      BY <1>2, <2>4, TextStepIs
    <3> QED
      BY <1>0, <1>j, <3>2, <3>3
  <2>5. CASE b \notin {DLE, ETX, ETB, SYN, EOT, EM}
    <3>1. \A c \in Seq(Byte), p \in Nat :
           p < Len(c) /\ p + 1 <= Len(c) /\ At(c, p) = b /\ InBlock(c, p, s.inText, s.depth) =>
             Cut(c) \/ InBlock(c, p + 1, TRUE, s.depth)
      BY <1>0, <1>p, <2>0, <2>5, InBlockText
    <3>2. Follows(log, Passed(s, 1, s.blockStart, TRUE, s.depth))
      BY <1>0, <3>1, GoesOn
    <3>3. t = Passed(s, 1, s.blockStart, TRUE, s.depth)
      BY <1>2, <2>5, TextStepIs
    <3> QED
      BY <1>0, <1>j, <3>2, <3>3
  <2> QED
    BY <1>2, <2>1, <2>2, <2>3, <2>4, <2>5
<1>3. CASE ~s.inText /\ b # ETB
  <2>0. s.inText = FALSE
    BY <1>0, <1>3
  <2> DEFINE Next1(x, d) == 
        \A c \in Seq(Byte), p \in Nat :
           p < Len(c) /\ p + 1 <= Len(c) /\ At(c, p) = b /\ InBlock(c, p, s.inText, s.depth) =>
             Cut(c) \/ InBlock(c, p + 1, x, d)
             On(x, d) == Follows(log, Passed(s, 1, s.blockStart, x, d))
  <2>1. /\ b = STX => Next1(TRUE, s.depth)
        /\ b = DLE => Next1(FALSE, s.depth + 1)
        /\ b = CAN => Next1(FALSE, IF s.depth > 0 THEN s.depth - 1 ELSE s.depth)
        /\ b \notin {STX, DLE, CAN} => Next1(FALSE, s.depth)
    BY <1>0, <1>p, <2>0, InBlockOutside
  <2>2. \A x \in BOOLEAN, d \in Nat : Next1(x, d) => On(x, d)
    BY GoesOn
  <2>3. /\ b = STX => On(TRUE, s.depth)
        /\ b = DLE => On(FALSE, s.depth + 1)
        /\ b = CAN => On(FALSE, IF s.depth > 0 THEN s.depth - 1 ELSE s.depth)
        /\ b \notin {STX, DLE, CAN} => On(FALSE, s.depth)
    <3> HIDE DEF Next1, On
    <3> QED
      BY <1>0, <2>1, <2>2
  <2>4. b = SYN => Follows(log, Passed(s, 1, s.pos, FALSE, 0))
    BY Restarts
  <2>5. \E k \in Nat, x \in BOOLEAN, d \in Nat :
          t = Passed(s, 1, k, x, d) /\ Follows(log, Passed(s, 1, k, x, d))
    <3>1. CASE b = STX
      BY <1>0, <1>3, <2>3, <3>1, OutsideStepIs
    <3>2. CASE b = DLE
      BY <1>0, <1>3, <2>3, <3>2, OutsideStepIs
    <3>3. CASE b = CAN
      BY <1>0, <1>3, <2>3, <3>3, OutsideStepIs
    <3>4. CASE b = SYN
      <4>1. SYN \notin {STX, DLE, CAN}
        BY DEF SYN, STX, DLE, CAN
      <4>2. t = IF s.pos > 0 THEN Passed(s, 1, s.pos, FALSE, 0)
                ELSE Passed(s, 1, s.blockStart, FALSE, s.depth)
        BY <1>3, <3>4, OutsideStepIs
      <4> QED
        BY <1>0, <2>3, <2>4, <3>4, <4>1, <4>2
    <3>5. CASE b \notin {STX, DLE, CAN, ETB, SYN}
      BY <1>0, <1>3, <2>3, <3>5, OutsideStepIs
    <3> QED
      BY <1>3, <3>1, <3>2, <3>3, <3>4, <3>5
  <2> QED
    BY <1>j, <2>5
<1> QED
  BY <1>1, <1>2, <1>3

(***************************************************************************)
(* IsDamaged: of the blocks no framing code cuts, exactly those are        *)
(* damaged that end inside a text or a level, whatever the log.            *)
(***************************************************************************)
THEOREM DamageIsOpenEnd == Spec => []DamagedIffOpen
<1> DEFINE JInv == Follows(buf, scan) /\ Judged(buf, scan)
<1>1. IInv /\ Init => JInv
  <2> SUFFICES ASSUME IInv, Init PROVE JInv
    OBVIOUS
  <2>1. buf \in Seq(Byte) /\ scan = NewScan /\ Len(buf) \in Nat
    BY DEF IInv, TypeOK, Init
  <2>2. ASSUME NEW j \in 0 .. Len(buf) PROVE InBlock(Slice(buf, 0, j), 0, FALSE, 0)
    <3>1. Slice(buf, 0, j) \in Seq(Byte)
      BY <2>1, SliceIs
    <3> QED
      BY <3>1, InBlockEnds
  <2>3. /\ scan.pos = 0 /\ scan.blockStart = 0 /\ scan.inText = FALSE /\ scan.depth = 0
        /\ scan.blocks = <<>> /\ scan.damaged = {} /\ 0 - 0 = 0 /\ DOMAIN <<>> = {}
    BY <2>1 DEF NewScan
  <2>4. Follows(buf, scan)
    <3>1. scan.blockStart <= scan.pos
      BY <2>3
    <3>2. ASSUME NEW j \in scan.pos .. Len(buf)
          PROVE  InBlock(Slice(buf, scan.blockStart, j), scan.pos - scan.blockStart,
                         scan.inText, scan.depth)
      <4>1. j \in 0 .. Len(buf)
        BY <2>3
      <4> QED
        BY <4>1, <2>2, <2>3
    <3> QED
      BY <3>1, <3>2 DEF Follows
  <2>5. Judged(buf, scan)
    BY <2>3 DEF Judged
  <2> QED
    BY <2>4, <2>5
<1>2. IInv /\ JInv /\ [Next]_vars => JInv'
  <2> SUFFICES ASSUME IInv, JInv, [Next]_vars PROVE JInv'
    OBVIOUS
  <2>1. buf' = buf
    BY DEF Next, vars, ReadInText, ReadOutside, Finish
  <2>2. CASE scan' = scan
    BY <2>1, <2>2
  <2>3. CASE Reading /\ scan' = ScanStep(buf, scan)
    <3>1. buf \in Seq(Byte) /\ scan \in ScanType /\ scan.pos < Len(buf)
      BY <2>3 DEF IInv, TypeOK, Reading
    <3>2. Follows(buf, ScanStep(buf, scan)) /\ Judged(buf, ScanStep(buf, scan))
      BY <3>1, StepJudges
    <3> QED
      BY <2>1, <2>3, <3>2
  <2> QED
    BY <2>2, <2>3 DEF Next, vars, ReadInText, ReadOutside, Finish, ScanStep
<1>3. JInv => DamagedIffOpen
  BY DEF DamagedIffOpen, Judged, Cut
<1> HIDE DEF JInv
<1> QED
  BY <1>1, <1>2, <1>3, InvariantHolds, PTL DEF Spec
=============================================================================
