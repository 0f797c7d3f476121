----------------------------- MODULE StreamScan -----------------------------
(***************************************************************************)
(* How a log is cut into committed blocks (stream.go, StreamReader.scan).  *)
(* The scanner is a record that each byte of the log takes one step        *)
(* further; StreamReader runs those steps as a state machine, FileLog uses *)
(* the scan of a whole file, Scan(log).                                    *)
(*                                                                         *)
(* A block is [start |-> i, stop |-> j]: the bytes log[i:j], its ETB at j. *)
(* Operators whose names end in a capitalised fault (CloseLevel_NoFloor)   *)
(* are slips one could make in the code; the runs show the properties      *)
(* notice them.                                                            *)
(***************************************************************************)
EXTENDS C0Codes, SequencesExt

BlockType == [start : Nat, stop : Nat]

ScanType == [pos : Nat, blockStart : Nat, inText : BOOLEAN, depth : Nat,
             blocks : Seq(BlockType), damaged : SUBSET (Nat \ {0}),
             committedEnd : Nat]

NewScan == [pos |-> 0, blockStart |-> 0, inText |-> FALSE, depth |-> 0,
            blocks |-> <<>>, damaged |-> {}, committedEnd |-> 0]

(***************************************************************************)
(* payloadEnd: where the payload of the ETB before pos ends.  Layout       *)
(* before a payload is skipped, trailing spaces are left out, and with no  *)
(* payload the layout belongs to the next block.                           *)
(***************************************************************************)
PayloadEnd_EatsNextByte(log, pos) ==
  LET n == Len(log)
      p == ScanLayout(log, pos, n)
  IN  IF p < n /\ IsPlainByte(At(log, p)) THEN ScanPlain(log, p, n)
      ELSE Min({pos + 1, n})

PayloadEnd(log, pos) ==
  LET n == Len(log)
      p == ScanLayout(log, pos, n)
      e == ScanPlain(log, p, n)
  IN  IF p < n /\ IsPlainByte(At(log, p))
      THEN Max({q \in pos .. e : q = pos \/ At(log, q - 1) # SP})
      ELSE pos

(***************************************************************************)
(* An ETB at the scanner's position: commit the block before it, damaged   *)
(* when it cuts open text or a level, and go on behind the payload.        *)
(***************************************************************************)
CommitBlock_KeepStart(log, s) ==
  LET p == PayloadEnd(log, s.pos + 1) IN
  [s EXCEPT !.blocks = Append(@, [start |-> s.blockStart, stop |-> s.pos]),
            !.damaged = IF s.inText \/ s.depth > 0
                        THEN @ \cup {Len(s.blocks) + 1} ELSE @,
            !.committedEnd = p, !.pos = p, !.inText = FALSE, !.depth = 0]

CommitBlock_KeepDepth(log, s) ==
  LET p == PayloadEnd(log, s.pos + 1) IN
  [s EXCEPT !.blocks = Append(@, [start |-> s.blockStart, stop |-> s.pos]),
            !.damaged = IF s.inText \/ s.depth > 0
                        THEN @ \cup {Len(s.blocks) + 1} ELSE @,
            !.committedEnd = p, !.pos = p, !.blockStart = p, !.inText = FALSE]

CommitBlock(log, s) ==
  LET p == PayloadEnd(log, s.pos + 1) IN
  [s EXCEPT !.blocks = Append(@, [start |-> s.blockStart, stop |-> s.pos]),
            !.damaged = IF s.inText \/ s.depth > 0
                        THEN @ \cup {Len(s.blocks) + 1} ELSE @,
            !.committedEnd = p, !.pos = p, !.blockStart = p,
            !.inText = FALSE, !.depth = 0]

(* Any other byte is passed; what it may change is where the uncommitted   *)
(* block starts, whether a text is open, and how many levels are.          *)
Pass(s, blockStart, inText, depth) ==
  [s EXCEPT !.pos = @ + 1, !.blockStart = blockStart, !.inText = inText,
            !.depth = depth]

(* Framing other than ETB inside open text closes it; SYN starts a block.  *)
CutText(s, b) == Pass(s, IF b = SYN THEN s.pos ELSE s.blockStart, FALSE, 0)

(* SYN outside text tears the uncommitted bytes before it. *)
NewDocument_Restarts(s) == [Pass(s, s.pos, FALSE, 0) EXCEPT !.blocks = <<>>]

NewDocument(s) == IF s.pos > 0 THEN Pass(s, s.pos, FALSE, 0)
                  ELSE Pass(s, s.blockStart, FALSE, s.depth)

(* Inside text a DLE takes the next byte with it, whatever it is. *)
SkipEscape(s) == [s EXCEPT !.pos = @ + 2]

CloseLevel_NoFloor(s) == Pass(s, s.blockStart, FALSE, s.depth - 1)

CloseLevel_WaitsForLevel(s) ==
  IF s.depth > 0 THEN Pass(s, s.blockStart, FALSE, s.depth - 1) ELSE s

CloseLevel(s) ==
  Pass(s, s.blockStart, FALSE, IF s.depth > 0 THEN s.depth - 1 ELSE s.depth)

TextStep(log, s) ==
  LET b == At(log, s.pos) IN
  CASE b = DLE -> SkipEscape(s)
    [] b = ETX -> Pass(s, s.blockStart, FALSE, s.depth)
    [] b = ETB -> CommitBlock(log, s)
    [] b \in {SYN, EOT, EM} -> CutText(s, b)
    [] OTHER -> Pass(s, s.blockStart, TRUE, s.depth)

OutsideStep(log, s) ==
  LET b == At(log, s.pos) IN
  CASE b = STX -> Pass(s, s.blockStart, TRUE, s.depth)
    [] b = DLE -> Pass(s, s.blockStart, FALSE, s.depth + 1)
    [] b = CAN -> CloseLevel(s)
    [] b = ETB -> CommitBlock(log, s)
    [] b = SYN -> NewDocument(s)
    [] OTHER -> Pass(s, s.blockStart, FALSE, s.depth)

ScanStep(log, s) == IF s.inText THEN TextStep(log, s) ELSE OutsideStep(log, s)

(* NewStreamReader(log): the scanner once it has read the whole log. *)
Scan(log) ==
  LET end[s \in ScanType] ==
        IF s.pos < Len(log) THEN end[ScanStep(log, s)] ELSE s
  IN  end[NewScan]
-----------------------------------------------------------------------------
(***************************************************************************)
(* tornTail: whether the bytes after the last commit are more than layout, *)
(* notes, EOT or an EM region.                                             *)
(***************************************************************************)
TornTail_OpenNote(log, committedEnd) ==
  LET n == Len(log)
      tail[p \in 0 .. n] ==
        LET q == ScanLayout(log, p, n)
            note == ScanNote(log, q, n)
        IN  CASE q = n -> "clean"
              [] q < n /\ At(log, q) = EOT -> tail[q + 1]
              [] q < n /\ At(log, q) = EM -> "clean"
              [] q < n /\ At(log, q) = BEL ->
                   IF note = Malformed THEN "clean" ELSE tail[note]
              [] OTHER -> "torn"
  IN  tail[committedEnd] = "torn"

TornTail(log, committedEnd) ==
  LET n == Len(log)
      tail[p \in 0 .. n] ==
        LET q == ScanLayout(log, p, n)
            note == ScanNote(log, q, n)
        IN  CASE q = n -> "clean"
              [] q < n /\ At(log, q) = EOT -> tail[q + 1]
              [] q < n /\ At(log, q) = EM -> "clean"
              [] q < n /\ At(log, q) = BEL ->
                   IF note = Malformed THEN "torn" ELSE tail[note]
              [] OTHER -> "torn"
  IN  tail[committedEnd] = "torn"

(***************************************************************************)
(* LastCommitEnd: the end of the last commit found by scanning backward,   *)
(* where an ETB behind an odd run of DLEs is escaped.                      *)
(***************************************************************************)
EvenRun(log, p) ==
  \E k \in 0 .. p : /\ k % 2 = 0
                    /\ \A i \in (p - k) .. (p - 1) : At(log, i) = DLE
                    /\ p - k = 0 \/ At(log, p - k - 1) # DLE

CommitMarks_AnyETB(log) == {p \in 0 .. (Len(log) - 1) : At(log, p) = ETB}

CommitMarks(log) ==
  {p \in 0 .. (Len(log) - 1) : At(log, p) = ETB /\ EvenRun(log, p)}

LastCommitEnd(log) ==
  LET marks == CommitMarks(log) IN
  IF marks = {} THEN 0 ELSE ScanPlain(log, Max(marks) + 1, Len(log))

(* RepairStream, on the contents of the file it read. *)
Repaired_CutsTheMark(log) ==
  LET end == Scan(log).committedEnd IN
  IF TornTail(log, end) THEN Slice(log, 0, end - 1) ELSE log

Repaired(log) ==
  LET end == Scan(log).committedEnd IN
  IF TornTail(log, end) THEN Slice(log, 0, end) ELSE log

BlockBytes(log, block) == Slice(log, block.start, block.stop)

(* undamaged, before it joins the blocks: the blocks in order, without the *)
(* damaged ones.                                                           *)
UndamagedBlocks(log) ==
  LET s == Scan(log)
      upTo[i \in 0 .. Len(s.blocks)] ==
        CASE i = 0 -> <<>>
          [] i > 0 /\ i \in s.damaged -> upTo[i - 1]
          [] OTHER -> Append(upTo[i - 1], BlockBytes(log, s.blocks[i]))
  IN  upTo[Len(s.blocks)]
=============================================================================
