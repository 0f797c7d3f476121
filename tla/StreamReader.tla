---------------------------- MODULE StreamReader ----------------------------
(***************************************************************************)
(* NewStreamReader scanning one buffer (stream.go): the loop of scan, a    *)
(* byte (or an ETB with its payload) at a time, and the verdict on the     *)
(* tail.  The buffer is any sequence of at most MaxLen bytes of Alphabet:  *)
(* scanning never fails, so every buffer is a possible input.              *)
(***************************************************************************)
EXTENDS StreamScan

CONSTANTS Alphabet,   \* the bytes buffers are made of
          MaxLen      \* bound on the length of a buffer

ASSUME AlphabetAssumption == Alphabet \subseteq Byte
ASSUME MaxLenAssumption == MaxLen \in Nat

VARIABLES buf,    \* the log
          scan,   \* the scanner
          phase,  \* "scan" until the reader is returned, then "done"
          torn    \* Torn(), set when the loop ends

vars == <<buf, scan, phase, torn>>

Buffers == UNION {[1 .. n -> Alphabet] : n \in 0 .. MaxLen}

Init == /\ buf \in Buffers
        /\ scan = NewScan
        /\ phase = "scan"
        /\ torn = FALSE

Reading == phase = "scan" /\ scan.pos < Len(buf)

ReadInText == /\ Reading /\ scan.inText
              /\ scan' = TextStep(buf, scan)
              /\ UNCHANGED <<buf, phase, torn>>

ReadOutside == /\ Reading /\ ~scan.inText
               /\ scan' = OutsideStep(buf, scan)
               /\ UNCHANGED <<buf, phase, torn>>

Finish == /\ phase = "scan" /\ ~(scan.pos < Len(buf))
          /\ phase' = "done"
          /\ torn' = TornTail(buf, scan.committedEnd)
          /\ UNCHANGED <<buf, scan>>

Next == ReadInText \/ ReadOutside \/ Finish

(* The scan is one thread's loop: nothing keeps it from its next step. *)
Spec == Init /\ [][Next]_vars /\ WF_vars(Next)
-----------------------------------------------------------------------------
(* The state is well typed; what Go would index is inside the buffer. *)
TypeOK == /\ buf \in Seq(Byte)
          /\ scan \in ScanType
          /\ phase \in {"scan", "done"}
          /\ torn \in BOOLEAN

(* Block(i), Committed() and Tail() slice the buffer at these offsets: a   *)
(* block ends at an ETB it does not contain, the next one begins behind    *)
(* it, and the committed region lies between the last ETB and the scanner. *)
BlocksInOrder ==
  LET bs == scan.blocks IN
  /\ \A i \in DOMAIN bs : /\ bs[i].start <= bs[i].stop
                          /\ bs[i].stop < Len(buf)
                          /\ At(buf, bs[i].stop) = ETB
  /\ \A i \in DOMAIN bs : i > 1 => bs[i - 1].stop < bs[i].start
  /\ bs # <<>> => bs[Len(bs)].stop < scan.committedEnd
  /\ bs = <<>> => scan.committedEnd = 0
  /\ scan.committedEnd <= scan.blockStart
  /\ scan.committedEnd <= Len(buf)
  /\ scan.blockStart <= scan.pos
  /\ scan.damaged \subseteq DOMAIN bs

Stops == {scan.blocks[i].stop : i \in DOMAIN scan.blocks}

(* "An unescaped ETB is always a commit": no ETB the scanner has passed    *)
(* that is not behind an odd run of DLEs is swallowed by a text, a level   *)
(* or a payload.  So the backward scan never finds a commit the forward    *)
(* scan does not have.                                                     *)
NoCommitMissed == \A p \in CommitMarks(buf) : p < scan.pos => p \in Stops

(* The loop leaves no way to read the same byte for ever. *)
ScanReturns == <>(phase = "done")
=============================================================================
