------------------------------ MODULE C0Codes ------------------------------
(***************************************************************************)
(* The byte alphabet of C0DATA and the scanning primitives that every      *)
(* other part of the package is built on (c0.go).  A buffer is a sequence  *)
(* of bytes; a position is Go's, counted from 0, so At(buf, p) is buf[p].  *)
(* A primitive that panics in the code returns Malformed here.             *)
(*                                                                         *)
(* The loops that advance over a run of bytes are stated by where they     *)
(* stop; the one that cannot be (scanText, whose escapes depend on the     *)
(* way it got there) is a recursive function.                              *)
(***************************************************************************)
EXTENDS Integers, Sequences, FiniteSetsExt

Byte == 0 .. 255

SOH == 1    STX == 2    ETX == 3    EOT == 4
ENQ == 5    BEL == 7    HT  == 9    LF  == 10
CR  == 13   DLE == 16   SYN == 22   ETB == 23
CAN == 24   EM  == 25   SUB == 26   FS  == 28
GS  == 29   RS  == 30   US  == 31   SP  == 32

Assigned    == {SOH, STX, ETX, EOT, ENQ, BEL, DLE, SYN, ETB, CAN, EM, SUB,
                FS, GS, RS, US}
TextEscaped == {STX, ETX, DLE, ETB, EOT, SYN, EM}
Layout      == {SP, HT, LF, CR}
Framing     == {ETB, EOT, SYN, EM}

IsLayout(b) == b \in Layout
IsPlainByte(b) == b >= 32

At(buf, p) == buf[p + 1]

(* The bytes buf[i:j]. *)
Slice(buf, i, j) == SubSeq(buf, i + 1, j)

Malformed == -1

(***************************************************************************)
(* scanLayout and scanPlain: the first position at or after pos that does  *)
(* not belong to the run, or stop.                                         *)
(***************************************************************************)
ScanLayout(buf, pos, stop) ==
  Min({p \in pos .. stop : p = stop \/ ~IsLayout(At(buf, p))})

ScanPlain(buf, pos, stop) ==
  Min({p \in pos .. stop : p = stop \/ ~IsPlainByte(At(buf, p))})

(* scanText: the position after the ETX that closes the text opened at pos. *)
ScanText(buf, pos, stop) ==
  LET after[p \in (pos + 1) .. (stop + 1)] ==
        CASE p >= stop -> Malformed
          [] p < stop /\ At(buf, p) = DLE ->
               IF p + 1 < stop /\ At(buf, p + 1) \in TextEscaped
               THEN after[p + 2] ELSE Malformed
          [] p < stop /\ At(buf, p) = ETX -> p + 1
          [] p < stop /\ At(buf, p) \in Framing \cup {STX} -> Malformed
          [] OTHER -> after[p + 1]
  IN  after[pos + 1]

(* scanComment on a note: the position after the note whose BEL is at pos, *)
(* Malformed when the note has no content or its text does not close.      *)
ScanNote(buf, pos, stop) ==
  LET p == ScanLayout(buf, pos + 1, stop) IN
  CASE p = stop -> Malformed
    [] p < stop /\ At(buf, p) = STX -> ScanText(buf, p, stop)
    [] p < stop /\ IsPlainByte(At(buf, p)) -> ScanPlain(buf, p, stop)
    [] OTHER -> Malformed
=============================================================================
