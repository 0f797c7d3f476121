--------------------------- MODULE MCStreamReader ---------------------------
(***************************************************************************)
(* StreamReader over all short buffers of an alphabet, with properties     *)
(* that compare the scanner with declarative readings of the same log.     *)
(***************************************************************************)
EXTENDS StreamReader

(* Every code the scanner or the verdict on the tail looks at, layout, a   *)
(* letter for any other byte.                                              *)
LogBytes == {STX, ETX, DLE, CAN, ETB, SYN, BEL, EOT, EM, SP, 120}
CutBytes == {STX, ETB, EOT, ETX}

(* What a writer would append: a record; a record of a text holding an ETB. *)
Appendices == {<<RS, 120, ETB>>, <<RS, STX, DLE, ETB, ETX, ETB>>}

Done == phase = "done"

(***************************************************************************)
(* A block by itself, read from its start at depth 0: whether it ends      *)
(* inside a text or a level.  A text closes at its first ETX behind an     *)
(* even number of DLEs (its STX is none, so they are all of that text).    *)
(***************************************************************************)
Closers(c, p) == {q \in (p + 1) .. (Len(c) - 1) : At(c, q) = ETX /\ EvenRun(c, q)}

EndsOpen(c) ==
  LET n == Len(c)
      open[x \in (0 .. n) \X Nat] ==
        LET p == x[1]
            depth == x[2]
        IN  CASE p = n -> depth > 0
              [] p < n /\ At(c, p) = STX ->
                   Closers(c, p) = {} \/ open[<<Min(Closers(c, p)) + 1, depth>>]
              [] p < n /\ At(c, p) = DLE -> open[<<p + 1, depth + 1>>]
              [] p < n /\ At(c, p) = CAN -> open[<<p + 1, IF depth = 0 THEN 0 ELSE depth - 1>>]
              [] OTHER -> open[<<p + 1, depth>>]
  IN  open[<<0, 0>>]

Holds(c, codes) == \E i \in DOMAIN c : c[i] \in codes

(* IsDamaged: of the blocks no framing code cuts, exactly those are        *)
(* damaged that end inside a text or a level; the others are whole.        *)
DamagedIffOpen ==
  \A i \in DOMAIN scan.blocks :
    LET c == BlockBytes(buf, scan.blocks[i]) IN
    ~Holds(SubSeq(c, 2, Len(c)), {EOT, EM, SYN}) =>
      (i \in scan.damaged <=> EndsOpen(c))

(* What has been committed stays committed: a reader of a shorter prefix   *)
(* of the log has seen the first blocks of the longer one, with the same   *)
(* verdict on each.                                                        *)
PrefixStable ==
  Done => \A k \in 0 .. Len(buf) :
            LET before == Scan(Slice(buf, 0, k)) IN
            /\ IsPrefix(before.blocks, scan.blocks)
            /\ before.damaged = scan.damaged \cap DOMAIN before.blocks

(* RepairStream loses no commit and leaves a log that ends at one: a       *)
(* second scan finds the same blocks and nothing to cut off.               *)
RepairKeepsCommits ==
  Done => LET log == Repaired(buf)
              again == Scan(log)
          IN  /\ again.blocks = scan.blocks
              /\ again.damaged = scan.damaged
              /\ ~TornTail(log, again.committedEnd)

(* A block appended after a repair is read back whole and undamaged, with  *)
(* only notes, layout and EOT of the tail before it, provided the tail is  *)
(* not the raw region of an EM.                                            *)
AppendAfterRepair ==
  Done => LET log == Repaired(buf) IN
    ~Holds(Slice(log, scan.committedEnd, Len(log)), {EM}) =>
      \A w \in Appendices :
        LET now == Scan(log \o w)
            n == Len(scan.blocks)
        IN  /\ Len(now.blocks) = n + 1
            /\ SubSeq(now.blocks, 1, n) = scan.blocks
            /\ now.damaged = scan.damaged
            /\ now.blocks[n + 1].stop = Len(log) + Len(w) - 1
            /\ now.blocks[n + 1].start <= Len(log)

(* stream.go:141 "framing cuts the text; the block is torn/damaged at the  *)
(* next commit": a block with a text that no ETX closes is damaged.        *)
CutTextIsDamaged ==
  \A i \in DOMAIN scan.blocks :
    LET c == BlockBytes(buf, scan.blocks[i]) IN
    EndsOpen(c) => i \in scan.damaged
=============================================================================
