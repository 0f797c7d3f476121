----------------------------- MODULE AtomicLog -----------------------------
(***************************************************************************)
(* What an append-only log of committed batches promises (the contract of  *)
(* FileLog, stream.go): a batch becomes visible as one entry or not at     *)
(* all, entries are never changed or reordered, a crash loses at most a    *)
(* suffix that was not yet on stable storage, and a batch that was synced  *)
(* before it was acknowledged is never lost.                               *)
(***************************************************************************)
EXTENDS Integers, Sequences

CONSTANT Value    \* what one call commits

VARIABLES entries,  \* the committed batches a reader sees, in order
          stable,   \* how many of them a crash cannot take away
          acked     \* the acknowledged ones: where they are, what they hold,
                    \* whether they were synced

logVars == <<entries, stable, acked>>

Init == entries = <<>> /\ stable = 0 /\ acked = {}

Commit(v) == /\ entries' = Append(entries, v)
             /\ UNCHANGED <<stable, acked>>

(* Stable storage catches up, and what is stable may be acknowledged. *)
Flush == /\ stable' = Len(entries)
         /\ UNCHANGED <<entries, acked>>

Acknowledge(i, synced) ==
  /\ stable' \in {stable, Len(entries)}
  /\ synced => i <= stable'
  /\ acked' = acked \cup {[at |-> i, batch |-> entries[i], synced |-> synced]}
  /\ UNCHANGED entries

(* The machine stops: some suffix of the unstable entries is gone, and the *)
(* acknowledgements of those that were not synced with it.                 *)
Crash(k) == /\ stable <= k
            /\ entries' = SubSeq(entries, 1, k)
            /\ stable' = k
            /\ acked' = {a \in acked : a.synced \/ a.at <= k}

Next == \/ \E v \in Value : Commit(v)
        \/ Flush
        \/ \E i \in DOMAIN entries, synced \in BOOLEAN : Acknowledge(i, synced)
        \/ \E k \in 0 .. Len(entries) : Crash(k)

Spec == Init /\ [][Next]_logVars
-----------------------------------------------------------------------------
TypeOK == /\ entries \in Seq(Value)
          /\ stable \in 0 .. Len(entries)
          /\ acked \subseteq [at : Nat, batch : Value, synced : BOOLEAN]

(* An acknowledged batch is an entry and stays the entry it was. *)
AckedKept == \A a \in acked : /\ a.at \in DOMAIN entries
                              /\ entries[a.at] = a.batch

(* What was acknowledged as synced is where no crash takes it away. *)
AckedStable == \A a \in acked : a.synced => a.at <= stable

(* A crash takes no entry that was stable, and the acknowledgement of a    *)
(* synced batch is for good.                                               *)
StableStays ==
  [][SubSeq(entries', 1, stable) = SubSeq(entries, 1, stable)]_logVars

Synced == {a \in acked : a.synced}

AckedForever == [][Synced \subseteq acked']_logVars
=============================================================================
