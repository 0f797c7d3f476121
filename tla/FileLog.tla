------------------------------ MODULE FileLog ------------------------------
(***************************************************************************)
(* FileLog over a file (stream.go): OpenLogSync repairs a torn tail and    *)
(* opens the file for appending; Batch builds the bytes of one commit,     *)
(* writes them, and syncs.  The file is its bytes, so a short write, an    *)
(* error between two system calls or a crash leaves what it would leave.   *)
(* A StreamWriter over a file is a holder that neither repairs nor syncs.  *)
(*                                                                         *)
(* The operating system is external.  Write appends any part of the bytes  *)
(* or fails; fsync makes the contents durable or fails; a machine crash    *)
(* leaves the durable contents, or the file as it was written up to some   *)
(* point behind what both share.                                           *)
(***************************************************************************)
EXTENDS StreamScan

B == INSTANCE Builder

CONSTANTS Procs,          \* holders of a FileLog or a StreamWriter
          Batches,        \* what CommitBytes returns, the final ETB included
          StopAfterError, \* whether a caller gives up a handle that failed
          MaxBatches,     \* bound on the calls of Batch
          MaxCrashes      \* bound on the crashes of a process or the machine

ASSUME FlagsAssumption == StopAfterError \in BOOLEAN
ASSUME BoundsAssumption == MaxBatches \in Nat /\ MaxCrashes \in Nat

(* A block's data: what is left without the notes (and the EOT) before it, *)
(* which a crashed batch may have left in the tail.                        *)
DataStart(block) ==
  LET n == Len(block)
      first[i \in 0 .. n] ==
        CASE i = n -> n
          [] i < n /\ At(block, i) = EOT -> first[i + 1]
          [] i < n /\ At(block, i) = BEL /\ ScanNote(block, i, n) # Malformed ->
               first[ScanNote(block, i, n)]
          [] OTHER -> i
  IN  first[0]

Data(block) == Slice(block, DataStart(block), Len(block))

(* The builder's batch is closed: alone in a log it is one undamaged block *)
(* that ends at its last byte.  It begins with a code, and wherever it is  *)
(* cut, what is left is more than notes only if it is torn (a batch that   *)
(* begins with an EM region is not).                                       *)
ASSUME BatchesAssumption ==
  \A b \in Batches :
    LET s == Scan(b) IN
    /\ b \in Seq(Byte)
    /\ s.blocks = <<[start |-> 0, stop |-> Len(b) - 1]>> /\ s.damaged = {}
    /\ ~IsPlainByte(At(b, 0)) /\ ~IsLayout(At(b, 0))
    /\ \A k \in 0 .. (Len(b) - 1) :
         LET cut == Slice(b, 0, k) IN TornTail(cut, 0) \/ Data(cut) = <<>>

VARIABLES file,     \* the contents of the file, as a read returns them
          entries,  \* what a reader of these contents gets
          disk,     \* the contents that survive a crash
          stable,   \* how many entries a reader of those would get
          handle,   \* each process's FileLog and the call it is in
          acked,    \* the batches Batch returned nil for, and where they went
          begun,    \* how many calls of Batch began
          crashes   \* how many crashes there were

onFile == <<file, entries>>
onDisk == <<disk, stable>>
vars == <<file, entries, disk, stable, handle, acked, begun, crashes>>

Closed == [pc |-> "closed", snap |-> <<>>, batch |-> <<>>, rest |-> <<>>,
           at |-> 0, sync |-> FALSE]

Init == /\ file = <<>> /\ entries = <<>>
        /\ disk = <<>> /\ stable = 0
        /\ handle = [p \in Procs |-> Closed]
        /\ acked = {}
        /\ begun = 0
        /\ crashes = 0
-----------------------------------------------------------------------------
(* What a batch holds for a reader: its block's data, without the ETB. *)
BatchData(b) == Data(Slice(b, 0, Len(b) - 1))

(* What a reader of the log gets: the data of its undamaged blocks. *)
Entries(log) ==
  LET blocks == UndamagedBlocks(log) IN [i \in DOMAIN blocks |-> Data(blocks[i])]

(* commitBytes: what is built and an ETB, {} where the builder failed; and *)
(* what each method of both writers builds.                                *)
CommitBytes(b) ==
  {c.buf : c \in {x \in {B!PutETB(b, <<>>)} : x.err = "none"}}

Start(shape, stream) == CommitBytes(B!Heading(B!PutSYN(B!NewBuilder), shape, stream))
Record(fields) == CommitBytes(B!Record(B!NewBuilder, fields))
Header(names) == CommitBytes(B!Header(B!NewBuilder, names))
Group(name, headers) == CommitBytes(B!GroupAt(B!NewBuilder, name, headers, 1))

SetFile(log) == file' = log /\ entries' = Entries(log)
SetDisk(log) == disk' = log /\ stable' = Len(Entries(log))

(* os.Truncate: cuts the file, or extends it with NUL bytes. *)
Truncated(log, n) ==
  IF n <= Len(log) THEN Slice(log, 0, n)
  ELSE log \o [i \in 1 .. (n - Len(log)) |-> 0]
-----------------------------------------------------------------------------
(* OpenLogSync, up to the read of the file in RepairStream.  A file that   *)
(* does not exist is the empty one: nothing is read and nothing repaired.  *)
OpenRead(p, sync) ==
  /\ handle[p].pc = "closed"
  /\ handle' = [handle EXCEPT ![p] =
       [Closed EXCEPT !.pc = "repairing", !.snap = file, !.sync = sync]]
  /\ UNCHANGED <<onFile, onDisk, acked, begun, crashes>>

(* A FileLog between two calls: its file is open, and nothing else is kept. *)
Opened(h) == [Closed EXCEPT !.pc = "ready", !.sync = h.sync]

(* The rest of RepairStream, on what it read, and OpenFile. *)
OpenRepair_NoRepair(p) ==
  /\ handle[p].pc = "repairing"
  /\ handle' = [handle EXCEPT ![p] = Opened(handle[p])]
  /\ UNCHANGED <<onFile, onDisk, acked, begun, crashes>>

OpenRepair(p) ==
  LET snap == handle[p].snap
      end == Scan(snap).committedEnd
  IN
  /\ handle[p].pc = "repairing"
  /\ IF TornTail(snap, end) THEN SetFile(Truncated(file, end)) ELSE UNCHANGED onFile
  /\ handle' = [handle EXCEPT ![p] = Opened(handle[p])]
  /\ UNCHANGED <<onDisk, acked, begun, crashes>>

(* The read, Truncate or OpenFile fails: OpenLog returns the error and no  *)
(* handle.  (OpenFile failing behind a truncation is OpenRepair and Close.) *)
OpenFails(p) ==
  /\ handle[p].pc = "repairing"
  /\ handle' = [handle EXCEPT ![p] = Closed]
  /\ UNCHANGED <<onFile, onDisk, acked, begun, crashes>>

(* NewStreamWriter over the file: nothing is read and nothing repaired, so *)
(* its caller sees to it that the log ends behind a commit.                *)
OpenWriter(p) ==
  /\ handle[p].pc = "closed"
  /\ ~TornTail(file, Scan(file).committedEnd)
  /\ handle' = [handle EXCEPT ![p] = Opened(Closed)]
  /\ UNCHANGED <<onFile, onDisk, acked, begun, crashes>>

(* Batch: the bytes are built first, so a builder error writes nothing and *)
(* is no step of the log.                                                  *)
Batch(p, b) ==
  /\ handle[p].pc = "ready"
  /\ begun < MaxBatches
  /\ begun' = begun + 1
  /\ handle' = [handle EXCEPT ![p].pc = "writing", ![p].batch = b, ![p].rest = b]
  /\ UNCHANGED <<onFile, onDisk, acked, crashes>>

(* A system call of Write appends n bytes of what is left. *)
CanWrite_StopsShort(p, n) ==
  handle[p].pc = "writing" /\ n \in 1 .. (Len(handle[p].rest) - 1)

CanWrite(p, n) ==
  handle[p].pc = "writing" /\ n \in 1 .. Len(handle[p].rest)

Write(p, n) ==
  LET h == handle[p]
      now == file \o SubSeq(h.rest, 1, n)
  IN
  /\ CanWrite(p, n)
  /\ SetFile(now)
  /\ handle' = [handle EXCEPT
       ![p].rest = SubSeq(h.rest, n + 1, Len(h.rest)),
       ![p].pc = IF n = Len(h.rest) THEN "written" ELSE "writing",
       ![p].at = IF n = Len(h.rest) THEN Len(Entries(now)) ELSE 0]
  /\ UNCHANGED <<onDisk, acked, begun, crashes>>

(* What Batch leaves in the FileLog when it returns an error: nothing is   *)
(* recorded, and the handle can be used again unless its caller gives up.  *)
AfterError(h) == [Closed EXCEPT !.pc = IF StopAfterError THEN "given up" ELSE "ready",
                                !.sync = h.sync]

WriteFails(p) ==
  /\ handle[p].pc = "writing"
  /\ handle' = [handle EXCEPT ![p] = AfterError(handle[p])]
  /\ UNCHANGED <<onFile, onDisk, acked, begun, crashes>>

Acks(h) == {[at |-> h.at, batch |-> BatchData(h.batch), synced |-> h.sync]}

(* Batch returns nil, after fsync if the log syncs. *)
Return_BeforeSync(p) ==
  /\ handle[p].pc = "written"
  /\ acked' = acked \cup Acks(handle[p])
  /\ handle' = [handle EXCEPT ![p] = Opened(handle[p])]
  /\ UNCHANGED <<onFile, onDisk, begun, crashes>>

Return_MidWrite(p) ==
  /\ handle[p].pc \in {"writing", "written"}
  /\ IF handle[p].sync THEN SetDisk(file) ELSE UNCHANGED onDisk
  /\ acked' = acked \cup Acks(handle[p])
  /\ handle' = [handle EXCEPT ![p] = Opened(handle[p])]
  /\ UNCHANGED <<onFile, begun, crashes>>

Return(p) ==
  /\ handle[p].pc = "written"
  /\ IF handle[p].sync THEN SetDisk(file) ELSE UNCHANGED onDisk
  /\ acked' = acked \cup Acks(handle[p])
  /\ handle' = [handle EXCEPT ![p] = Opened(handle[p])]
  /\ UNCHANGED <<onFile, begun, crashes>>

SyncFails(p) ==
  /\ handle[p].pc = "written"
  /\ handle[p].sync
  /\ handle' = [handle EXCEPT ![p] = AfterError(handle[p])]
  /\ UNCHANGED <<onFile, onDisk, acked, begun, crashes>>

Close(p) ==
  /\ handle[p].pc \in {"ready", "given up"}
  /\ handle' = [handle EXCEPT ![p] = Closed]
  /\ UNCHANGED <<onFile, onDisk, acked, begun, crashes>>
-----------------------------------------------------------------------------
(* A process dies between two system calls; the file stays. *)
Kill(p) ==
  /\ crashes < MaxCrashes
  /\ handle[p].pc # "closed"
  /\ crashes' = crashes + 1
  /\ handle' = [handle EXCEPT ![p] = Closed]
  /\ UNCHANGED <<onFile, onDisk, acked, begun>>

(* The kernel writes the file back whenever it likes. *)
Shared == CHOOSE k \in 0 .. Len(file) :
            /\ k <= Len(disk) /\ SubSeq(disk, 1, k) = SubSeq(file, 1, k)
            /\ k < Len(file) /\ k < Len(disk) => disk[k + 1] # file[k + 1]

Survivors == {disk} \cup {Slice(file, 0, k) : k \in Shared .. Len(file)}

(* The machine stops. *)
Crash ==
  /\ crashes < MaxCrashes
  /\ crashes' = crashes + 1
  /\ \E log \in Survivors :
       /\ SetFile(log)
       /\ SetDisk(log)
       /\ acked' = {a \in acked : a.synced \/ a.at <= Len(Entries(log))}
  /\ handle' = [p \in Procs |-> Closed]
  /\ UNCHANGED begun

Next ==
  \/ \E p \in Procs :
       \/ \E sync \in BOOLEAN : OpenRead(p, sync)
       \/ OpenRepair(p) \/ OpenFails(p) \/ OpenWriter(p)
       \/ \E b \in Batches : Batch(p, b)
       \/ \E n \in 1 .. Len(handle[p].rest) : Write(p, n)
       \/ WriteFails(p) \/ Return(p) \/ SyncFails(p) \/ Close(p) \/ Kill(p)
  \/ Crash

(* A system call ends: Go's Write goes on until all bytes are written or   *)
(* one call fails, and fsync returns.  Nothing makes anyone open a log.    *)
(* Each conjunct is the weak fairness of its action, with its enabling     *)
(* condition written out (TLC is slow to find the successors for it).      *)
Fairness ==
  \A p \in Procs :
    /\ \/ []<>(handle[p].pc # "repairing")
       \/ []<><<OpenRepair(p) \/ OpenFails(p)>>_vars
    /\ \/ []<>(\A n \in 1 .. Len(handle[p].rest) : ~CanWrite(p, n))
       \/ []<><<\E n \in 1 .. Len(handle[p].rest) : Write(p, n)>>_vars
    /\ \/ []<>(handle[p].pc # "written")
       \/ []<><<Return(p) \/ SyncFails(p)>>_vars

Spec == Init /\ [][Next]_vars /\ Fairness
-----------------------------------------------------------------------------
TypeOK ==
  /\ file \in Seq(Byte) /\ entries \in Seq(Seq(Byte))
  /\ disk \in Seq(Byte) /\ stable \in Nat
  /\ handle \in [Procs -> [pc : {"closed", "repairing", "ready", "writing",
                                 "written", "given up"},
                           snap : Seq(Byte), batch : {<<>>} \cup Batches,
                           rest : Seq(Byte), at : Nat,
                           sync : BOOLEAN]]
  /\ acked \subseteq [at : Nat \ {0}, batch : {BatchData(b) : b \in Batches},
                      synced : BOOLEAN]
  /\ begun \in 0 .. MaxBatches /\ crashes \in 0 .. MaxCrashes

(* FileLog implements AtomicLog: the entries are the data of the undamaged *)
(* blocks, the stable ones those on the disk.                              *)
Promise == INSTANCE AtomicLog
             WITH Value <- {BatchData(b) : b \in Batches},
                  entries <- entries, stable <- stable, acked <- acked

ImplementsAtomicLog == Promise!Spec

(* A batch whose Batch returned nil is in the log, whole and in its place, *)
(* whatever errors, crashes and repairs came after it; only a machine      *)
(* crash takes one back, and no synced one.                                *)
AckedKept == Promise!AckedKept

(* "An atomic batch": every entry a reader gets is one batch, never a part *)
(* of one or parts of two.                                                 *)
BatchesAreAtomic ==
  \A i \in DOMAIN entries : entries[i] \in {BatchData(b) : b \in Batches}

(* The backward scan agrees with the forward one on every log the writers  *)
(* leave, torn or not.                                                     *)
BackwardScanAgrees == LastCommitEnd(file) = Scan(file).committedEnd

(* Every call of Batch returns (or its process dies). *)
BatchReturns ==
  \A p \in Procs : handle[p].pc = "writing" ~>
                     handle[p].pc \in {"ready", "given up", "closed"}
=============================================================================
