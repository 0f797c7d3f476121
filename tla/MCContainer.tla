---------------------------- MODULE MCContainer ----------------------------
(***************************************************************************)
(* ParseContainer over all buffers of a few pieces, with properties that   *)
(* relate the package's separate readings of the same bytes: the           *)
(* validator, the index, the accessors of a record, and the stream scan.   *)
(***************************************************************************)
EXTENDS Container

S == INSTANCE StreamScan
R == INSTANCE Readings

(* What the buffers are made of: framing; bodies; text and levels; commits *)
(* and layout; diffs, without and with a bare BEL; layout and notes.       *)
(* Letters stand for any plain bytes, 115 and 100 for the words "shape"    *)
(* and "diff".                                                             *)
FramePieces == {<<SYN>>, <<EOT>>, <<EM>>, <<ETB>>, <<LF>>, <<RS, 120>>,
                <<SOH, 97, US, 98>>, <<GS, 103>>}
BodyPieces == {<<RS>>, <<US>>, <<120>>, <<SOH>>, <<BEL>>, <<DLE>>, <<CAN>>, <<GS>>}
TextPieces == {<<RS>>, <<STX>>, <<ETX>>, <<DLE>>, <<ETB>>, <<BEL>>, <<CAN>>, <<US>>, <<120>>}
LayoutPieces == {<<RS>>, <<SP>>, <<LF>>, <<ETB>>, <<120>>, <<US>>, <<GS>>, <<ENQ>>, <<STX, ETX>>}
DiffPieces == {<<SYN, SOH, 115, US, 100>>, <<SYN>>, <<EOT>>, <<FS, 120>>, <<GS>>,
               <<RS, 120>>, <<SUB, 121>>, <<US>>, <<ETB>>}
NotePieces == {<<SYN, SOH, 107, US>>, <<RS>>, <<120>>, <<US>>, <<LF>>, <<SP>>, <<BEL>>}
HangPieces == {<<SYN, SOH, 115, US, 100>>, <<GS>>, <<BEL>>, <<US>>}

AllPieces == {FramePieces, BodyPieces, TextPieces, LayoutPieces, DiffPieces, NotePieces}
OnlyNotes == {NotePieces}
OnlyBodies == {BodyPieces}
OnlyDiffs == {HangPieces}

(* A reference with an empty text: the validator splits it into no         *)
(* segments (validator.go:520), ParseReference into an empty one.          *)
HasEmptyReference ==
  \E p \in 0 .. (Len(buf) - 1) :
    LET q == ScanLayout(buf, p + 1, Len(buf)) IN
    /\ At(buf, p) = ENQ /\ Peek(buf, q, Len(buf)) = STX /\ Peek(buf, q + 1, Len(buf)) = ETX

(* The validator passes layout before a note (validator.go:479), value     *)
(* takes all of it but spaces for a part of the value (c0.go:389).         *)
HasLayoutBeforeNote ==
  \E p, q \in 0 .. (Len(buf) - 1) :
    /\ p < q /\ IsPlainByte(At(buf, p)) /\ At(buf, q) = BEL
    /\ Range(Slice(buf, p + 1, q)) \subseteq Layout
    /\ ~(Range(Slice(buf, p + 1, q)) \subseteq {SP})

(* Every accessor of a record of the container, and of the levels in it,   *)
(* returns: units of a positional record, pairs of a keyed one, each the   *)
(* value, level or reference its first code says; and the names of a       *)
(* header row.                                                             *)
RECURSIVE ReadsRecord(_)

ReadsFile(file) ==
  \A g \in DOMAIN file.groups :
    LET group == file.groups[g] IN
    /\ \A r \in DOMAIN group.records : ReadsRecord(group.records[r])
    /\ group.header # <<>> => Fields(group.header[1]) # {}

ReadsUnit(raw) ==
  CASE StartsWith(raw, DLE) -> \E files \in LevelOf(raw) : \A f \in DOMAIN files : ReadsFile(files[f])
    [] StartsWith(raw, ENQ) -> ParseReference(raw) # {}
    [] OTHER -> ValueOf(raw) # {}

ReadsRecord(raw) ==
  \/ IsKeyed(raw) = {TRUE} /\ \E pairs \in Pairs(raw) : \A i \in DOMAIN pairs : ReadsUnit(pairs[i].raw)
  \/ IsKeyed(raw) = {FALSE} /\ \E units \in Fields(raw) : \A i \in DOMAIN units : ReadsUnit(units[i])

(* "Value returns the logical value of unit n: ... or the plain value with *)
(* its layout trimmed" (body.go:423), and what it calls "Panics on         *)
(* malformed input" (c0.go:362): every accessor of an accepted document    *)
(* returns.                                                                *)
AccessorsReturn ==
  \A i \in DOMAIN documents :
    \A f \in DOMAIN documents[i].files : ReadsFile(documents[i].files[f])

(* That is so but for a reference with an empty text, and for a plain      *)
(* value with layout other than spaces between it and a note.              *)
RecordsReadable == HasEmptyReference \/ HasLayoutBeforeNote \/ AccessorsReturn

(* "ParseContainer validates buf and reads every document in it"           *)
(* (document.go:265): what is accepted is read.                            *)
AcceptedIsRead == phase # "failed"

(* "Validate reports the first structural error in buf, or nil when it is  *)
(* well-formed" (validator.go:24): it returns.                             *)
ValidateReturns == phase # "loops"

(* Where it is not, a dead record stands before a header row (the          *)
(* validator takes it for what may precede one, the index for an item), or *)
(* layout stands between a value of a heading and a note.                  *)
DeadRecord(p) == At(buf, p) = BEL /\ PeekBehind(buf, p, Len(buf)) = RS

FailsOnlyOnComment ==
  phase = "failed" =>
    \/ \E p, q \in 0 .. (Len(buf) - 1) :
         p < q /\ DeadRecord(p) /\ StartsHeaderRow(buf, q, Len(buf))
    \/ HasLayoutBeforeNote

(* What is accepted, whether a raw region follows or not. *)
Accepted == phase \in {"read", "done"}
HasRawRegion == \E p \in 0 .. (Len(buf) - 1) : At(buf, p) = EM

(* The stream scan of an accepted buffer finds no damage and ends outside  *)
(* text and levels.                                                        *)
AcceptedIsUndamaged ==
  Accepted /\ ~HasRawRegion =>
    LET s == S!Scan(buf) IN s.damaged = {} /\ ~s.inText /\ s.depth = 0

Unmarked(log) == FlattenSeq(S!UndamagedBlocks(log))

FilesIn(log) == {doc.files : doc \in NewDocument(log, 0)}

Positions0 == 0 .. (Len(buf) - 1)
Restarts == \E p \in Positions0 : p > 0 /\ At(buf, p) = SYN

(* A commit between GS and the next group (without it, a deeper group), or *)
(* with its payload between a record and a note.                           *)
CommitParts ==
  \/ \E p \in Positions0 : At(buf, p) = GS /\ PeekBehind(buf, p, Len(buf)) = ETB
  \/ \E p, q \in Positions0 :
       /\ p < q /\ At(buf, p) = ETB /\ At(buf, q) = BEL
       /\ \A r \in (p + 1) .. (q - 1) : IsPlainByte(At(buf, r)) \/ IsLayout(At(buf, r))

(* A log has two readings: the document in its committed region, markers   *)
(* in place, and StreamReader.Document, which cuts markers and payloads    *)
(* out first.  They have the same files, groups and records, where no note *)
(* stands behind a commit (it becomes one of the record before it).        *)
CommitsAreTransparent ==
  Accepted /\ ~HasRawRegion /\ ~Restarts /\ ~CommitParts =>
    LET committed == Slice(buf, 0, S!Scan(buf).committedEnd)
        agree(logs) == logs[1] = {} \/ logs[2] = logs[1]
    IN  agree([i \in 1 .. 2 |-> FilesIn(IF i = 1 THEN committed ELSE Unmarked(buf))])

(* Two accepted buffers, the second beginning with SYN, are accepted as    *)
(* one.  Not when the first holds a diff: the validator's flag is never    *)
(* taken back, and what follows is held to be a diff too.                  *)
Composes(k) ==
  LET parts == <<Slice(buf, 0, k), Slice(buf, k, Len(buf))>>
      apart(states) == ~states[1].diff /\ \A i \in 1 .. 2 : ~V!Failed(states[i])
  IN  /\ At(buf, k) = SYN /\ ~Contains(parts[1], EM)
      /\ apart([i \in 1 .. 2 |-> V!Validated(parts[i])])

DocumentsCompose == phase = "rejected" => \A k \in 1 .. (Len(buf) - 1) : ~Composes(k)

(* Layout behind a name (or elsewhere before a code), or where a buffer    *)
(* with references ends.                                                   *)
LayoutBeforeCode ==
  \E p \in Positions0 :
    LET next == Peek(buf, p + 1, Len(buf)) IN
    IsLayout(At(buf, p)) /\ (IsControl(next) \/ (next = None /\ Contains(buf, ENQ)))

(* "A canonical unit: well-formed, no layout, one spelling per value, keys *)
(* unique within a keyed record, no framing, no comments" (validator.go:28) *)
(* is what the builder writes for what it reads as.  Not so where layout   *)
(* stands behind a key or a reference, which is not noticed, where a       *)
(* reference has an empty text, and where a file without a name has a line. *)
CanonicalIsOneSpelling ==
  phase = "done" /\ canonical /\ ~LayoutBeforeCode /\ ~HasEmptyReference =>
    \A i \in DOMAIN documents :
      \E files \in R!Reads(documents[i].files) : buf \in {R!Written(files), <<FS>> \o R!Written(files)}
=============================================================================
