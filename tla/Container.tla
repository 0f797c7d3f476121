----------------------------- MODULE Container -----------------------------
(***************************************************************************)
(* ParseContainer (document.go): a buffer is validated, then read document *)
(* by document, then its tail is taken.  Validation and reading are two    *)
(* separate descents over the same bytes: what the first accepts, the      *)
(* second has to read.  One step of the machine is one turn of the loop.   *)
(***************************************************************************)
EXTENDS Document

CONSTANTS Vocabularies, \* sets of runs of bytes; one of them makes a buffer
          MaxPieces     \* bound on how many of its runs make it

ASSUME VocabulariesAssumption == \A pieces \in Vocabularies : pieces \subseteq Seq(Byte)
ASSUME MaxPiecesAssumption == MaxPieces \in Nat

V == INSTANCE Validator

VARIABLES buf,        \* the file or message
          pos,        \* where the next document begins
          documents,  \* the documents read
          tail,       \* the bytes behind EM
          canonical,  \* what IsCanonical says of the buffer
          phase       \* where ParseContainer is, or how it returned

vars == <<buf, pos, documents, tail, canonical, phase>>

Buffers == {FlattenSeq(s) : s \in UNION {[1 .. n -> pieces] :
                                      n \in 0 .. MaxPieces, pieces \in Vocabularies}}

Init == /\ buf \in Buffers
        /\ pos = 0
        /\ documents = <<>>
        /\ tail = <<>>
        /\ canonical = FALSE
        /\ phase = "validate"
-----------------------------------------------------------------------------
(* The validator's verdict, if it comes to one. *)
Verdict(at) == CASE at = V!Stuck -> "loops"
                 [] at = Malformed -> "rejected"
                 [] OTHER -> "read"

Check == /\ phase = "validate"
         /\ \E v \in {V!Validated(buf)} : /\ phase' = Verdict(v.at)
                                        /\ canonical' = V!CanonicalEnd(v)
         /\ pos' = ScanLayout(buf, 0, Len(buf))
         /\ UNCHANGED <<buf, documents, tail>>

AtDocument == phase = "read" /\ Peek(buf, pos, Len(buf)) \notin {None, EM}

ReadDocument_SkipsByte ==
  /\ AtDocument
  /\ \E doc \in NewDocument(buf, pos) :
       /\ documents' = Append(documents, doc)
       /\ pos' = ScanLayout(buf, doc.stop, Len(buf)) + 1
  /\ UNCHANGED <<buf, tail, canonical, phase>>

ReadDocument ==
  /\ AtDocument
  /\ \E doc \in NewDocument(buf, pos) :
       LET next == ScanLayout(buf, doc.stop, Len(buf)) IN
       /\ documents' = Append(documents, doc)
       /\ pos' = next
       /\ phase' = IF Peek(buf, next, Len(buf)) \in {SYN, EM, None} THEN "read"
                   ELSE "failed"
  /\ UNCHANGED <<buf, tail, canonical>>

(* A scanner panics while a document is read; ParseContainer returns that. *)
ReadFails ==
  /\ AtDocument
  /\ NewDocument(buf, pos) = {}
  /\ phase' = "failed"
  /\ UNCHANGED <<buf, pos, documents, tail, canonical>>

ReadTail_NoBreak ==
  /\ phase = "read"
  /\ Peek(buf, pos, Len(buf)) = EM
  /\ tail' = Slice(buf, pos + 1, Len(buf))
  /\ UNCHANGED <<buf, pos, documents, canonical, phase>>

ReadTail ==
  /\ phase = "read"
  /\ Peek(buf, pos, Len(buf)) = EM
  /\ tail' = Slice(buf, pos + 1, Len(buf))
  /\ phase' = "done"
  /\ UNCHANGED <<buf, pos, documents, canonical>>

ReadEnd ==
  /\ phase = "read"
  /\ Peek(buf, pos, Len(buf)) = None
  /\ phase' = "done"
  /\ UNCHANGED <<buf, pos, documents, tail, canonical>>

Next == Check \/ ReadDocument \/ ReadFails \/ ReadTail \/ ReadEnd

Spec == Init /\ [][Next]_vars
-----------------------------------------------------------------------------
TypeOK == /\ buf \in Seq(Byte)
          /\ pos \in 0 .. Len(buf)
          /\ \A i \in DOMAIN documents : documents[i].files \in Seq(FileType)
          /\ tail \in Seq(Byte)
          /\ canonical => phase \in {"read", "failed", "done"}
          /\ phase \in {"validate", "read", "loops", "rejected", "failed", "done"}

(* Every turn of ParseContainer's loop leaves less of the buffer, so it    *)
(* ends: what is not read yet never stays as long.                         *)
LoopAdvances == [][phase = "read" => pos' > pos \/ phase' # "read"]_vars

(* The documents lie in the buffer one behind the other, and between them, *)
(* before the first and behind the last there is nothing but layout (and   *)
(* the raw region): no byte is read twice or left out.                     *)
OnlyLayout(i, j) == \A q \in i .. (j - 1) : IsLayout(At(buf, q))

DocumentsTile ==
  /\ \A i \in DOMAIN documents :
       LET from == IF i = 1 THEN 0 ELSE documents[i - 1].stop IN
       /\ from <= documents[i].start
       /\ OnlyLayout(from, documents[i].start)
       /\ documents[i].body.start \in documents[i].start .. documents[i].body.stop
       /\ documents[i].body.stop <= documents[i].stop
  /\ phase = "done" =>
       LET behind == IF documents = <<>> THEN 0 ELSE Last(documents).stop
           end == Len(buf) - Len(tail)
       IN  \/ tail = <<>> /\ OnlyLayout(behind, end)
           \/ At(buf, end - 1) = EM /\ OnlyLayout(behind, end - 1)

(* The index of a body accounts for all of it: no record, group or file    *)
(* the validator accepted is left out.  (A diff body is not indexed.)      *)
IsDiff(doc) == \E i \in DOMAIN doc.heading :
                 doc.heading[i].key = V!ShapeKey /\ doc.heading[i].value = V!DiffShape

NothingDropped ==
  (\A i \in DOMAIN documents : ~IsDiff(documents[i])) =>
    \A i \in DOMAIN documents : documents[i].indexed = documents[i].body.stop
=============================================================================
