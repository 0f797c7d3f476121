----------------------------- MODULE MCFileLog -----------------------------
(***************************************************************************)
(* FileLog with the batches its methods build: a start; a group; a record  *)
(* whose text holds an (escaped) ETB; and, of Batch, a note before a       *)
(* record with a nested level, and nothing at all, which commits an empty  *)
(* block.  A group or a header whose name is none builds no batch.         *)
(***************************************************************************)
EXTENDS FileLog

CONSTANTS P1, P2   \* processes

Letter == <<120>>

Starts == Start(<<115>>, <<116>>)
Groups == Group(Letter, <<>>) \cup Group(<<ETB>>, <<>>) \cup Header(<<Letter, <<US>>>>)
Texts == Record(<<<<ETB>>>>)
Levels ==
  CommitBytes(B!PutCAN(B!Record(B!OpenLevel(B!Note(B!NewBuilder, Letter)), <<>>)))
Nothing == CommitBytes(B!NewBuilder)
Pair == CommitBytes(B!Record(B!Record(B!NewBuilder, <<Letter>>), <<Letter>>))

AllBatches == Starts \cup Groups \cup Texts \cup Levels \cup Nothing
PairBatches == Record(<<Letter>>) \cup Pair

OneProc == {P1}
TwoProcs == {P1, P2}
=============================================================================
