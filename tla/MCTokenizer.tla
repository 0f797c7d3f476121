---------------------------- MODULE MCTokenizer ----------------------------
(***************************************************************************)
(* The tokenizer over all buffers of a few bytes: a letter, a space and    *)
(* other layout, text and its escape, EM, a commit, a record, the end of a *)
(* level, ACK, which has no meaning, and a comment in a heading.           *)
(***************************************************************************)
EXTENDS Tokenizer

ACK == 6
BytePieces == {<<120>>, <<SP>>, <<HT>>, <<STX>>, <<ETX>>, <<DLE>>, <<EM>>, <<ETB>>,
               <<RS>>, <<CAN>>, <<ACK>>, <<SYN, BEL>>}
=============================================================================
