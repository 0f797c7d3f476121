----------------------------- MODULE Tokenizer -----------------------------
(***************************************************************************)
(* Tokenizer (tokenizer.go): one call of Next is one step.  Tokenize calls *)
(* Next until it answers with the end or an error; another caller may go   *)
(* on calling.                                                             *)
(***************************************************************************)
EXTENDS C0Scan

CONSTANTS Pieces,     \* the runs of bytes that buffers are made of
          MaxPieces   \* bound on how many of them make a buffer

ASSUME PiecesAssumption == Pieces \subseteq Seq(Byte)
ASSUME MaxPiecesAssumption == MaxPieces \in Nat

V == INSTANCE Validator
S == INSTANCE StreamScan

VARIABLES buf,        \* the buffer
          pos,        \* where the next token begins
          tailStart,  \* None while scanning is incomplete
          toks,       \* the tokens so far
          answer      \* of the last call: "token", "end" or "error"

vars == <<buf, pos, tailStart, toks, answer>>

Buffers == {FlattenSeq(s) : s \in UNION {[1 .. n -> Pieces] : n \in 0 .. MaxPieces}}

Init == /\ buf \in Buffers
        /\ pos = 0
        /\ tailStart = None
        /\ toks = <<>>
        /\ answer = "token"

(* A code's token has the code for its kind; runs and texts have others. *)
Data == 256   Blank == 257   Text == 258

Kinds == {Data, Blank, Text} \cup (Assigned \ {STX, ETX})
TokenType == [kind : Kinds, start : Nat, end : Nat]

Code == Peek(buf, pos, Len(buf))

(* A plain run ends before its trailing spaces. *)
DataEnd_KeepsSpaces(start) == ScanPlain(buf, start + 1, Len(buf))

DataEnd(start) ==
  LET end == ScanPlain(buf, start + 1, Len(buf)) IN
  Max({q \in (start + 1) .. end : q = start + 1 \/ At(buf, q - 1) # SP})

Emit(kind, end) == /\ toks' = Append(toks, [kind |-> kind, start |-> pos, end |-> end])
                   /\ pos' = end
                   /\ answer' = "token"
                   /\ UNCHANGED buf

More == tailStart = None /\ pos < Len(buf)
-----------------------------------------------------------------------------
NextData_SkipsSpaces ==
  /\ More
  /\ IsPlainByte(Code) /\ Code # SP
  /\ toks' = Append(toks, [kind |-> Data, start |-> pos, end |-> DataEnd(pos)])
  /\ pos' = ScanPlain(buf, pos + 1, Len(buf))
  /\ answer' = "token"
  /\ UNCHANGED <<buf, tailStart>>

NextData == /\ More
            /\ IsPlainByte(Code) /\ Code # SP
            /\ Emit(Data, DataEnd(pos))
            /\ UNCHANGED tailStart

NextLayout == /\ More
              /\ IsLayout(Code)
              /\ Emit(Blank, ScanLayout(buf, pos, Len(buf)))
              /\ UNCHANGED tailStart

NextText == /\ More
            /\ Code = STX
            /\ ScanText(buf, pos, Len(buf)) # Malformed
            /\ Emit(Text, ScanText(buf, pos, Len(buf)))
            /\ UNCHANGED tailStart

NextEM_GoesOn == /\ More
                 /\ Code = EM
                 /\ Emit(EM, pos + 1)
                 /\ UNCHANGED tailStart

NextEM == /\ More
          /\ Code = EM
          /\ Emit(EM, pos + 1)
          /\ tailStart' = pos + 1

NextCode == /\ More
            /\ Code \in Assigned \ {STX, ETX, EM}
            /\ Emit(Code, pos + 1)
            /\ UNCHANGED tailStart

Wrong == /\ More
         /\ \/ Code = STX /\ ScanText(buf, pos, Len(buf)) = Malformed
            \/ Code = ETX
            \/ IsControl(Code) /\ Code \notin Assigned \cup Layout

NextFails_SkipsByte == /\ Wrong
                       /\ answer' = "error"
                       /\ pos' = pos + 1
                       /\ UNCHANGED <<buf, tailStart, toks>>

NextFails_StaysSilent == Wrong /\ UNCHANGED vars

(* Text that does not close, ETX outside text, a code without a meaning.   *)
(* The position stays: a further call answers the same.                    *)
NextFails == /\ Wrong
             /\ answer' = "error"
             /\ UNCHANGED <<buf, pos, tailStart, toks>>

NextEnd == /\ ~More
           /\ tailStart' = IF tailStart = None THEN Len(buf) ELSE tailStart
           /\ answer' = "end"
           /\ UNCHANGED <<buf, pos, toks>>

Next == \/ NextData \/ NextLayout \/ NextText \/ NextEM \/ NextCode
        \/ NextFails \/ NextEnd

(* Tokenize's loop calls until it is answered. *)
Spec == Init /\ [][Next]_vars /\ WF_vars(Next)
-----------------------------------------------------------------------------
TypeOK == /\ toks \in Seq(TokenType)
          /\ pos \in 0 .. Len(buf)
          /\ tailStart \in {None} \cup 0 .. Len(buf)
          /\ answer \in {"token", "end", "error"}

(* The tokens are the buffer up to pos, one behind the other: no byte is   *)
(* in two of them or in none.                                              *)
TokensTile ==
  \A i \in DOMAIN toks :
    /\ toks[i].start = IF i = 1 THEN 0 ELSE toks[i - 1].end
    /\ toks[i].start < toks[i].end
    /\ i = Len(toks) => toks[i].end = pos

(* "Layout next to a code is its own token" (tokenizer.go:80): a data run  *)
(* has no layout at its edges and a layout run is all of it, so no two     *)
(* runs of a kind meet.                                                    *)
RunsAreWhole ==
  \A i \in DOMAIN toks :
    LET bytes == Slice(buf, toks[i].start, toks[i].end)
        next == Peek(buf, toks[i].end, Len(buf))
    IN  /\ toks[i].kind = Data =>
             /\ bytes = Trim(bytes)
             /\ IsControl(next) \/ next \in Layout \cup {None}
        /\ toks[i].kind = Blank => Trim(bytes) = <<>> /\ ~IsLayout(next)

(* A place in a level behind a comment of a heading: the validator skips   *)
(* the comments of a heading (validator.go:119), it does not look at what  *)
(* is in them.                                                             *)
InHeadingComment(p) ==
  /\ \E q \in 0 .. (p - 1) :
       At(buf, q) = BEL /\ \E r \in 0 .. (q - 1) : At(buf, r) = SYN
  /\ S!Scan(Slice(buf, 0, p)).depth > 0

(* What the validator accepts has tokens to its end, except for a code     *)
(* without a meaning that it skipped, and before the tail they are what a  *)
(* stream reader sees: every ETB token is a commit, every commit a token,  *)
(* and no text or level is open where the tail begins.                     *)
AcceptedHasTokens ==
  V!Validate(buf) =>
    /\ answer = "error" => Code # STX /\ InHeadingComment(pos)
    /\ answer = "end" =>
         LET scan == S!Scan(Slice(buf, 0, tailStart)) IN
         /\ {t.start : t \in {u \in Range(toks) : u.kind = ETB}}
              = {block.stop : block \in Range(scan.blocks)}
         /\ ~scan.inText /\ scan.depth = 0 /\ scan.damaged = {}

(* Whatever a call answered that is no token, it answers for good. *)
AnswerIsFinal == [][answer # "token" => UNCHANGED vars]_vars

(* Tokenize returns. *)
TokenizeReturns == <>(answer # "token")
=============================================================================
