-------------------------- MODULE TokenizerProofs --------------------------
(***************************************************************************)
(* What holds of the tokenizer for every set of pieces and every bound:    *)
(* types, that the tokens tile the buffer, that runs are whole, and that   *)
(* an answer that is no token is final.                                    *)
(*                                                                         *)
(* The last needs to know why an answer was given: an error only while the *)
(* byte at pos is one no token begins with (Wrong), the end only once the  *)
(* tail is known.  Then no other action is enabled.                        *)
(***************************************************************************)
EXTENDS Tokenizer, C0ScanProofs

AnswerHasReason == /\ answer = "error" => Wrong
                   /\ answer = "end" => tailStart # None

(* One token's part of TokensTile and of RunsAreWhole. *)
TilesAt(ts, p, i) == /\ ts[i].start = IF i = 1 THEN 0 ELSE ts[i - 1].end
                     /\ ts[i].start < ts[i].end
                     /\ i = Len(ts) => ts[i].end = p

IsWhole(t) ==
  LET bytes == Slice(buf, t.start, t.end)
      next == Peek(buf, t.end, Len(buf))
  IN  /\ t.kind = Data =>
           /\ bytes = Trim(bytes)
           /\ IsControl(next) \/ next \in Layout \cup {None}
      /\ t.kind = Blank => Trim(bytes) = <<>> /\ ~IsLayout(next)

IInv == /\ buf \in Seq(Byte)
        /\ TypeOK
        /\ toks = <<>> => pos = 0
        /\ TokensTile
        /\ RunsAreWhole
        /\ AnswerHasReason
-----------------------------------------------------------------------------
LEMMA BuffersAreBytes == Buffers \subseteq Seq(Byte)
<1> SUFFICES ASSUME NEW n \in 0 .. MaxPieces, NEW s \in [1 .. n -> Pieces]
             PROVE  FlattenSeq(s) \in Seq(Byte)
  BY DEF Buffers
<1>1. n \in Nat /\ s \in [1 .. n -> Seq(Byte)]
  BY PiecesAssumption, MaxPiecesAssumption
<1> QED
  BY <1>1, FlattenSeqType

(* A run that begins and ends with a byte that is no layout is trimmed. *)
LEMMA TrimKeeps ==
  ASSUME NEW s \in Seq(Byte), s # <<>>, ~IsLayout(s[1]), ~IsLayout(s[Len(s)])
  PROVE  Trim(s) = s
<1> DEFINE solid == {i \in DOMAIN s : ~IsLayout(s[i])}
<1>1. /\ solid \subseteq Nat /\ 1 \in solid /\ Len(s) \in solid
      /\ Len(s) \in Nat /\ \A i \in solid : 1 <= i /\ i <= Len(s)
  OBVIOUS
<1> HIDE DEF solid
<1>2. Min(solid) = 1
  <2>1. solid # {}
    BY <1>1
  <2> DEFINE v == Min(solid)
  <2>2. v \in solid /\ \A k \in solid : v <= k
    BY <1>1, <2>1, MinNat
  <2> HIDE DEF v
  <2>3. v \in Nat /\ 1 <= v /\ v <= 1
    BY <1>1, <2>2
  <2> QED
    BY <2>3 DEF v
<1>3. Max(solid) = Len(s)
  <2>1. solid # {} /\ \A k \in solid : k <= Len(s)
    BY <1>1
  <2> DEFINE v == Max(solid)
  <2>2. v \in solid /\ \A k \in solid : k <= v
    BY <1>1, <2>1, MaxNat
  <2> HIDE DEF v
  <2>3. v \in Nat /\ Len(s) <= v /\ v <= Len(s)
    BY <1>1, <2>2
  <2> QED
    BY <1>1, <2>3 DEF v
<1>4. SubSeq(s, 1, Len(s)) = s
  OBVIOUS
<1> QED
  BY <1>1, <1>2, <1>3, <1>4 DEF Trim, solid

LEMMA TrimDrops ==
  ASSUME NEW s \in Seq(Byte), \A i \in DOMAIN s : IsLayout(s[i])
  PROVE  Trim(s) = <<>>
BY DEF Trim

(* Where a data run ends: behind its last byte that is no space, and what  *)
(* follows is a space or no plain byte.                                    *)
LEMMA DataEndStops ==
  ASSUME buf \in Seq(Byte), NEW p \in Nat, p < Len(buf)
  PROVE  LET q == DataEnd(p) IN
         /\ q \in (p + 1) .. Len(buf)
         /\ q = p + 1 \/ (At(buf, q - 1) # SP /\ IsPlainByte(At(buf, q - 1)))
         /\ q < Len(buf) => At(buf, q) = SP \/ ~IsPlainByte(At(buf, q))
<1> DEFINE end == ScanPlain(buf, p + 1, Len(buf))
           T == {q \in (p + 1) .. end : q = p + 1 \/ At(buf, q - 1) # SP}
<1>1. /\ p + 1 \in Nat /\ end \in (p + 1) .. Len(buf)
      /\ end < Len(buf) => ~IsPlainByte(At(buf, end))
      /\ \A q \in (p + 1) .. (end - 1) : IsPlainByte(At(buf, q))
  BY ScanPlainStops
<1> HIDE DEF end
<1>2. Max(T) \in T /\ \A q \in T : q <= Max(T)
  <2>1. T \subseteq Nat /\ p + 1 \in T /\ end \in Nat /\ \A q \in T : q <= end
    BY <1>1
  <2> HIDE DEF T
  <2> QED
    BY <2>1, MaxNat
<1>3. DataEnd(p) = Max(T)
  BY DEF DataEnd, end
<1> DEFINE q == Max(T)
<1>4. q \in (p + 1) .. end /\ (q = p + 1 \/ At(buf, q - 1) # SP)
  BY <1>2
<1>5. q + 1 \in (p + 1) .. end => q + 1 \notin T
  BY <1>2
<1>6. q < end => At(buf, q) = SP
  BY <1>1, <1>4, <1>5
<1> HIDE DEF q, T
<1>7. q > p + 1 => q - 1 \in (p + 1) .. (end - 1)
  BY <1>1, <1>4
<1>8. q = end \/ q < end
  BY <1>1, <1>4
<1>9. q = p + 1 \/ (At(buf, q - 1) # SP /\ IsPlainByte(At(buf, q - 1)))
  BY <1>1, <1>4, <1>7
<1>10. q < Len(buf) => At(buf, q) = SP \/ ~IsPlainByte(At(buf, q))
  BY <1>1, <1>4, <1>6, <1>8
<1>11. q \in (p + 1) .. Len(buf)
  BY <1>1, <1>4
<1> QED
  BY <1>3, <1>9, <1>10, <1>11 DEF q
-----------------------------------------------------------------------------
(* A data run, and a layout run, that begins at p. *)
LEMMA DataIsWhole ==
  ASSUME buf \in Seq(Byte), NEW p \in Nat, p < Len(buf),
         IsPlainByte(At(buf, p)), At(buf, p) # SP
  PROVE  IsWhole([kind |-> Data, start |-> p, end |-> DataEnd(p)])
<1> DEFINE q == DataEnd(p)
           s == Slice(buf, p, q)
<1>1. /\ q \in (p + 1) .. Len(buf)
      /\ q = p + 1 \/ (At(buf, q - 1) # SP /\ IsPlainByte(At(buf, q - 1)))
      /\ q < Len(buf) => At(buf, q) = SP \/ ~IsPlainByte(At(buf, q))
  BY DataEndStops
<1> HIDE DEF q
<1>2. /\ s \in Seq(Byte) /\ Len(s) = q - p
      /\ \A k \in 1 .. (q - p) : s[k] = At(buf, p + k - 1)
  <2>1. q \in Nat /\ p <= q /\ q <= Len(buf)
    BY <1>1
  <2> QED
    BY <2>1, SliceBytes
<1>3. \A b \in Byte : IsPlainByte(b) /\ b # SP => ~IsLayout(b)
  BY DEF IsPlainByte, IsLayout, Layout, SP, HT, LF, CR, Byte
<1>4. \A i \in 0 .. (Len(buf) - 1) : At(buf, i) \in Byte
  BY DEF At
<1>5. s # <<>> /\ ~IsLayout(s[1]) /\ ~IsLayout(s[Len(s)])
  <2>1. Len(s) > 0 /\ s[1] = At(buf, p) /\ s[Len(s)] = At(buf, q - 1)
    BY <1>1, <1>2
  <2>2. At(buf, p) \in Byte /\ At(buf, q - 1) \in Byte
    BY <1>1, <1>4
  <2>3. At(buf, q - 1) # SP /\ IsPlainByte(At(buf, q - 1))
    BY <1>1
  <2> QED
    BY <1>3, <2>1, <2>2, <2>3
<1>6. Trim(s) = s
  BY <1>2, <1>5, TrimKeeps
<1>7. Peek(buf, q, Len(buf)) \in Layout \cup {None} \/ IsControl(Peek(buf, q, Len(buf)))
  <2>1. CASE q = Len(buf)
    BY <2>1 DEF Peek
  <2>2. CASE q < Len(buf)
    <3>1. Peek(buf, q, Len(buf)) = At(buf, q) /\ At(buf, q) \in Byte
      BY <1>1, <1>4, <2>2 DEF Peek
    <3>2. SP \in Layout /\ \A b \in Byte : ~IsPlainByte(b) => IsControl(b)
      BY DEF Layout, IsPlainByte, IsControl, Byte
    <3> QED
      BY <1>1, <2>2, <3>1, <3>2
  <2> QED
    BY <1>1, <2>1, <2>2
<1>8. Data # Blank
  BY DEF Data, Blank
<1> HIDE DEF s
<1> QED
  BY <1>6, <1>7, <1>8 DEF IsWhole, q, s

LEMMA BlankIsWhole ==
  ASSUME buf \in Seq(Byte), NEW p \in Nat, p < Len(buf), IsLayout(At(buf, p))
  PROVE  /\ ScanLayout(buf, p, Len(buf)) \in (p + 1) .. Len(buf)
         /\ IsWhole([kind |-> Blank, start |-> p, end |-> ScanLayout(buf, p, Len(buf))])
<1> DEFINE q == ScanLayout(buf, p, Len(buf))
           s == Slice(buf, p, q)
<1>1. /\ q \in p .. Len(buf)
      /\ q < Len(buf) => ~IsLayout(At(buf, q))
      /\ \A k \in p .. (q - 1) : IsLayout(At(buf, k))
  BY ScanLayoutStops
<1> HIDE DEF q
<1>2. q \in (p + 1) .. Len(buf)
  BY <1>1
<1>3. /\ s \in Seq(Byte) /\ Len(s) = q - p
      /\ \A k \in 1 .. (q - p) : s[k] = At(buf, p + k - 1)
  <2>1. q \in Nat /\ p <= q /\ q <= Len(buf)
    BY <1>1
  <2> QED
    BY <2>1, SliceBytes
<1>4. \A k \in DOMAIN s : IsLayout(s[k])
  BY <1>1, <1>3
<1>5. Trim(s) = <<>>
  BY <1>3, <1>4, TrimDrops
<1>6. ~IsLayout(Peek(buf, q, Len(buf)))
  <2>1. ~IsLayout(None)
    BY DEF None, IsLayout, Layout, SP, HT, LF, CR
  <2> QED
    BY <1>1, <2>1 DEF Peek
<1>7. Data # Blank
  BY DEF Data, Blank
<1> HIDE DEF s
<1> QED
  BY <1>2, <1>5, <1>6, <1>7 DEF IsWhole, q, s

(* Every step that answers with a token. *)
LEMMA EmitKeeps ==
  ASSUME IInv, More, NEW kind \in Kinds, NEW end \in (pos + 1) .. Len(buf),
         Emit(kind, end), tailStart' \in {tailStart, end},
         IsWhole([kind |-> kind, start |-> pos, end |-> end])
  PROVE  IInv'
<1> DEFINE t == [kind |-> kind, start |-> pos, end |-> end]
           n == Len(toks)
<1>1. /\ buf \in Seq(Byte) /\ toks \in Seq(TokenType) /\ pos \in 0 .. Len(buf)
      /\ toks' = Append(toks, t) /\ pos' = end /\ answer' = "token" /\ buf' = buf
      /\ Len(buf) \in Nat
  BY DEF IInv, TypeOK, Emit
<1>2. t \in TokenType
  BY <1>1 DEF TokenType
<1>3. /\ toks' \in Seq(TokenType) /\ n \in Nat /\ Len(toks') = n + 1
      /\ DOMAIN toks' = 1 .. (n + 1) /\ DOMAIN toks = 1 .. n
      /\ \A i \in 1 .. n : toks'[i] = toks[i]
      /\ toks'[n + 1] = t
  BY <1>1, <1>2
<1>t. t.kind = kind /\ t.start = pos /\ t.end = end
  OBVIOUS
<1> HIDE DEF t
<1>4. TypeOK'
  BY <1>1, <1>3 DEF IInv, TypeOK
<1>5. TokensTile'
  <2>1. \A i \in 1 .. n : TilesAt(toks, pos, i)
    BY <1>3 DEF IInv, TokensTile, TilesAt
  <2>2. ASSUME NEW i \in 1 .. n PROVE TilesAt(toks', end, i)
    <3>1. i # 1 => i - 1 \in 1 .. n
      BY <1>3
    <3>2. i # Len(toks')
      BY <1>3
    <3> QED
      BY <1>3, <2>1, <3>1, <3>2 DEF TilesAt
  <2>3. TilesAt(toks', end, n + 1)
    <3>1. n = 0 => pos = 0
      BY <1>1 DEF IInv
    <3>2. n # 0 => n \in 1 .. n /\ n + 1 # 1 /\ (n + 1) - 1 = n
      BY <1>3
    <3>3. n # 0 => toks[n].end = pos /\ toks'[n] = toks[n]
      BY <1>3, <2>1, <3>2 DEF TilesAt
    <3>4. pos < end
      BY <1>1
    <3> QED
      BY <1>3, <1>t, <3>1, <3>2, <3>3, <3>4 DEF TilesAt
  <2>4. \A i \in 1 .. (n + 1) : TilesAt(toks', end, i)
    BY <1>3, <2>2, <2>3
  <2> QED
    BY <1>1, <1>3, <2>4 DEF TokensTile, TilesAt
<1>6. RunsAreWhole'
  <2>1. \A i \in 1 .. n : IsWhole(toks[i])
    BY <1>3 DEF IInv, RunsAreWhole, IsWhole
  <2>2. \A i \in 1 .. (n + 1) : IsWhole(toks'[i])
    BY <1>3, <2>1 DEF t
  <2> QED
    BY <1>1, <1>3, <2>2 DEF RunsAreWhole, IsWhole
<1>7. toks' # <<>>
  BY <1>3
<1> QED
  BY <1>1, <1>4, <1>5, <1>6, <1>7 DEF IInv, AnswerHasReason

LEMMA CodeIsByte == IInv /\ More => /\ pos \in Nat /\ pos < Len(buf) /\ Len(buf) \in Nat
                                    /\ Code = At(buf, pos) /\ Code \in Byte
BY DEF IInv, TypeOK, More, Code, Peek, At

(* The bytes that begin a token, and those that do not, are told apart. *)
LEMMA CodesDiffer ==
  /\ \A b \in Byte : IsPlainByte(b) /\ b # SP => b \notin Assigned \cup Layout /\ ~IsControl(b)
  /\ \A b \in Layout : b \notin Assigned
  /\ STX # ETX /\ STX # EM /\ ETX # EM /\ STX \in Assigned /\ ETX \in Assigned
  /\ EM \in Assigned \ {STX, ETX}
  /\ \A b \in Assigned : b \notin Layout /\ ~IsPlainByte(b)
BY DEF Assigned, Layout, IsPlainByte, IsControl, Byte, SOH, STX, ETX, EOT, ENQ, BEL, HT,
       LF, CR, DLE, SYN, ETB, CAN, EM, SUB, FS, GS, RS, US, SP

LEMMA KindsDiffer == /\ Data \in Kinds /\ Blank \in Kinds /\ Text \in Kinds
                     /\ Assigned \ {STX, ETX} \subseteq Kinds
                     /\ Text # Data /\ Text # Blank
                     /\ Data \notin Assigned /\ Blank \notin Assigned
BY DEF Kinds, Data, Blank, Text, Assigned, SOH, STX, ETX, EOT, ENQ, BEL, HT,
       LF, CR, DLE, SYN, ETB, CAN, EM, SUB, FS, GS, RS, US, SP

LEMMA NextKeeps == IInv /\ [Next]_vars => IInv'
<1> SUFFICES ASSUME IInv, [Next]_vars PROVE IInv'
  OBVIOUS
<1>1. CASE NextData
  <2>1. More /\ IsPlainByte(Code) /\ Code # SP /\ Emit(Data, DataEnd(pos)) /\ tailStart' = tailStart
    BY <1>1 DEF NextData
  <2>2. pos \in Nat /\ pos < Len(buf) /\ Code = At(buf, pos) /\ buf \in Seq(Byte)
    BY <2>1, CodeIsByte DEF IInv
  <2>3. DataEnd(pos) \in (pos + 1) .. Len(buf)
    BY <2>2, DataEndStops
  <2>4. IsWhole([kind |-> Data, start |-> pos, end |-> DataEnd(pos)])
    BY <2>1, <2>2, DataIsWhole
  <2> QED
    BY <2>1, <2>3, <2>4, KindsDiffer, EmitKeeps
<1>2. CASE NextLayout
  <2>1. /\ More /\ IsLayout(Code) /\ Emit(Blank, ScanLayout(buf, pos, Len(buf)))
        /\ tailStart' = tailStart
    BY <1>2 DEF NextLayout
  <2>2. pos \in Nat /\ pos < Len(buf) /\ Code = At(buf, pos) /\ buf \in Seq(Byte)
    BY <2>1, CodeIsByte DEF IInv
  <2>3. /\ ScanLayout(buf, pos, Len(buf)) \in (pos + 1) .. Len(buf)
        /\ IsWhole([kind |-> Blank, start |-> pos, end |-> ScanLayout(buf, pos, Len(buf))])
    BY <2>1, <2>2, BlankIsWhole
  <2> QED
    BY <2>1, <2>3, KindsDiffer, EmitKeeps
<1>3. CASE NextText
  <2> DEFINE e == ScanText(buf, pos, Len(buf))
  <2>1. More /\ e # Malformed /\ Emit(Text, e) /\ tailStart' = tailStart
    BY <1>3 DEF NextText
  <2>2. pos \in Nat /\ pos <= Len(buf) /\ Len(buf) \in Nat
    BY <2>1, CodeIsByte
  <2>3. e \in (pos + 1) .. Len(buf)
    <3>1. e \in {Malformed} \cup (pos + 2) .. Len(buf)
      BY <2>2, ScanTextStops
    <3> QED
      BY <2>1, <2>2, <3>1
  <2>4. IsWhole([kind |-> Text, start |-> pos, end |-> e])
    BY KindsDiffer DEF IsWhole
  <2> QED
    BY <2>1, <2>3, <2>4, KindsDiffer, EmitKeeps
<1>4. ASSUME NEW c \in Assigned \ {STX, ETX}, More, Emit(c, pos + 1),
             tailStart' \in {tailStart, pos + 1}
      PROVE  IInv'
  <2>1. pos + 1 \in (pos + 1) .. Len(buf)
    BY <1>4, CodeIsByte
  <2>2. IsWhole([kind |-> c, start |-> pos, end |-> pos + 1])
    BY KindsDiffer DEF IsWhole
  <2> QED
    BY <1>4, <2>1, <2>2, KindsDiffer, EmitKeeps
<1>5. CASE NextEM
  BY <1>4, <1>5, CodesDiffer DEF NextEM
<1>6. CASE NextCode
  BY <1>4, <1>6 DEF NextCode
<1>7. CASE NextFails
  BY <1>7 DEF NextFails, IInv, TypeOK, TokensTile, RunsAreWhole, AnswerHasReason,
              Wrong, More, Code
<1>8. CASE NextEnd
  <2>1. tailStart' \in 0 .. Len(buf) /\ tailStart' # None
    <3>1. Len(buf) \in Nat
      BY DEF IInv
    <3> QED
      BY <1>8, <3>1 DEF NextEnd, IInv, TypeOK, None
  <2> QED
    BY <1>8, <2>1 DEF NextEnd, IInv, TypeOK, TokensTile, RunsAreWhole, AnswerHasReason
<1>9. CASE UNCHANGED vars
  BY <1>9 DEF vars, IInv, TypeOK, TokensTile, RunsAreWhole, AnswerHasReason, Wrong, More, Code
<1> QED
  BY <1>1, <1>2, <1>3, <1>5, <1>6, <1>7, <1>8, <1>9 DEF Next

LEMMA InitHolds == Init => IInv
BY BuffersAreBytes DEF Init, IInv, TypeOK, TokensTile, RunsAreWhole, AnswerHasReason, TokenType

LEMMA Invariance == Spec => []IInv
BY InitHolds, NextKeeps, PTL DEF Spec
-----------------------------------------------------------------------------
(* The tokens have kinds and places in the buffer, and the tail begins in  *)
(* the buffer (Token, TailStart).                                          *)
THEOREM TypeCorrect == Spec => []TypeOK
<1>1. IInv => TypeOK
  BY DEF IInv
<1> QED
  BY <1>1, Invariance, PTL

(* No byte Tokenize passed is in two tokens or in none. *)
THEOREM NoByteLost == Spec => []TokensTile
<1>1. IInv => TokensTile
  BY DEF IInv
<1> QED
  BY <1>1, Invariance, PTL

(* "Layout next to a code is its own token" (tokenizer.go): a data run has *)
(* no layout at its edges, and runs of a kind never meet.                  *)
THEOREM RunsAreMaximal == Spec => []RunsAreWhole
<1>1. IInv => RunsAreWhole
  BY DEF IInv
<1> QED
  BY <1>1, Invariance, PTL

(* The end and an error are final: a caller that goes on calling Next gets *)
(* the same answer from the same state.                                    *)
THEOREM FinalAnswer == Spec => AnswerIsFinal
<1>1. IInv /\ [Next]_vars => [answer # "token" => UNCHANGED vars]_vars
  <2> SUFFICES ASSUME IInv, Next, answer # "token" PROVE UNCHANGED vars
    BY DEF vars
  <2>1. answer \in {"end", "error"}
    BY DEF IInv, TypeOK
  <2>2. CASE answer = "end"
    <3>1. tailStart # None /\ ~More
      BY <2>2 DEF IInv, AnswerHasReason, More
    <3>2. NextEnd
      BY <3>1 DEF Next, NextData, NextLayout, NextText, NextEM, NextCode, NextFails, Wrong
    <3> QED
      BY <2>2, <3>1, <3>2 DEF NextEnd, vars
  <2>3. CASE answer = "error"
    <3>1. Wrong /\ More
      BY <2>3 DEF IInv, AnswerHasReason, Wrong
    <3>2. Code \in Byte
      BY <3>1, CodeIsByte
    <3>3. \/ Code = STX /\ ScanText(buf, pos, Len(buf)) = Malformed
          \/ Code = ETX
          \/ IsControl(Code) /\ Code \notin Assigned \cup Layout
      BY <3>1 DEF Wrong
    <3>4. ~NextData /\ ~NextLayout
      BY <3>2, <3>3, CodesDiffer DEF NextData, NextLayout, IsLayout
    <3>5. ~NextText /\ ~NextEM /\ ~NextCode
      BY <3>3, CodesDiffer DEF NextText, NextEM, NextCode
    <3>6. ~NextEnd
      BY <3>1 DEF NextEnd
    <3>7. NextFails
      BY <3>4, <3>5, <3>6 DEF Next
    <3> QED
      BY <2>3, <3>7 DEF NextFails, vars
  <2> QED
    BY <2>1, <2>2, <2>3
<1> QED
  BY <1>1, Invariance, PTL DEF Spec, AnswerIsFinal
=============================================================================
