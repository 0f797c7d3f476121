--------------------------- MODULE FormatterProofs ---------------------------
(***************************************************************************)
(* What holds of FormatWith's loop for every buffer, well-formed or not:   *)
(* each turn reads on, so that it ends; and the depth, the group depth and *)
(* the stack it carries along are those of the levels and groups that are  *)
(* open where it reads.  Both rest on where the functions of a turn leave  *)
(* off, and on what they pass on the way.                                  *)
(***************************************************************************)
EXTENDS Formatter, C0ScanProofs

LEMMA BuffersAreBytes == Buffers \subseteq Seq(Byte)
<1> SUFFICES ASSUME NEW n \in 0 .. MaxPieces, NEW pieces \in Vocabularies, NEW s \in [1 .. n -> pieces]
             PROVE  FlattenSeq(s) \in Seq(Byte)
  BY DEF Buffers
<1>1. n \in Nat /\ s \in [1 .. n -> Seq(Byte)]
  BY VocabulariesAssumption, MaxPiecesAssumption
<1> QED
  BY <1>1, FlattenSeqType
-----------------------------------------------------------------------------
(* The runes of data: one turn of the recursion, and its type. *)
RunesFrom(from, data, i) ==
  CASE i > Len(data) -> <<>>
    [] i <= Len(data) /\ data[i] < 128 -> <<data[i]>> \o from[i + 1]
    [] i <= Len(data) /\ data[i] >= 128 /\ Leads(data, i) ->
         <<(data[i] - 192) * 64 + data[i + 1] - 128>> \o from[i + 2]
    [] OTHER -> <<Replacement>> \o from[i + 1]

LEMMA RunesTurn ==
  ASSUME NEW data \in Seq(Byte), NEW i \in 1 .. (Len(data) + 1), NEW f, NEW g,
         \A j \in 1 .. (Len(data) + 1) : j > i => f[j] = g[j] /\ f[j] \in Seq(Nat)
  PROVE  /\ RunesFrom(f, data, i) = RunesFrom(g, data, i)
         /\ RunesFrom(f, data, i) \in Seq(Nat)
<1>0. Len(data) \in Nat /\ \A r \in Nat, s \in Seq(Nat) : <<r>> \o s \in Seq(Nat)
  OBVIOUS
<1>1. CASE i > Len(data)
  <2>1. ~(i <= Len(data))
    BY <1>0, <1>1
  <2>2. RunesFrom(f, data, i) = <<>> /\ RunesFrom(g, data, i) = <<>>
    BY <1>1, <2>1 DEF RunesFrom
  <2> QED
    BY <2>2
<1>2. CASE i <= Len(data)
  <2>0. ~(i > Len(data)) /\ i \in DOMAIN data /\ i + 1 \in 1 .. (Len(data) + 1) /\ i + 1 > i
    BY <1>0, <1>2
  <2>b. PICK b \in Byte : b = data[i]
    BY <2>0
  <2>c. b \in Nat /\ (b < 128 \/ b >= 128) /\ ~(b < 128 /\ b >= 128)
    BY DEF Byte
  <2>1. f[i + 1] = g[i + 1] /\ f[i + 1] \in Seq(Nat)
    BY <2>0
  <2>2. CASE data[i] < 128
    <3>1. ~(data[i] >= 128)
      BY <2>b, <2>c, <2>2
    <3>2. RunesFrom(f, data, i) = <<data[i]>> \o f[i + 1] /\ RunesFrom(g, data, i) = <<data[i]>> \o g[i + 1]
      BY <1>2, <2>0, <2>2, <3>1 DEF RunesFrom
    <3>3. data[i] \in Nat
      BY <2>b, <2>c
    <3> QED
      BY <1>0, <2>1, <3>2, <3>3
  <2>3. CASE data[i] >= 128 /\ Leads(data, i)
    <3>1. ~(data[i] < 128)
      BY <2>b, <2>c, <2>3
    <3> DEFINE r == (data[i] - 192) * 64 + data[i + 1] - 128
    <3>2. RunesFrom(f, data, i) = <<r>> \o f[i + 2] /\ RunesFrom(g, data, i) = <<r>> \o g[i + 2]
      BY <1>2, <2>0, <2>3, <3>1 DEF RunesFrom
    <3>3. i + 2 \in 1 .. (Len(data) + 1) /\ i + 2 > i /\ data[i] \in 194 .. 223 /\ data[i + 1] \in 128 .. 191
      BY <1>0, <1>2, <2>3 DEF Leads
    <3>4. r \in Nat
      <4>1. PICK c \in 128 .. 191 : c = data[i + 1]
        BY <3>3
      <4>2. b \in 194 .. 223
        BY <2>b, <3>3
      <4>3. r = (b - 192) * 64 + c - 128
        BY <2>b, <4>1
      <4>4. b - 192 \in Nat /\ c - 128 \in Nat /\ c \in Int
        BY ONLY c \in 128 .. 191, <4>2
      <4>5. (b - 192) * 64 \in Nat
        BY <4>4
      <4>6. \A h \in Nat : h + c - 128 = h + (c - 128) /\ h + (c - 128) \in Nat
        BY <4>4
      <4> HIDE DEF r
      <4> QED
        BY <4>3, <4>5, <4>6
    <3>5. f[i + 2] = g[i + 2] /\ f[i + 2] \in Seq(Nat)
      BY <3>3
    <3> HIDE DEF r
    <3> QED
      BY <1>0, <3>2, <3>4, <3>5
  <2>4. CASE data[i] >= 128 /\ ~Leads(data, i)
    <3>1. ~(data[i] < 128)
      BY <2>b, <2>c, <2>4
    <3>2. RunesFrom(f, data, i) = <<Replacement>> \o f[i + 1]
          /\ RunesFrom(g, data, i) = <<Replacement>> \o g[i + 1]
      BY <1>2, <2>0, <2>4, <3>1 DEF RunesFrom
    <3>3. Replacement \in Nat
      BY DEF Replacement
    <3> QED
      BY <1>0, <2>1, <3>2, <3>3
  <2>5. data[i] < 128 \/ data[i] >= 128
    BY <2>b, <2>c
  <2> QED
    BY <2>2, <2>3, <2>4, <2>5
<1>3. i > Len(data) \/ i <= Len(data)
  BY <1>0
<1> QED
  BY <1>1, <1>2, <1>3

LEMMA RunesType ==
  ASSUME NEW data \in Seq(Byte)
  PROVE  Runes(data) \in Seq(Nat)
<1> DEFINE n == Len(data)
           D == 1 .. (n + 1)
           F == [D -> Seq(Nat)]
           G == [f \in F |-> [i \in D |-> RunesFrom(f, data, i)]]
           m == [i \in D |-> n + 1 - i]
           N == n + 1
<1>0. n \in Nat
  OBVIOUS
<1>1. m \in [D -> 0 .. N] /\ m \in [D -> Nat] /\ N \in Nat /\ \A i, j \in D : j > i => m[j] < m[i]
  BY <1>0
<1>2. ASSUME NEW f \in F, NEW g \in F, NEW i \in D, \A j \in D : m[j] < m[i] => f[j] = g[j]
      PROVE  RunesFrom(f, data, i) = RunesFrom(g, data, i) /\ RunesFrom(f, data, i) \in Seq(Nat)
  <2>1. \A j \in D : j > i => f[j] = g[j] /\ f[j] \in Seq(Nat)
    BY <1>1, <1>2
  <2> HIDE DEF F
  <2> QED
    BY <2>1, RunesTurn
<1>3. G \in [F -> F]
  <2>1. \A f \in F, i \in D : RunesFrom(f, data, i) \in Seq(Nat)
    BY <1>2
  <2> HIDE DEF D
  <2> QED
    BY <2>1
<1>4. \E f \in F : f = G[f]
  <2>1. F # {} /\ \A f \in F : f = [i \in D |-> f[i]]
    <3>1. [i \in D |-> <<>>] \in F
      OBVIOUS
    <3> QED
      BY <3>1
  <2>2. Contracts(D, F, m, G)
    BY <1>2 DEF Contracts
  <2>3. N \in Nat /\ m \in [D -> 0 .. N]
    BY <1>1
  <2> HIDE DEF F, D, m, G, N
  <2>r. Recursion(D, F, m, N, G)
    BY ONLY <1>3, <2>1, <2>2, <2>3 DEF Recursion
  <2> QED
    BY ONLY <2>r, Solution
<1> DEFINE from == CHOOSE f : f = [i \in D |-> RunesFrom(f, data, i)]
<1>5. Runes(data) = from[1]
  BY DEF Runes, RunesFrom
<1>6. from = [i \in D |-> RunesFrom(from, data, i)]
  BY <1>4
<1> HIDE DEF from
<1> DEFINE T == {i \in D : from[i] \in Seq(Nat)}
<1>7. ASSUME NEW i \in D, \A j \in D : m[j] < m[i] => j \in T
      PROVE  i \in T
  <2>1. \A j \in D : j > i => from[j] = from[j] /\ from[j] \in Seq(Nat)
    BY <1>1, <1>7
  <2>2. RunesFrom(from, data, i) \in Seq(Nat)
    BY <2>1, RunesTurn
  <2> QED
    BY <2>2, <1>6
<1>8. D \subseteq T
  <2> HIDE DEF D, T, m
  <2> QED
    BY <1>1, <1>7, MeasureInduct
<1>9. 1 \in D
  BY <1>0
<1> QED
  BY <1>5, <1>8, <1>9
-----------------------------------------------------------------------------
(***************************************************************************)
(* Nesting: one turn of its recursion at x[1], with the levels x[2]; the   *)
(* functions it may apply; and what a stretch of the buffer, from q to r,  *)
(* does to the levels, wherever behind it the reading ends.                *)
(***************************************************************************)
LevelLists == Seq(0 .. 1) \ {<<>>}

NestPoints(log) == Positions(Len(log)) \X LevelLists

NestFrom(open, log, p, x) ==
  LET n == Len(log)
      q == x[1]
      groups == x[2]
      c == Peek(log, q, n)
  IN  CASE q >= p \/ c = None -> groups
        [] q < p /\ c = STX -> open[<<ScanText(log, q, n), groups>>]
        [] q < p /\ c = DLE -> open[<<q + 1, Append(groups, Last(groups))>>]
        [] q < p /\ c = CAN ->
             open[<<q + 1, IF Len(groups) = 1 THEN <<0>> ELSE Front(groups)>>]
        [] q < p /\ c \in {FS, GS} -> open[<<q + 1, Append(Front(groups), 1)>>]
        [] q < p /\ c = SYN -> open[<<q + 1, Append(Front(groups), 0)>>]
        [] OTHER -> open[<<q + 1, groups>>]

Opens(log, p) == {open \in [NestPoints(log) -> LevelLists] :
                    open = [x \in NestPoints(log) |-> NestFrom(open, log, p, x)]}

Passes(log, q, g, r, h) ==
  \A p \in r .. Len(log) : \A open \in Opens(log, p) : open[<<q, g>>] = open[<<r, h>>]

NestCodes == {STX, DLE, CAN, FS, GS, SYN}

(* What the levels are behind each code that changes them. *)
LEMMA LevelsChange ==
  ASSUME NEW g \in LevelLists
  PROVE  /\ Append(g, Last(g)) \in LevelLists
         /\ Len(g) # 1 => Front(g) \in LevelLists
         /\ Append(Front(g), 1) \in LevelLists /\ Append(Front(g), 0) \in LevelLists
         /\ <<0>> \in LevelLists
<1>1. g \in Seq(0 .. 1) /\ Len(g) \in Nat /\ Len(g) >= 1
  BY DEF LevelLists
<1>2. Last(g) \in 0 .. 1
  BY <1>1 DEF Last
<1>3. Front(g) \in Seq(0 .. 1) /\ Len(Front(g)) = Len(g) - 1
  <2>1. \A m \in 0 .. Len(g) : SubSeq(g, 1, m) \in Seq(0 .. 1) /\ Len(SubSeq(g, 1, m)) = m
    BY <1>1
  <2>2. Len(g) - 1 \in 0 .. Len(g)
    BY <1>1
  <2> QED
    BY <2>1, <2>2 DEF Front
<1>4. \A s \in Seq(0 .. 1), b \in 0 .. 1 : Append(s, b) \in Seq(0 .. 1) /\ Append(s, b) # <<>>
  BY SMTT(60)
<1>5. Len(g) # 1 => Front(g) # <<>>
  BY <1>1, <1>3
<1>6. <<0>> \in Seq(0 .. 1) /\ <<0>> # <<>>
  OBVIOUS
<1> QED
  BY <1>1, <1>2, <1>3, <1>4, <1>5, <1>6 DEF LevelLists

(* What comes of the levels g at q, where from is what the turn gives. *)
NestRules(open, log, q, g, from) ==
  LET c == At(log, q) IN
  /\ c = STX => from = open[<<ScanText(log, q, Len(log)), g>>]
  /\ c = DLE => from = open[<<q + 1, Append(g, Last(g))>>]
  /\ c = CAN => from = open[<<q + 1, IF Len(g) = 1 THEN <<0>> ELSE Front(g)>>]
  /\ c \in {FS, GS} => from = open[<<q + 1, Append(Front(g), 1)>>]
  /\ c = SYN => from = open[<<q + 1, Append(Front(g), 0)>>]
  /\ c \notin NestCodes => from = open[<<q + 1, g>>]

LEMMA NestTurn ==
  ASSUME NEW log \in Seq(Byte), NEW p \in 0 .. Len(log), NEW q \in 0 .. (Len(log) - 1), q < p,
         NEW g \in LevelLists, NEW open
  PROVE  NestRules(open, log, q, g, NestFrom(open, log, p, <<q, g>>))
<1> DEFINE n == Len(log)
           c == At(log, q)
<1>1. Peek(log, q, n) = c /\ c # None /\ ~(q >= p)
  <2>1. n \in Nat /\ p \in Nat
    OBVIOUS
  <2>2. Peek(log, q, n) \in Byte /\ Peek(log, q, n) = c
    BY <2>1, PeekSome DEF Peek
  <2>3. None \notin Byte
    BY DEF None, Byte
  <2>4. ~(q >= p)
    BY <2>1
  <2> HIDE DEF c
  <2> QED
    BY <2>2, <2>3, <2>4
<1> HIDE DEF c
<1>2. CASE c = STX
  BY <1>1, <1>2 DEF NestFrom, NestRules, NestCodes, STX, DLE, CAN, FS, GS, SYN, c
<1>3. CASE c = DLE
  BY <1>1, <1>3 DEF NestFrom, NestRules, NestCodes, STX, DLE, CAN, FS, GS, SYN, c
<1>4. CASE c = CAN
  BY <1>1, <1>4 DEF NestFrom, NestRules, NestCodes, STX, DLE, CAN, FS, GS, SYN, c
<1>5. CASE c \in {FS, GS}
  BY SMTT(60), <1>1, <1>5 DEF NestFrom, NestRules, NestCodes, STX, DLE, CAN, FS, GS, SYN, c
<1>6. CASE c = SYN
  BY <1>1, <1>6 DEF NestFrom, NestRules, NestCodes, STX, DLE, CAN, FS, GS, SYN, c
<1>7. CASE c \notin NestCodes
  BY <1>1, <1>7 DEF NestFrom, NestRules, NestCodes, c
<1> QED
  BY <1>2, <1>3, <1>4, <1>5, <1>6, <1>7 DEF NestCodes

(* What follows of a byte for the levels behind it. *)
LEMMA PassesByte ==
  ASSUME NEW log \in Seq(Byte), NEW q \in 0 .. (Len(log) - 1), NEW g \in LevelLists
  PROVE  LET c == At(log, q)
             end == ScanText(log, q, Len(log))
         IN  /\ c = STX /\ end # Malformed => Passes(log, q, g, end, g)
             /\ c = DLE => Passes(log, q, g, q + 1, Append(g, Last(g)))
             /\ c = CAN => Passes(log, q, g, q + 1, IF Len(g) = 1 THEN <<0>> ELSE Front(g))
             /\ c \in {FS, GS} => Passes(log, q, g, q + 1, Append(Front(g), 1))
             /\ c = SYN => Passes(log, q, g, q + 1, Append(Front(g), 0))
             /\ c \notin NestCodes => Passes(log, q, g, q + 1, g)
<1> DEFINE n == Len(log)
           end == ScanText(log, q, n)
<1>0. n \in Nat /\ q \in Nat /\ q + 1 <= n
  OBVIOUS
<1>1. end # Malformed => end \in (q + 2) .. n
  BY <1>0, ScanTextStops
<1> HIDE DEF end
<1>2. ASSUME NEW r \in (q + 1) .. n, NEW p \in r .. n, NEW open \in Opens(log, p)
      PROVE  /\ open[<<q, g>>] = NestFrom(open, log, p, <<q, g>>)
             /\ p \in 0 .. n /\ q < p
  <2>1. <<q, g>> \in NestPoints(log)
    BY <1>0 DEF NestPoints, Positions
  <2>2. p \in 0 .. n /\ q < p
    BY <1>0, <1>2
  <2> QED
    BY <2>1, <2>2 DEF Opens
<1>3. q + 1 \in (q + 1) .. n /\ (end # Malformed => end \in (q + 1) .. n)
  BY <1>0, <1>1
<1>4. ASSUME NEW r \in (q + 1) .. n, NEW h,
             \A open : \A p \in 0 .. n : q < p =>
               NestFrom(open, log, p, <<q, g>>) = open[<<r, h>>]
      PROVE  Passes(log, q, g, r, h)
  BY <1>2, <1>4 DEF Passes
<1>5. ASSUME NEW open, NEW p \in 0 .. n, q < p
      PROVE  NestRules(open, log, q, g, NestFrom(open, log, p, <<q, g>>))
  BY <1>5, NestTurn
<1> QED
  BY <1>3, <1>4, <1>5 DEF end, NestRules

LEMMA PassesOn ==
  ASSUME NEW log \in Seq(Byte), NEW q, NEW g, NEW r \in Nat, NEW h, NEW s \in Nat, NEW k,
         r <= s, Passes(log, q, g, r, h), Passes(log, r, h, s, k)
  PROVE  Passes(log, q, g, s, k)
<1> SUFFICES ASSUME NEW p \in s .. Len(log), NEW open \in Opens(log, p)
             PROVE  open[<<q, g>>] = open[<<s, k>>]
  BY DEF Passes
<1>1. p \in r .. Len(log)
  OBVIOUS
<1> QED
  BY <1>1 DEF Passes

LEMMA PassesHere ==
  ASSUME NEW log, NEW q, NEW g
  PROVE  Passes(log, q, g, q, g)
BY DEF Passes

(* A run of bytes of which none changes the levels. *)
LEMMA PassesRun ==
  ASSUME NEW log \in Seq(Byte), NEW q \in 0 .. Len(log), NEW r \in q .. Len(log), NEW g \in LevelLists,
         \A t \in q .. (r - 1) : At(log, t) \notin NestCodes
  PROVE  Passes(log, q, g, r, g)
<1> DEFINE T == {k \in Nat : q + k <= r => Passes(log, q, g, q + k, g)}
<1>0. q \in Nat /\ r \in Nat /\ Len(log) \in Nat /\ q <= r /\ r <= Len(log)
  OBVIOUS
<1>1. 0 \in T
  <2>1. q + 0 = q
    BY <1>0
  <2> QED
    BY <2>1, PassesHere
<1>2. ASSUME NEW k \in Nat, k \in T PROVE k + 1 \in T
  <2> SUFFICES ASSUME q + (k + 1) <= r PROVE Passes(log, q, g, q + (k + 1), g)
    OBVIOUS
  <2> DEFINE t == q + k
  <2>1. t \in Nat /\ t \in 0 .. (Len(log) - 1) /\ t \in q .. (r - 1) /\ q + (k + 1) = t + 1 /\ t <= r
    BY <1>0
  <2>2. Passes(log, q, g, t, g)
    BY <1>2, <2>1
  <2> HIDE DEF t
  <2>3. Passes(log, t, g, t + 1, g)
    BY <2>1, PassesByte
  <2>4. t + 1 \in Nat /\ t <= t + 1
    BY <2>1
  <2>5. Passes(log, q, g, t + 1, g)
    BY <2>1, <2>2, <2>3, <2>4, PassesOn
  <2> QED
    BY <2>1, <2>5
<1>3. Nat \subseteq T
  <2> HIDE DEF T
  <2> QED
    BY <1>1, <1>2, NatInduct
<1>4. r - q \in Nat /\ q + (r - q) = r
  BY <1>0
<1>5. r - q \in T
  BY <1>3, <1>4
<1> QED
  BY <1>0, <1>4, <1>5

(* The function that Nesting applies, and how the levels at a position are *)
(* found: by what is passed on the way to it.                              *)
LEMMA NestAgrees ==
  ASSUME NEW log \in Seq(Byte), NEW p \in 0 .. Len(log), NEW x \in NestPoints(log), NEW e, NEW f,
         \A y \in NestPoints(log) : Rest(Len(log))[y[1]] < Rest(Len(log))[x[1]] =>
           e[y] = f[y] /\ e[y] \in LevelLists
  PROVE  /\ NestFrom(e, log, p, x) = NestFrom(f, log, p, x)
         /\ NestFrom(e, log, p, x) \in LevelLists
<1> DEFINE n == Len(log)
           q == x[1]
           g == x[2]
           c == Peek(log, q, n)
<1>0. n \in Nat /\ q \in Positions(n) /\ g \in LevelLists /\ x = <<q, g>>
  BY DEF NestPoints
<1>1. CASE q >= p \/ c = None
  <2>1. /\ None # STX /\ None # DLE /\ None # CAN /\ None \notin {FS, GS} /\ None # SYN
    BY DEF None, STX, DLE, CAN, FS, GS, SYN
  <2>2. q >= p => ~(q < p)
    BY <1>0 DEF Positions, Malformed
  <2>3. NestFrom(e, log, p, x) = g /\ NestFrom(f, log, p, x) = g
    BY <1>1, <2>1, <2>2 DEF NestFrom
  <2> QED
    BY <1>0, <2>3
<1>2. CASE ~(q >= p) /\ c # None
  <2>1. q \in 0 .. (n - 1) /\ q < p
    <3>1. q \in 0 .. (n - 1)
      BY <1>0, <1>2, PeekSome
    <3> HIDE DEF q
    <3> QED
      BY <3>1, <1>0, <1>2
  <2> DEFINE past == ScanText(log, q, n)
  <2>2. past \in {Malformed} \cup (q + 2) .. n
    BY <1>0, <2>1, ScanTextStops
  <2>3. ASSUME NEW r \in Positions(n), r = Malformed \/ r > q, NEW h \in LevelLists
        PROVE  e[<<r, h>>] = f[<<r, h>>] /\ e[<<r, h>>] \in LevelLists
    <3> DEFINE y == <<r, h>>
    <3>1. y \in NestPoints(log) /\ y[1] = r
      BY DEF NestPoints
    <3>2. Rest(n)[r] < Rest(n)[q]
      BY <1>0, <2>1, <2>3 DEF Rest, Positions, Malformed
    <3> HIDE DEF y
    <3>3. e[y] = f[y] /\ e[y] \in LevelLists
      BY <3>1, <3>2
    <3> QED
      BY <3>3 DEF y
  <2>4. /\ q + 1 \in Positions(n) /\ q + 1 > q
        /\ past \in Positions(n) /\ (past = Malformed \/ past > q)
    BY <1>0, <2>1, <2>2 DEF Positions
  <2>5. /\ NestRules(e, log, q, g, NestFrom(e, log, p, <<q, g>>))
        /\ NestRules(f, log, q, g, NestFrom(f, log, p, <<q, g>>))
    BY <1>0, <2>1, NestTurn
  <2>6. /\ Append(g, Last(g)) \in LevelLists
        /\ Append(Front(g), 1) \in LevelLists /\ Append(Front(g), 0) \in LevelLists
        /\ (IF Len(g) = 1 THEN <<0>> ELSE Front(g)) \in LevelLists
    BY <1>0, LevelsChange
  <2> HIDE DEF q, g, n, past, c
  <2>7. PICK r \in Positions(n), h \in LevelLists :
          /\ r = Malformed \/ r > q
          /\ NestFrom(e, log, p, <<q, g>>) = e[<<r, h>>]
          /\ NestFrom(f, log, p, <<q, g>>) = f[<<r, h>>]
    <3>1. CASE At(log, q) = STX
      BY <1>0, <2>4, <2>5, <3>1 DEF NestRules, past, n
    <3>2. CASE At(log, q) = DLE
      BY <2>4, <2>5, <2>6, <3>2 DEF NestRules
    <3>3. CASE At(log, q) = CAN
      BY <2>4, <2>5, <2>6, <3>3 DEF NestRules
    <3>4. CASE At(log, q) \in {FS, GS}
      BY <2>4, <2>5, <2>6, <3>4 DEF NestRules
    <3>5. CASE At(log, q) = SYN
      BY <2>4, <2>5, <2>6, <3>5 DEF NestRules
    <3>6. CASE At(log, q) \notin NestCodes
      BY <1>0, <2>4, <2>5, <3>6 DEF NestRules
    <3> QED
      BY <3>1, <3>2, <3>3, <3>4, <3>5, <3>6 DEF NestCodes
  <2> QED
    BY <1>0, <2>3, <2>7
<1> QED
  BY <1>1, <1>2

LEMMA NestingUnfolds ==
  ASSUME NEW log \in Seq(Byte), NEW p \in 0 .. Len(log)
  PROVE  \E open \in Opens(log, p) : Nesting(log, p) = open[<<0, <<0>>>>]
<1> DEFINE n == Len(log)
           D == NestPoints(log)
           F == [D -> LevelLists]
           G == [f \in F |-> [x \in D |-> NestFrom(f, log, p, x)]]
           m == [x \in D |-> Rest(n)[x[1]]]
           N == n + 1
<1>0. n \in Nat /\ N \in Nat /\ \A x \in D : x[1] \in Positions(n)
  BY DEF NestPoints
<1>1. m \in [D -> 0 .. N] /\ m \in [D -> Nat]
  BY <1>0, RestType
<1>2. ASSUME NEW e \in F, NEW f \in F, NEW x \in D, \A y \in D : m[y] < m[x] => e[y] = f[y]
      PROVE  NestFrom(e, log, p, x) = NestFrom(f, log, p, x) /\ NestFrom(e, log, p, x) \in LevelLists
  <2>1. \A y \in D : Rest(n)[y[1]] < Rest(n)[x[1]] => e[y] = f[y] /\ e[y] \in LevelLists
    BY <1>2
  <2> HIDE DEF F
  <2> QED
    BY <2>1, NestAgrees
<1>3. G \in [F -> F]
  <2>1. \A f \in F, x \in D : NestFrom(f, log, p, x) \in LevelLists
    BY <1>2
  <2> HIDE DEF D
  <2> QED
    BY <2>1
<1>4. \E f \in F : f = G[f]
  <2>1. F # {} /\ \A f \in F : f = [x \in D |-> f[x]]
    <3>1. <<0>> \in LevelLists
      BY DEF LevelLists
    <3>2. [x \in D |-> <<0>>] \in F
      BY <3>1
    <3> QED
      BY <3>2
  <2>2. Contracts(D, F, m, G)
    BY <1>2 DEF Contracts
  <2>3. N \in Nat /\ m \in [D -> 0 .. N]
    BY <1>0, <1>1
  <2> HIDE DEF F, D, m, G, N
  <2>r. Recursion(D, F, m, N, G)
    BY ONLY <1>3, <2>1, <2>2, <2>3 DEF Recursion
  <2> QED
    BY ONLY <2>r, Solution
<1> DEFINE open == CHOOSE f : f = [x \in D |-> NestFrom(f, log, p, x)]
<1>5. Nesting(log, p) = open[<<0, <<0>>>>]
  BY DEF Nesting, NestFrom, NestPoints, LevelLists
<1>6. open = [x \in D |-> NestFrom(open, log, p, x)]
  BY <1>4
<1> HIDE DEF open
<1> DEFINE T == {x \in D : open[x] \in LevelLists}
<1>7. ASSUME NEW x \in D, \A y \in D : m[y] < m[x] => y \in T
      PROVE  x \in T
  <2>1. \A y \in D : Rest(n)[y[1]] < Rest(n)[x[1]] => open[y] = open[y] /\ open[y] \in LevelLists
    BY <1>7
  <2>2. NestFrom(open, log, p, x) \in LevelLists
    BY <2>1, NestAgrees
  <2> QED
    BY <2>2, <1>6
<1>8. D \subseteq T
  <2> HIDE DEF D, T, m
  <2> QED
    BY <1>1, <1>7, MeasureInduct
<1>9. open \in [D -> LevelLists]
  <2>1. \A x \in D : open[x] \in LevelLists
    BY <1>8
  <2>2. open = [x \in D |-> open[x]]
    BY <1>6
  <2> HIDE DEF D
  <2> QED
    BY <2>1, <2>2
<1>10. open \in Opens(log, p)
  BY <1>6, <1>9 DEF Opens
<1> QED
  BY <1>5, <1>10

LEMMA NestingThere ==
  ASSUME NEW log \in Seq(Byte), NEW p \in 0 .. Len(log), NEW h \in LevelLists,
         Passes(log, 0, << 0 >>, p, h)
  PROVE  Nesting(log, p) = h
<1>1. PICK open \in Opens(log, p) : Nesting(log, p) = open[<<0, <<0>>>>]
  BY NestingUnfolds
<1>2. open[<<0, <<0>>>>] = open[<<p, h>>]
  <2>1. p \in p .. Len(log)
    OBVIOUS
  <2> QED
    BY <2>1 DEF Passes
<1>3. <<p, h>> \in NestPoints(log)
  BY DEF NestPoints, Positions
<1>4. open[<<p, h>>] = NestFrom(open, log, p, <<p, h>>)
  BY <1>3 DEF Opens
<1>5. NestFrom(open, log, p, <<p, h>>) = h
  <2>1. p >= p /\ ~(p < p)
    OBVIOUS
  <2> QED
    BY <2>1 DEF NestFrom
<1> QED
  BY <1>1, <1>2, <1>4, <1>5
-----------------------------------------------------------------------------
(* The levels around the d innermost ones. *)
Around(h, d) == SubSeq(h, 1, Len(h) - d)

(* What each code inside a level does to the levels around. *)
LEMMA AroundKept ==
  ASSUME NEW h \in LevelLists, NEW d \in Nat \ {0}, d < Len(h)
  PROVE  /\ Around(h, d) \in LevelLists
         /\ d + 1 < Len(Append(h, Last(h))) /\ Around(Append(h, Last(h)), d + 1) = Around(h, d)
         /\ Len(h) # 1 /\ d - 1 < Len(Front(h)) /\ Around(Front(h), d - 1) = Around(h, d)
         /\ d = 1 => Front(h) = Around(h, d)
         /\ \A b \in 0 .. 1 : d < Len(Append(Front(h), b)) /\ Around(Append(Front(h), b), d) = Around(h, d)
<1>1. h \in Seq(0 .. 1) /\ Len(h) \in Nat /\ Len(h) > 1
  BY DEF LevelLists
<1>2. \A m \in 1 .. Len(h), k \in 1 .. Len(h) : k <= m => SubSeq(SubSeq(h, 1, m), 1, k) = SubSeq(h, 1, k)
  <2> TAKE m \in 1 .. Len(h), k \in 1 .. Len(h)
  <2> HAVE k <= m
  <2>1. SubSeq(h, 1, m) \in Seq(0 .. 1) /\ Len(SubSeq(h, 1, m)) = m
        /\ \A i \in 1 .. m : SubSeq(h, 1, m)[i] = h[i]
    BY <1>1
  <2> DEFINE s == SubSeq(h, 1, m)
  <2> HIDE DEF s
  <2>2. SubSeq(s, 1, k) = [i \in 1 .. k |-> s[i]] /\ SubSeq(h, 1, k) = [i \in 1 .. k |-> h[i]]
    <3>1. s \in Seq(0 .. 1) /\ Len(s) = m /\ k \in Nat
      BY <2>1 DEF s
    <3> QED
      BY <3>1, <1>1
  <2>3. \A i \in 1 .. k : s[i] = h[i]
    BY <2>1 DEF s
  <2> QED
    BY <2>2, <2>3 DEF s
<1>3. \A s \in Seq(0 .. 1), b \in 0 .. 1, k \in Nat :
        k <= Len(s) => Len(Append(s, b)) = Len(s) + 1 /\ SubSeq(Append(s, b), 1, k) = SubSeq(s, 1, k)
  <2> TAKE s \in Seq(0 .. 1), b \in 0 .. 1, k \in Nat
  <2> HAVE k <= Len(s)
  <2>1. /\ Append(s, b) \in Seq(0 .. 1) /\ Len(Append(s, b)) = Len(s) + 1
        /\ \A i \in 1 .. Len(s) : Append(s, b)[i] = s[i]
    OBVIOUS
  <2>2. /\ SubSeq(Append(s, b), 1, k) = [i \in 1 .. k |-> Append(s, b)[i]]
        /\ SubSeq(s, 1, k) = [i \in 1 .. k |-> s[i]]
    BY <2>1
  <2>3. \A i \in 1 .. k : Append(s, b)[i] = s[i]
    BY <2>1
  <2> QED
    BY <2>1, <2>2, <2>3
<1>4. Last(h) \in 0 .. 1
  BY <1>1 DEF Last
<1>5. Front(h) \in Seq(0 .. 1) /\ Len(Front(h)) = Len(h) - 1 /\ Front(h) = SubSeq(h, 1, Len(h) - 1)
  <2>1. \A m \in 0 .. Len(h) : SubSeq(h, 1, m) \in Seq(0 .. 1) /\ Len(SubSeq(h, 1, m)) = m
    BY <1>1
  <2> QED
    BY <1>1, <2>1 DEF Front
<1>6. Around(h, d) \in Seq(0 .. 1) /\ Around(h, d) # <<>>
  <2>1. \A m \in 1 .. Len(h) : SubSeq(h, 1, m) \in Seq(0 .. 1) /\ Len(SubSeq(h, 1, m)) = m
    BY <1>1
  <2>2. Len(h) - d \in 1 .. Len(h)
    BY <1>1
  <2>3. Around(h, d) \in Seq(0 .. 1) /\ Len(Around(h, d)) = Len(h) - d
    BY <2>1, <2>2 DEF Around
  <2> QED
    BY <2>2, <2>3
<1>7. Len(Append(h, Last(h))) = Len(h) + 1 /\ Around(Append(h, Last(h)), d + 1) = Around(h, d)
  <2>1. Len(h) - d \in Nat /\ Len(h) - d <= Len(h) /\ (Len(h) + 1) - (d + 1) = Len(h) - d
    BY <1>1
  <2> QED
    BY <1>1, <1>3, <1>4, <2>1 DEF Around
<1>8. Around(Front(h), d - 1) = Around(h, d)
  <2>1. Len(h) - d \in 1 .. Len(h) /\ Len(h) - 1 \in 1 .. Len(h) /\ Len(h) - d <= Len(h) - 1
        /\ (Len(h) - 1) - (d - 1) = Len(h) - d
    BY <1>1
  <2> QED
    BY <1>2, <1>5, <2>1 DEF Around
<1>9. ASSUME NEW b \in 0 .. 1
      PROVE  Len(Append(Front(h), b)) = Len(h) /\ Around(Append(Front(h), b), d) = Around(h, d)
  <2>1. Len(h) - d \in 1 .. Len(h) /\ Len(h) - 1 \in 1 .. Len(h) /\ Len(h) - d <= Len(h) - 1
        /\ Len(h) - d \in Nat /\ (Len(h) - 1) + 1 = Len(h)
    BY <1>1
  <2>2. Len(Append(Front(h), b)) = Len(h)
        /\ SubSeq(Append(Front(h), b), 1, Len(h) - d) = SubSeq(Front(h), 1, Len(h) - d)
    BY <1>3, <1>5, <2>1
  <2>3. SubSeq(Front(h), 1, Len(h) - d) = SubSeq(h, 1, Len(h) - d)
    BY <1>2, <1>5, <2>1
  <2> QED
    BY <2>2, <2>3 DEF Around
<1>10. d + 1 < Len(h) + 1 /\ Len(h) # 1 /\ d - 1 < Len(h) - 1
  <2> DEFINE l == Len(h)
  <2>1. l \in Nat /\ l > 1 /\ d \in Nat /\ d < l
    BY <1>1
  <2> HIDE DEF l
  <2>2. d + 1 < l + 1 /\ l # 1 /\ d - 1 < l - 1
    BY <2>1
  <2> QED
    BY <2>2 DEF l
<1>11. d = 1 => Front(h) = Around(h, d)
  BY <1>5 DEF Around
<1> QED
  BY <1>5, <1>6, <1>7, <1>8, <1>9, <1>10, <1>11 DEF LevelLists

(* What scanLevel passes from a position inside a level: as many levels    *)
(* close as its depth counts.                                              *)
LEMMA LevelInside ==
  ASSUME NEW log \in Seq(Byte), NEW after,
         \A x \in LevelPoints(Len(log)) :
           /\ after[x] = LevelFrom(after, log, Len(log), x)
           /\ after[x] \in Behind(Len(log), x[1])
  PROVE  \A x \in LevelPoints(Len(log)) : after[x] # Malformed =>
           /\ At(log, after[x] - 1) = CAN
           /\ \A h \in LevelLists : x[2] < Len(h) =>
                Passes(log, x[1], h, after[x], Around(h, x[2]))
<1> DEFINE n == Len(log)
           D == LevelPoints(n)
           m == LevelRest(n)
           Closes(x) == /\ At(log, after[x] - 1) = CAN
                        /\ \A h \in LevelLists : x[2] < Len(h) =>
                             Passes(log, x[1], h, after[x], Around(h, x[2]))
           T == {x \in D : after[x] # Malformed => Closes(x)}
<1>0. n \in Nat /\ \A x \in D : x[1] \in Positions(n) /\ x[2] \in Nat \ {0}
  BY DEF LevelPoints
<1>1. m \in [D -> Nat]
  BY <1>0 DEF LevelRest, Positions
<1>2. ASSUME NEW x \in D, \A y \in D : m[y] < m[x] => y \in T, after[x] # Malformed
      PROVE  Closes(x)
  <2> DEFINE p == x[1]
             d == x[2]
             c == Peek(log, p, n)
             past == ScanText(log, p, n)
  <2>0. p \in Positions(n) /\ d \in Nat \ {0} /\ after[x] = LevelFrom(after, log, n, x)
        /\ after[x] \in Behind(n, p)
    BY <1>0
  <2>1. p \in 0 .. n /\ after[x] \in (p + 1) .. n
    <3>1. p # Malformed
      BY <1>2, <2>0 DEF Behind
    <3> HIDE DEF p
    <3> QED
      BY <1>2, <2>0, <3>1 DEF Behind, Positions
  <2>2. c \notin Framing \cup {None}
    BY <1>2, <2>0 DEF LevelFrom, STX, DLE, CAN, Framing, ETB, EOT, SYN, EM, None
  <2>3. p \in 0 .. (n - 1) /\ c = At(log, p)
    BY <2>2, <1>0, PeekSome
  <2>4. past \in {Malformed} \cup (p + 2) .. n
    BY <1>0, <2>3, ScanTextStops
  <2>5. /\ p + 1 \in Positions(n) /\ p + 1 > p
        /\ past \in Positions(n) /\ (past = Malformed \/ past > p)
    BY <1>0, <2>3, <2>4 DEF Positions
  <2> HIDE DEF past, c
  <2>6. ASSUME NEW q \in Positions(n), q = Malformed \/ q > p, NEW e \in Nat \ {0},
               after[x] = after[<<q, e>>]
        PROVE  /\ q # Malformed /\ At(log, after[x] - 1) = CAN
               /\ \A h, k \in LevelLists :
                    /\ e < Len(k) /\ Around(k, e) = Around(h, d) /\ Passes(log, p, h, q, k)
                    => Passes(log, p, h, after[x], Around(h, d))
    <3> DEFINE y == <<q, e>>
    <3>1. y \in D /\ y[1] = q /\ y[2] = e
      BY DEF LevelPoints
    <3>2. after[y] \in Behind(n, q) /\ after[y] # Malformed /\ after[y] = after[x]
      <4>1. after[y] \in Behind(n, y[1])
        BY <3>1
      <4> QED
        BY <1>2, <2>6, <3>1, <4>1
    <3>3. q # Malformed /\ q \in Nat /\ after[y] \in Nat /\ q <= after[y]
      BY <3>2 DEF Behind, Positions
    <3>4. m[y] < m[x]
      <4>1. m[y] = n + 1 - q
        BY <3>1, <3>3 DEF LevelRest
      <4>2. m[x] = n + 1 - p
        BY <2>1 DEF LevelRest, Malformed
      <4>3. q \in 0 .. n /\ q > p
        BY <2>6, <3>3 DEF Positions
      <4> HIDE DEF p
      <4> QED
        BY <1>0, <2>1, <4>1, <4>2, <4>3
    <3> HIDE DEF y
    <3>5. y \in T
      BY <1>2, <3>1, <3>4
    <3>6. Closes(y)
      BY <3>2, <3>5
    <3>7. At(log, after[y] - 1) = CAN
          /\ \A k \in LevelLists : e < Len(k) => Passes(log, q, k, after[y], Around(k, e))
      BY <3>1, <3>6
    <3> HIDE DEF p, d, m, T, D, Closes
    <3>8. ASSUME NEW h \in LevelLists, NEW k \in LevelLists, e < Len(k), Around(k, e) = Around(h, d),
                 Passes(log, p, h, q, k)
          PROVE  Passes(log, p, h, after[y], Around(h, d))
      <4>1. Passes(log, q, k, after[y], Around(h, d))
        BY <3>7, <3>8
      <4> QED
        BY <3>3, <3>8, <4>1, PassesOn
    <3> QED
      BY <3>2, <3>3, <3>7, <3>8
  <2>7. \A h \in LevelLists : d < Len(h) =>
          /\ Append(h, Last(h)) \in LevelLists /\ Front(h) \in LevelLists
          /\ Append(Front(h), 1) \in LevelLists /\ Append(Front(h), 0) \in LevelLists
          /\ d + 1 < Len(Append(h, Last(h))) /\ Around(Append(h, Last(h)), d + 1) = Around(h, d)
          /\ Len(h) # 1 /\ d - 1 < Len(Front(h)) /\ Around(Front(h), d - 1) = Around(h, d)
          /\ d = 1 => Front(h) = Around(h, d)
          /\ d < Len(Append(Front(h), 0)) /\ Around(Append(Front(h), 0), d) = Around(h, d)
          /\ d < Len(Append(Front(h), 1)) /\ Around(Append(Front(h), 1), d) = Around(h, d)
    <3> TAKE h \in LevelLists
    <3> HAVE d < Len(h)
    <3>1. d \in Nat \ {0} /\ 0 \in 0 .. 1 /\ 1 \in 0 .. 1
      BY <2>0
    <3> HIDE DEF d
    <3> QED
      BY <3>1, AroundKept, LevelsChange
  <2>8. ASSUME NEW h \in LevelLists
        PROVE  /\ c = STX /\ past # Malformed => Passes(log, p, h, past, h)
               /\ c = DLE => Passes(log, p, h, p + 1, Append(h, Last(h)))
               /\ c = CAN /\ Len(h) # 1 => Passes(log, p, h, p + 1, Front(h))
               /\ c \in {FS, GS} => Passes(log, p, h, p + 1, Append(Front(h), 1))
               /\ c = SYN => Passes(log, p, h, p + 1, Append(Front(h), 0))
               /\ c \notin NestCodes => Passes(log, p, h, p + 1, h)
    BY <2>3, PassesByte DEF past, c
  <2> SUFFICES /\ At(log, after[x] - 1) = CAN
               /\ \A h \in LevelLists : d < Len(h) =>
                    Passes(log, p, h, after[x], Around(h, d))
    OBVIOUS
  <2>9. CASE c = STX
    <3>1. after[x] = after[<<past, d>>]
      BY <1>2, <2>0, <2>2, <2>9 DEF LevelFrom, STX, DLE, CAN, c, past
    <3> HIDE DEF p, d, m, T, D, Closes
    <3> QED
      BY <2>0, <2>5, <2>6, <2>8, <2>9, <3>1
  <2>10. CASE c = DLE
    <3>1. after[x] = after[<<p + 1, d + 1>>] /\ d + 1 \in Nat \ {0}
      BY <1>2, <2>0, <2>2, <2>10 DEF LevelFrom, STX, DLE, CAN, c
    <3> HIDE DEF p, d, m, T, D, Closes
    <3> QED
      BY <2>5, <2>6, <2>7, <2>8, <2>10, <3>1
  <2>11. CASE c = CAN /\ d = 1
    <3>1. after[x] = p + 1 /\ (p + 1) - 1 = p
      BY <1>2, <2>0, <2>2, <2>3, <2>11 DEF LevelFrom, STX, DLE, CAN, c
    <3> HIDE DEF p, d, m, T, D, Closes
    <3> QED
      BY <2>3, <2>7, <2>8, <2>11, <3>1
  <2>12. CASE c = CAN /\ d # 1
    <3>1. after[x] = after[<<p + 1, d - 1>>] /\ d - 1 \in Nat \ {0}
      BY <1>2, <2>0, <2>2, <2>12 DEF LevelFrom, STX, DLE, CAN, c
    <3> HIDE DEF p, d, m, T, D, Closes
    <3> QED
      BY <2>5, <2>6, <2>7, <2>8, <2>12, <3>1
  <2>13. CASE c \notin {STX, DLE, CAN}
    <3>1. after[x] = after[<<p + 1, d>>] /\ d \in Nat \ {0}
      BY <1>2, <2>0, <2>2, <2>13 DEF LevelFrom, c
    <3>2. c # SYN
      BY <2>2 DEF Framing
    <3> HIDE DEF p, d, m, T, D, Closes
    <3> QED
      BY <2>5, <2>6, <2>7, <2>8, <2>13, <3>1, <3>2 DEF NestCodes
  <2> QED
    BY <2>9, <2>10, <2>11, <2>12, <2>13
<1>3. D \subseteq T
  <2> HIDE DEF m, Closes
  <2>1. ASSUME NEW x \in D, \A y \in D : m[y] < m[x] => y \in T PROVE x \in T
    BY <1>2, <2>1
  <2> HIDE DEF D, T
  <2> QED
    BY <1>1, <2>1, MeasureInduct
<1> QED
  BY <1>3

(* A level as a whole leaves the levels as they were. *)
LEMMA LevelPasses ==
  ASSUME NEW log \in Seq(Byte), NEW q \in 0 .. (Len(log) - 1), At(log, q) = DLE,
         NEW g \in LevelLists, ScanLevel(log, q, Len(log)) # Malformed
  PROVE  LET e == ScanLevel(log, q, Len(log)) IN
         /\ e \in (q + 2) .. Len(log) /\ At(log, e - 1) = CAN
         /\ Passes(log, q, g, e, g)
<1> DEFINE n == Len(log)
           e == ScanLevel(log, q, n)
           x == <<q + 1, 1>>
           h == Append(g, Last(g))
<1>0. n \in Nat /\ q \in Nat /\ q + 1 \in Nat /\ q <= q + 1
  OBVIOUS
<1>1. PICK after :
        /\ \A y \in LevelPoints(n) : /\ after[y] = LevelFrom(after, log, n, y)
                                    /\ after[y] \in Behind(n, y[1])
        /\ \A p : ScanLevel(log, p, n) = after[<<p + 1, 1>>]
  BY <1>0, ScanLevelUnfolds
<1>2. e = after[x] /\ x \in LevelPoints(n) /\ x[1] = q + 1 /\ x[2] = 1
  BY <1>1 DEF LevelPoints, Positions
<1>3. e \in (q + 2) .. n
  BY <1>0, ScanLevelStops
<1>4. h \in LevelLists /\ Len(h) = Len(g) + 1 /\ 1 < Len(h) /\ Around(h, 1) = g
  <2>1. g \in Seq(0 .. 1) /\ Len(g) \in Nat /\ Len(g) >= 1 /\ Last(g) \in 0 .. 1
    <3>1. g \in Seq(0 .. 1) /\ Len(g) \in Nat /\ Len(g) >= 1
      BY DEF LevelLists
    <3> QED
      BY <3>1 DEF Last
  <2>2. Len(h) = Len(g) + 1 /\ SubSeq(h, 1, Len(g)) = g
    BY <2>1
  <2>3. (Len(g) + 1) - 1 = Len(g) /\ 1 < Len(g) + 1
    BY <2>1
  <2> QED
    BY <2>2, <2>3, LevelsChange DEF Around
<1>5. Passes(log, q, g, q + 1, h)
  BY PassesByte
<1> HIDE DEF e, x, h
<1>6. \A y \in LevelPoints(n) : after[y] # Malformed =>
        /\ At(log, after[y] - 1) = CAN
        /\ \A k \in LevelLists : y[2] < Len(k) =>
             Passes(log, y[1], k, after[y], Around(k, y[2]))
  BY <1>1, LevelInside
<1>7. At(log, e - 1) = CAN /\ Passes(log, q + 1, h, e, g)
  <2>1. e # Malformed
    BY DEF e
  <2> QED
    BY <1>2, <1>4, <1>6, <2>1
<1>8. e \in Nat /\ q + 1 <= e
  BY <1>0, <1>3
<1>9. Passes(log, q, g, e, g)
  BY <1>0, <1>5, <1>7, <1>8, PassesOn
<1> QED
  BY <1>3, <1>7, <1>9 DEF e
-----------------------------------------------------------------------------
(***************************************************************************)
(* What the functions of a turn write, and where they leave off: Reads     *)
(* says of a piece written from p on that it passes, unless it panics, to  *)
(* where the levels are as they were, but for one that it opens.           *)
(***************************************************************************)
Pieces(n) == [at : Positions(n), runes : Seq(Nat), opens : BOOLEAN]

Left(g, opens) == IF opens THEN Append(g, Last(g)) ELSE g

PiecesFrom(log, p) ==
  {piece \in Pieces(Len(log)) :
     piece.at # Malformed =>
       /\ p # Malformed /\ p <= piece.at
       /\ \A g \in LevelLists : Passes(log, p, g, piece.at, Left(g, piece.opens))}

(* What leaves the levels alone. *)
Keeps(log, p, q) == \A g \in LevelLists : Passes(log, p, g, q, g)

LEMMA PieceParts ==
  ASSUME NEW n \in Nat, NEW piece \in Pieces(n), NEW s \in Seq(Nat)
  PROVE  /\ piece.at \in Positions(n) /\ piece.runes \in Seq(Nat) /\ piece.opens \in BOOLEAN
         /\ Prefixed(s, piece) \in Pieces(n)
         /\ Prefixed(s, piece).at = piece.at /\ Prefixed(s, piece).opens = piece.opens
         /\ EndLine(piece) \in Pieces(n)
         /\ EndLine(piece).at = piece.at /\ EndLine(piece).opens = piece.opens
<1>1. piece.at \in Positions(n) /\ piece.runes \in Seq(Nat) /\ piece.opens \in BOOLEAN
  BY DEF Pieces
<1>2. s \o piece.runes \in Seq(Nat) /\ Append(piece.runes, LF) \in Seq(Nat)
  BY <1>1 DEF LF
<1>3. ASSUME NEW r \in Seq(Nat)
      PROVE  LET new == [piece EXCEPT !.runes = r]
             IN  new \in Pieces(n) /\ new.at = piece.at /\ new.opens = piece.opens
  BY DEF Pieces
<1>4. Prefixed(s, piece) = [piece EXCEPT !.runes = s \o piece.runes]
  BY DEF Prefixed
<1>5. EndLine(piece) = [piece EXCEPT !.runes = Append(piece.runes, LF)]
  BY DEF EndLine
<1> QED
  BY <1>1, <1>2, <1>3, <1>4, <1>5

(* A piece that goes on with another, and the ending of a line. *)
LEMMA PieceGoesOn ==
  ASSUME NEW log \in Seq(Byte), NEW p \in 0 .. Len(log), NEW q \in p .. Len(log), Keeps(log, p, q),
         NEW piece \in PiecesFrom(log, q), NEW s \in Seq(Nat)
  PROVE  /\ Prefixed(s, piece) \in PiecesFrom(log, p)
         /\ Prefixed(s, piece).at = piece.at /\ Prefixed(s, piece).opens = piece.opens
         /\ piece \in PiecesFrom(log, p)
<1> DEFINE n == Len(log)
           whole == Prefixed(s, piece)
<1>0. n \in Nat /\ p \in Nat /\ q \in Nat /\ p <= q
  OBVIOUS
<1>1. piece \in Pieces(n)
  BY DEF PiecesFrom
<1>3. whole \in Pieces(n) /\ whole.at = piece.at /\ whole.opens = piece.opens
  BY <1>0, <1>1, PieceParts
<1>4. ASSUME piece.at # Malformed
      PROVE  /\ p # Malformed /\ p <= piece.at
             /\ \A g \in LevelLists : Passes(log, p, g, piece.at, Left(g, piece.opens))
  <2>1. q <= piece.at /\ piece.at \in Nat
        /\ \A g \in LevelLists : Passes(log, q, g, piece.at, Left(g, piece.opens))
    <3>1. piece.at \in Nat
      BY <1>1, <1>4 DEF Pieces, Positions
    <3> QED
      BY <1>4, <3>1 DEF PiecesFrom
  <2>2. \A g \in LevelLists : Passes(log, p, g, q, g)
    BY DEF Keeps
  <2>3. \A g \in LevelLists : Passes(log, p, g, piece.at, Left(g, piece.opens))
    BY <1>0, <2>1, <2>2, PassesOn
  <2>4. p # Malformed /\ p <= piece.at
    BY <1>0, <2>1 DEF Malformed
  <2> QED
    BY <2>3, <2>4
<1> HIDE DEF whole
<1> QED
  BY <1>1, <1>3, <1>4 DEF whole, PiecesFrom

LEMMA PieceEnds ==
  ASSUME NEW log \in Seq(Byte), NEW p, NEW piece \in PiecesFrom(log, p)
  PROVE  /\ EndLine(piece) \in PiecesFrom(log, p)
         /\ EndLine(piece).at = piece.at /\ EndLine(piece).opens = piece.opens
         /\ EndElement(piece) \in PiecesFrom(log, p)
         /\ EndElement(piece).at = piece.at /\ EndElement(piece).opens = piece.opens
<1> DEFINE n == Len(log)
           line == EndLine(piece)
           element == EndElement(piece)
<1>0. n \in Nat /\ <<>> \in Seq(Nat)
  OBVIOUS
<1>1. piece \in Pieces(n)
  BY DEF PiecesFrom
<1>2. element = piece \/ element = line
  BY DEF EndElement
<1>3. line \in Pieces(n) /\ line.at = piece.at /\ line.opens = piece.opens
  BY <1>0, <1>1, PieceParts
<1> HIDE DEF line, element
<1>4. line \in PiecesFrom(log, p)
  BY <1>3 DEF PiecesFrom
<1> QED
  BY <1>2, <1>3, <1>4 DEF line, element

LEMMA NoPiece ==
  ASSUME NEW log \in Seq(Byte), NEW p
  PROVE  Panic \in PiecesFrom(log, p) /\ Panic.at = Malformed /\ ~Panic.opens
<1>1. Len(log) \in Nat /\ <<>> \in Seq(Nat)
  OBVIOUS
<1> QED
  BY <1>1 DEF PiecesFrom, Pieces, Panic, Piece, Positions

LEMMA PieceHere ==
  ASSUME NEW log \in Seq(Byte), NEW p \in 0 .. Len(log), NEW q \in p .. Len(log), Keeps(log, p, q),
         NEW s \in Seq(Nat)
  PROVE  Piece(q, s) \in PiecesFrom(log, p) /\ Piece(q, s).at = q /\ ~Piece(q, s).opens
<1>1. Len(log) \in Nat /\ q \in Positions(Len(log)) /\ p # Malformed /\ p <= q
  BY DEF Positions, Malformed
<1>3. Piece(q, s) \in Pieces(Len(log)) /\ Piece(q, s).at = q /\ Piece(q, s).opens = FALSE
  BY <1>1 DEF Piece, Pieces
<1>4. \A g \in LevelLists : Passes(log, p, g, q, Left(g, FALSE))
  BY DEF Keeps, Left
<1> QED
  BY <1>1, <1>3, <1>4 DEF PiecesFrom

(* Reading on behind what has been written, by a function of positions. *)
LEMMA PieceThen ==
  ASSUME NEW log \in Seq(Byte), NEW p \in 0 .. Len(log), NEW piece \in PiecesFrom(log, p),
         ~piece.opens, NEW next, next[piece.at] \in PiecesFrom(log, piece.at)
  PROVE  /\ ThenAll(piece, next) \in PiecesFrom(log, p)
         /\ ThenAll(piece, next).at = next[piece.at].at
         /\ ThenAll(piece, next).opens = next[piece.at].opens
<1> DEFINE n == Len(log)
<1>0. n \in Nat /\ piece \in Pieces(n)
  BY DEF PiecesFrom
<1>1. piece.at \in Positions(n) /\ piece.runes \in Seq(Nat)
  BY <1>0 DEF Pieces
<1>2. CASE piece.at = Malformed
  <2> DEFINE behind == next[piece.at]
             whole == Prefixed(piece.runes, behind)
  <2>1. behind \in Pieces(n) /\ behind.at = Malformed
    BY <1>2 DEF PiecesFrom
  <2> HIDE DEF behind
  <2>3. whole \in Pieces(n) /\ whole.at = Malformed /\ whole.opens = behind.opens
    BY <1>0, <1>1, <2>1, PieceParts
  <2> HIDE DEF whole
  <2>4. whole \in PiecesFrom(log, p)
    BY <2>3 DEF PiecesFrom
  <2> QED
    BY <2>1, <2>3, <2>4 DEF ThenAll, whole, behind
<1>3. CASE piece.at # Malformed
  <2>1. piece.at \in p .. n
    <3>1. piece.at \in 0 .. n
      BY <1>1, <1>3 DEF Positions
    <3> QED
      BY <1>3, <3>1 DEF PiecesFrom
  <2>2. Keeps(log, p, piece.at)
    BY <1>3 DEF PiecesFrom, Keeps, Left
  <2> QED
    BY <1>1, <2>1, <2>2, PieceGoesOn DEF ThenAll
<1> QED
  BY <1>2, <1>3
-----------------------------------------------------------------------------
LEMMA TrimType ==
  ASSUME NEW raw \in Seq(Byte)
  PROVE  Trim(raw) \in Seq(Byte)
<1> DEFINE solid == {i \in DOMAIN raw : ~IsLayout(raw[i])}
<1>0. Len(raw) \in Nat /\ solid \subseteq 1 .. Len(raw) /\ solid \subseteq Nat
      /\ \A k \in solid : k <= Len(raw)
  OBVIOUS
<1>1. CASE solid = {}
  BY <1>1 DEF Trim
<1>2. CASE solid # {}
  <2>1. Min(solid) \in solid
    <3> HIDE DEF solid
    <3> QED
      BY <1>0, <1>2, MinNat
  <2>2. Max(solid) \in solid
    <3> HIDE DEF solid
    <3> QED
      BY <1>0, <1>2, MaxNat
  <2>3. \A i, j \in 1 .. Len(raw) : SubSeq(raw, i, j) \in Seq(Byte)
    OBVIOUS
  <2>4. Trim(raw) = SubSeq(raw, Min(solid), Max(solid))
    BY <1>2 DEF Trim
  <2> HIDE DEF solid
  <2> QED
    BY <1>0, <2>1, <2>2, <2>3, <2>4
<1> QED
  BY <1>1, <1>2

(* writeData at the end of what it shows. *)
LEMMA DataPieceReads ==
  ASSUME NEW log \in Seq(Byte), NEW p \in 0 .. Len(log), NEW q \in p .. Len(log), Keeps(log, p, q),
         NEW data \in Seq(Byte)
  PROVE  /\ DataPiece(q, data) \in PiecesFrom(log, p) /\ ~DataPiece(q, data).opens
         /\ DataPiece(q, data).at \in {Malformed, q}
<1>1. Runes(data) \in Seq(Nat)
  BY RunesType
<1> QED
  BY <1>1, NoPiece, PieceHere DEF DataPiece

(* Bytes that leave the levels alone. *)
LEMMA KeepsRun ==
  ASSUME NEW log \in Seq(Byte), NEW p \in 0 .. Len(log), NEW q \in p .. Len(log),
         \A t \in p .. (q - 1) : At(log, t) \notin NestCodes
  PROVE  Keeps(log, p, q)
BY PassesRun DEF Keeps

LEMMA KeepsOn ==
  ASSUME NEW log \in Seq(Byte), NEW p \in 0 .. Len(log), NEW q \in p .. Len(log),
         NEW r \in q .. Len(log), Keeps(log, p, q), Keeps(log, q, r)
  PROVE  Keeps(log, p, r)
<1>1. q \in Nat /\ r \in Nat /\ q <= r
  OBVIOUS
<1> QED
  BY <1>1, PassesOn DEF Keeps

LEMMA KeepsLayout ==
  ASSUME NEW log \in Seq(Byte), NEW p \in 0 .. Len(log)
  PROVE  ScanLayout(log, p, Len(log)) \in p .. Len(log) /\ Keeps(log, p, ScanLayout(log, p, Len(log)))
<1> DEFINE q == ScanLayout(log, p, Len(log))
<1>1. q \in p .. Len(log) /\ \A t \in p .. (q - 1) : IsLayout(At(log, t))
  <2>1. p \in Nat /\ Len(log) \in Nat /\ p <= Len(log)
    OBVIOUS
  <2> QED
    BY <2>1, ScanLayoutStops
<1>2. Layout \cap NestCodes = {}
  BY DEF Layout, NestCodes, SP, HT, LF, CR, STX, DLE, CAN, FS, GS, SYN
<1> HIDE DEF q
<1>3. \A t \in p .. (q - 1) : At(log, t) \notin NestCodes
  BY <1>1, <1>2 DEF IsLayout
<1> QED
  BY <1>1, <1>3, KeepsRun DEF q

LEMMA KeepsPlain ==
  ASSUME NEW log \in Seq(Byte), NEW p \in 0 .. Len(log)
  PROVE  ScanPlain(log, p, Len(log)) \in p .. Len(log) /\ Keeps(log, p, ScanPlain(log, p, Len(log)))
<1> DEFINE q == ScanPlain(log, p, Len(log))
<1>1. q \in p .. Len(log) /\ \A t \in p .. (q - 1) : IsPlainByte(At(log, t))
  <2>1. p \in Nat /\ Len(log) \in Nat /\ p <= Len(log)
    OBVIOUS
  <2> QED
    BY <2>1, ScanPlainStops
<1>2. \A b \in NestCodes : ~(b >= 32)
  BY DEF NestCodes, STX, DLE, CAN, FS, GS, SYN
<1> HIDE DEF q
<1>3. \A t \in p .. (q - 1) : At(log, t) \notin NestCodes
  BY <1>1, <1>2 DEF IsPlainByte
<1> QED
  BY <1>1, <1>3, KeepsRun DEF q

(* writePlain passes layout and plain bytes, of which the first is one     *)
(* where there is data.                                                    *)
LEMMA PlainPieceReads ==
  ASSUME NEW log \in Seq(Byte), NEW p \in 0 .. Len(log)
  PROVE  LET piece == PlainPiece(log, p) IN
         /\ piece \in PiecesFrom(log, p) /\ ~piece.opens
         /\ piece.at # Malformed =>
              /\ piece.at \in p .. Len(log)
              /\ \A t \in p .. (piece.at - 1) : At(log, t) # CAN
              /\ Peek(log, p, Len(log)) >= 32 => piece.at > p
<1> DEFINE n == Len(log)
           start == ScanLayout(log, p, n)
           end == ScanPlain(log, start, n)
           data == Trim(Slice(log, start, end))
<1>0. n \in Nat /\ p \in Nat /\ p <= n
  OBVIOUS
<1>1. /\ start \in p .. n /\ Keeps(log, p, start)
      /\ start < n => ~IsLayout(At(log, start))
      /\ \A t \in p .. (start - 1) : IsLayout(At(log, t))
  BY <1>0, KeepsLayout, ScanLayoutStops
<1> HIDE DEF start
<1>2. start \in 0 .. n /\ start \in Nat /\ start <= n
  BY <1>0, <1>1
<1>3. /\ end \in start .. n /\ Keeps(log, start, end)
      /\ end < n => ~IsPlainByte(At(log, end))
      /\ \A t \in start .. (end - 1) : IsPlainByte(At(log, t))
  BY <1>0, <1>2, KeepsPlain, ScanPlainStops
<1>4. Slice(log, start, end) \in Seq(Byte)
  <2>1. end \in Nat /\ start <= end /\ end <= n
    BY <1>2, <1>3
  <2> QED
    BY <1>2, <2>1, SliceBytes
<1>5. data \in Seq(Byte)
  BY <1>4, TrimType
<1> HIDE DEF end
<1>6. end \in p .. n /\ Keeps(log, p, end)
  <2>1. end \in p .. n
    BY <1>0, <1>1, <1>2, <1>3
  <2> QED
    BY <1>1, <1>3, <2>1, KeepsOn
<1> HIDE DEF data
<1>7. PlainPiece(log, p) = DataPiece(end, data)
  BY DEF PlainPiece, start, end, data
<1>8. \A t \in p .. (end - 1) : At(log, t) # CAN
  <2> TAKE t \in p .. (end - 1)
  <2>1. IsLayout(At(log, t)) \/ IsPlainByte(At(log, t))
    <3>1. t \in p .. (start - 1) \/ t \in start .. (end - 1)
      BY <1>1, <1>2, <1>3
    <3> QED
      BY <1>1, <1>3, <3>1
  <2> QED
    BY <2>1 DEF IsLayout, IsPlainByte, Layout, SP, HT, LF, CR, CAN
<1>9. Peek(log, p, n) >= 32 => end > p
  <2> SUFFICES ASSUME Peek(log, p, n) >= 32, end = p PROVE FALSE
    BY <1>0, <1>6
  <2>1. p \in 0 .. (n - 1) /\ At(log, p) >= 32
    BY <1>0 DEF Peek, None
  <2>2. start = p /\ p < n
    BY <1>0, <1>1, <1>3, <2>1
  <2> QED
    BY <1>3, <2>1, <2>2 DEF IsPlainByte
<1>10. /\ DataPiece(end, data) \in PiecesFrom(log, p) /\ ~DataPiece(end, data).opens
       /\ DataPiece(end, data).at \in {Malformed, end}
  BY <1>5, <1>6, DataPieceReads
<1> QED
  BY <1>6, <1>7, <1>8, <1>9, <1>10

(* A byte that leaves the levels alone, with the layout behind it; a text; *)
(* and a level.                                                            *)
LEMMA KeepsByte ==
  ASSUME NEW log \in Seq(Byte), NEW p \in 0 .. (Len(log) - 1), At(log, p) \notin NestCodes
  PROVE  LET next == ScanLayout(log, p + 1, Len(log)) IN
         /\ p + 1 \in p .. Len(log) /\ Keeps(log, p, p + 1)
         /\ next \in (p + 1) .. Len(log) /\ Keeps(log, p, next)
<1> DEFINE next == ScanLayout(log, p + 1, Len(log))
<1>0. p \in 0 .. Len(log) /\ p + 1 \in p .. Len(log) /\ p + 1 \in 0 .. Len(log)
  OBVIOUS
<1>1. Keeps(log, p, p + 1)
  BY PassesByte DEF Keeps
<1>2. next \in (p + 1) .. Len(log) /\ Keeps(log, p + 1, next)
  BY <1>0, KeepsLayout
<1> HIDE DEF next
<1>3. Keeps(log, p, next)
  BY <1>0, <1>1, <1>2, KeepsOn
<1> QED
  BY <1>0, <1>1, <1>2, <1>3 DEF next

LEMMA KeepsText ==
  ASSUME NEW log \in Seq(Byte), NEW p \in 0 .. (Len(log) - 1), At(log, p) = STX,
         ScanText(log, p, Len(log)) # Malformed
  PROVE  ScanText(log, p, Len(log)) \in (p + 2) .. Len(log)
         /\ Keeps(log, p, ScanText(log, p, Len(log)))
<1>1. p \in Nat /\ Len(log) \in Nat /\ p <= Len(log)
  OBVIOUS
<1> QED
  BY <1>1, ScanTextStops, PassesByte DEF Keeps

LEMMA KeepsLevel ==
  ASSUME NEW log \in Seq(Byte), NEW p \in 0 .. (Len(log) - 1), At(log, p) = DLE,
         ScanLevel(log, p, Len(log)) # Malformed
  PROVE  LET e == ScanLevel(log, p, Len(log)) IN
         /\ e \in (p + 2) .. Len(log) /\ At(log, e - 1) = CAN
         /\ Keeps(log, p, e)
<1>1. <<0>> \in LevelLists
  BY DEF LevelLists
<1> QED
  BY <1>1, LevelPasses DEF Keeps

(* writeText *)
LEMMA TextPieceType ==
  ASSUME NEW log \in Seq(Byte), NEW p \in 0 .. (Len(log) - 1),
         NEW end \in {Malformed} \cup (p + 2) .. Len(log)
  PROVE  /\ TextPiece(log, p, end) \in Pieces(Len(log)) /\ ~TextPiece(log, p, end).opens
         /\ TextPiece(log, p, end).at \in {Malformed, end}
<1> DEFINE n == Len(log)
           inside == Slice(log, p + 1, end - 1)
           shown(runes) == [i \in DOMAIN runes |-> Shown(runes[i])]
           written == <<Glyph(STX)>> \o shown(Runes(inside)) \o <<Glyph(ETX)>>
<1>0. n \in Nat
  OBVIOUS
<1>1. Panic \in Pieces(n) /\ Panic.at = Malformed /\ ~Panic.opens
  BY NoPiece DEF PiecesFrom
<1>2. CASE end = Malformed \/ HasGlyph(inside)
  BY <1>1, <1>2 DEF TextPiece
<1>3. CASE ~(end = Malformed \/ HasGlyph(inside))
  <2>1. end \in (p + 2) .. n
    BY <1>3
  <2>2. inside \in Seq(Byte)
    <3>1. p + 1 \in Nat /\ end - 1 \in Nat /\ p + 1 <= end - 1 /\ end - 1 <= n
      BY <2>1
    <3> QED
      BY <3>1, SliceBytes
  <2> HIDE DEF inside
  <2> DEFINE runes == Runes(inside)
  <2>3. runes \in Seq(Nat)
    BY <2>2, RunesType
  <2> HIDE DEF runes
  <2>4. \A r \in Nat : Shown(r) \in Nat /\ Glyph(r) \in Nat
    BY DEF Shown, Glyph
  <2>5. shown(runes) \in Seq(Nat)
    <3>1. DOMAIN runes = 1 .. Len(runes) /\ Len(runes) \in Nat /\ \A i \in DOMAIN runes : runes[i] \in Nat
      BY <2>3
    <3>2. \A k \in Nat : \A s \in [1 .. k -> Nat] : s \in Seq(Nat)
      OBVIOUS
    <3>3. shown(runes) \in [1 .. Len(runes) -> Nat]
      BY <2>4, <3>1
    <3> HIDE DEF shown
    <3> QED
      BY <3>1, <3>2, <3>3
  <2>6. Glyph(STX) \in Nat /\ Glyph(ETX) \in Nat
    BY DEF Glyph, STX, ETX
  <2>7. written \in Seq(Nat)
    <3> DEFINE middle == shown(runes)
    <3>1. middle \in Seq(Nat) /\ written = <<Glyph(STX)>> \o middle \o <<Glyph(ETX)>>
      BY <2>5 DEF runes
    <3> HIDE DEF middle, shown
    <3>2. \A a, b \in Nat : \A s \in Seq(Nat) : <<a>> \o s \o <<b>> \in Seq(Nat)
      OBVIOUS
    <3> QED
      BY <2>6, <3>1, <3>2
  <2>8. TextPiece(log, p, end) = Piece(end, written)
    BY <1>3 DEF TextPiece, inside
  <2> HIDE DEF written
  <2> QED
    BY <2>1, <2>7, <2>8 DEF Piece, Pieces, Positions
<1> QED
  BY <1>2, <1>3

LEMMA TextPieceReads ==
  ASSUME NEW log \in Seq(Byte), NEW p \in 0 .. (Len(log) - 1), At(log, p) = STX
  PROVE  LET piece == TextPiece(log, p, ScanText(log, p, Len(log))) IN
         /\ piece \in PiecesFrom(log, p) /\ ~piece.opens
         /\ piece.at # Malformed => piece.at \in (p + 2) .. Len(log)
<1> DEFINE n == Len(log)
           end == ScanText(log, p, n)
           piece == TextPiece(log, p, end)
<1>0. p \in Nat /\ n \in Nat /\ p <= n
  OBVIOUS
<1>1. end \in {Malformed} \cup (p + 2) .. n
  BY <1>0, ScanTextStops
<1>2. end # Malformed => Keeps(log, p, end)
  BY KeepsText
<1> HIDE DEF end
<1>3. piece \in Pieces(n) /\ ~piece.opens /\ piece.at \in {Malformed, end}
  BY <1>1, TextPieceType
<1> HIDE DEF piece
<1>4. ASSUME piece.at # Malformed
      PROVE  /\ p # Malformed /\ p <= piece.at /\ piece.at \in (p + 2) .. n
             /\ \A g \in LevelLists : Passes(log, p, g, piece.at, Left(g, piece.opens))
  <2>1. piece.at = end /\ end \in (p + 2) .. n
    BY <1>1, <1>3, <1>4
  <2> QED
    BY <1>0, <1>2, <1>3, <1>4, <2>1 DEF Keeps, Left, Malformed
<1> QED
  BY <1>3, <1>4 DEF PiecesFrom, piece, end
-----------------------------------------------------------------------------
(* writeInlineLevel: one turn of its recursion; it ends where the level    *)
(* does, as what stands last in it, its CAN, belongs to nothing before.    *)
InlineFrom(inline, log, stop, p) ==
  LET c == Peek(log, p, stop) IN
  CASE p = Malformed -> Panic
    [] c = STX -> ThenAll(TextPiece(log, p, ScanText(log, p, stop)), inline)
    [] c >= 32 -> ThenAll(PlainPiece(log, p), inline)
    [] IsLayout(c) /\ c < 32 -> inline[p + 1]
    [] c = None -> Piece(p, <<>>)
    [] OTHER -> Marked(c, inline[p + 1])

InlinePieces(n, stop) ==
  {piece \in Pieces(n) : piece.at \in {Malformed, stop} /\ ~piece.opens}

LEMMA InlinePrefixed ==
  ASSUME NEW n \in Nat, NEW stop, NEW piece \in InlinePieces(n, stop), NEW s \in Seq(Nat)
  PROVE  Prefixed(s, piece) \in InlinePieces(n, stop)
BY PieceParts DEF InlinePieces

LEMMA InlineTurn ==
  ASSUME NEW log \in Seq(Byte), NEW stop \in 1 .. Len(log), At(log, stop - 1) = CAN,
         NEW p \in Positions(stop), NEW f, NEW g,
         \A q \in Positions(stop) : Rest(stop)[q] < Rest(stop)[p] =>
           f[q] = g[q] /\ f[q] \in InlinePieces(Len(log), stop)
  PROVE  /\ InlineFrom(f, log, stop, p) = InlineFrom(g, log, stop, p)
         /\ InlineFrom(f, log, stop, p) \in InlinePieces(Len(log), stop)
<1> DEFINE n == Len(log)
           c == Peek(log, p, stop)
           end == ScanText(log, p, stop)
           shown == TextPiece(log, p, end)
           plain == PlainPiece(log, p)
<1>0. n \in Nat /\ stop \in Nat /\ stop <= n /\ Panic \in InlinePieces(n, stop) /\ <<>> \in Seq(Nat)
  BY NoPiece DEF PiecesFrom, InlinePieces
<1>1. CASE p = Malformed
  <2>1. InlineFrom(f, log, stop, p) = Panic /\ InlineFrom(g, log, stop, p) = Panic
    <3>1. c = None
      BY <1>1 DEF Peek, Malformed
    <3> QED
      BY <1>1, <3>1 DEF InlineFrom, Panic, None, STX, IsLayout, Layout, SP, HT, LF, CR
  <2> QED
    BY <1>0, <2>1
<1>2. CASE p = stop
  <2>1. c = None /\ p # Malformed
    BY <1>0, <1>2 DEF Peek, Malformed
  <2>2. InlineFrom(f, log, stop, p) = Piece(p, <<>>) /\ InlineFrom(g, log, stop, p) = Piece(p, <<>>)
    BY <2>1 DEF InlineFrom, None, STX, IsLayout, Layout, SP, HT, LF, CR
  <2>3. Piece(p, <<>>) \in InlinePieces(n, stop)
    BY <1>0, <1>2 DEF Piece, InlinePieces, Pieces, Positions
  <2> QED
    BY <2>2, <2>3
<1>3. CASE p \in 0 .. (stop - 1)
  <2>0. /\ c \in Byte /\ c = At(log, p) /\ c # None /\ p # Malformed
        /\ p \in 0 .. (n - 1) /\ p \in 0 .. n /\ Peek(log, p, n) = c
    <3>1. p \in 0 .. (n - 1) /\ p \in 0 .. n /\ p # Malformed
      BY <1>0, <1>3 DEF Malformed
    <3>2. c \in Byte /\ c = At(log, p) /\ Peek(log, p, n) = At(log, p)
      BY <1>0, <1>3, <3>1, PeekSome DEF Peek
    <3>3. None \notin Byte
      BY DEF None, Byte
    <3> HIDE DEF c
    <3> QED
      BY <3>1, <3>2, <3>3
  <2>1. ASSUME NEW q \in Positions(stop), q = Malformed \/ q > p
        PROVE  f[q] = g[q] /\ f[q] \in InlinePieces(n, stop)
    <3>1. Rest(stop)[q] < Rest(stop)[p]
      BY <1>0, <1>3, <2>1 DEF Rest, Positions, Malformed
    <3> QED
      BY <3>1
  <2>2. p + 1 \in Positions(stop) /\ p + 1 > p
    BY <1>0, <1>3 DEF Positions
  <2>3. /\ f[p + 1] = g[p + 1] /\ f[p + 1] \in InlinePieces(n, stop)
    BY <2>1, <2>2
  <2>4. ASSUME NEW piece \in Pieces(n), piece.at \in Positions(stop),
               piece.at = Malformed \/ piece.at > p
        PROVE  /\ ThenAll(piece, f) = ThenAll(piece, g)
               /\ ThenAll(piece, f) \in InlinePieces(n, stop)
    <3>1. f[piece.at] = g[piece.at] /\ f[piece.at] \in InlinePieces(n, stop)
      BY <2>1, <2>4
    <3>2. piece.runes \in Seq(Nat)
      BY DEF Pieces
    <3> QED
      BY <1>0, <3>1, <3>2, InlinePrefixed DEF ThenAll
  <2> HIDE DEF c
  <2>5. CASE c = STX
    <3>1. end \in {Malformed} \cup (p + 2) .. stop
      BY <1>0, <1>3, ScanTextStops
    <3> HIDE DEF end
    <3>2. shown \in Pieces(n) /\ shown.at \in {Malformed, end}
      BY <1>0, <2>0, <3>1, TextPieceType
    <3> HIDE DEF shown
    <3>3. shown.at \in Positions(stop) /\ (shown.at = Malformed \/ shown.at > p)
      BY <1>0, <1>3, <3>1, <3>2 DEF Positions
    <3>4. InlineFrom(f, log, stop, p) = ThenAll(shown, f) /\ InlineFrom(g, log, stop, p) = ThenAll(shown, g)
      BY <2>0, <2>5 DEF InlineFrom, None, STX, IsLayout, Layout, SP, HT, LF, CR, c, shown, end
    <3> QED
      BY <2>4, <3>2, <3>3, <3>4
  <2>6. CASE c >= 32
    <3>1. /\ plain \in Pieces(n)
          /\ plain.at # Malformed => /\ plain.at \in p .. n /\ plain.at > p
                                     /\ \A t \in p .. (plain.at - 1) : At(log, t) # CAN
      BY <2>0, <2>6, PlainPieceReads DEF PiecesFrom
    <3> HIDE DEF plain
    <3>2. plain.at # Malformed => plain.at \in p .. stop
      <4> SUFFICES ASSUME plain.at # Malformed, ~(plain.at <= stop) PROVE FALSE
        BY <1>0, <1>3, <3>1
      <4>1. stop - 1 \in p .. (plain.at - 1)
        BY <1>0, <1>3, <3>1
      <4> QED
        BY <3>1, <4>1
    <3>3. plain.at \in Positions(stop) /\ (plain.at = Malformed \/ plain.at > p)
      BY <1>0, <1>3, <3>1, <3>2 DEF Positions
    <3>4. InlineFrom(f, log, stop, p) = ThenAll(plain, f) /\ InlineFrom(g, log, stop, p) = ThenAll(plain, g)
      BY <2>0, <2>6 DEF InlineFrom, None, STX, IsLayout, Layout, SP, HT, LF, CR, c, plain
    <3> QED
      BY <2>4, <3>1, <3>3, <3>4
  <2>7. CASE IsLayout(c) /\ c < 32
    <3>1. InlineFrom(f, log, stop, p) = f[p + 1] /\ InlineFrom(g, log, stop, p) = g[p + 1]
      BY <2>0, <2>7 DEF InlineFrom, None, STX, IsLayout, Layout, SP, HT, LF, CR, c
    <3> QED
      BY <2>3, <3>1
  <2>8. CASE c # STX /\ ~(c >= 32) /\ ~(IsLayout(c) /\ c < 32)
    <3>1. InlineFrom(f, log, stop, p) = Marked(c, f[p + 1])
          /\ InlineFrom(g, log, stop, p) = Marked(c, g[p + 1])
      BY <2>0, <2>8 DEF InlineFrom, c
    <3>2. <<Glyph(c)>> \in Seq(Nat)
      <4>1. \A b \in Byte : <<Glyph(b)>> \in Seq(Nat)
        BY DEF Glyph, Byte
      <4> QED
        BY <2>0, <4>1
    <3> QED
      BY <1>0, <2>3, <3>1, <3>2, InlinePrefixed DEF Marked
  <2> QED
    BY <2>5, <2>6, <2>7, <2>8
<1> QED
  BY <1>0, <1>1, <1>2, <1>3 DEF Positions

LEMMA InlineLevelReads ==
  ASSUME NEW log \in Seq(Byte), NEW stop \in 1 .. Len(log), At(log, stop - 1) = CAN,
         NEW start \in 0 .. stop
  PROVE  InlineLevel(log, start, stop) \in InlinePieces(Len(log), stop)
<1> DEFINE D == Positions(stop)
           P == InlinePieces(Len(log), stop)
           F == [D -> P]
           G == [f \in F |-> [p \in D |-> InlineFrom(f, log, stop, p)]]
           m == Rest(stop)
           N == stop + 1
<1>1. m \in [D -> 0 .. N] /\ m \in [D -> Nat] /\ N \in Nat
  BY RestType
<1>2. ASSUME NEW f, NEW g, NEW p \in D, \A q \in D : m[q] < m[p] => f[q] = g[q] /\ f[q] \in P
      PROVE  InlineFrom(f, log, stop, p) = InlineFrom(g, log, stop, p) /\ InlineFrom(f, log, stop, p) \in P
  BY <1>2, InlineTurn
<1> HIDE DEF D, P, m
<1>3. G \in [F -> F]
  <2>1. ASSUME NEW f \in F, NEW p \in D PROVE InlineFrom(f, log, stop, p) \in P
    <3>1. \A q \in D : f[q] = f[q] /\ f[q] \in P
      OBVIOUS
    <3> QED
      BY <3>1, <1>2
  <2> QED
    BY <2>1
<1>4. \E f \in F : f = G[f]
  <2>1. F # {} /\ \A f \in F : f = [p \in D |-> f[p]]
    <3>1. Panic \in P
      BY NoPiece DEF P, PiecesFrom, InlinePieces
    <3>2. [p \in D |-> Panic] \in F
      BY <3>1
    <3> QED
      BY <3>2
  <2>2. ASSUME NEW f \in F, NEW g \in F, NEW p \in D, \A q \in D : m[q] < m[p] => f[q] = g[q]
        PROVE  G[f][p] = G[g][p]
    <3>1. \A q \in D : m[q] < m[p] => f[q] = g[q] /\ f[q] \in P
      BY <2>2
    <3> QED
      BY <3>1, <1>2
  <2>3. Contracts(D, F, m, G)
    BY <2>2 DEF Contracts
  <2>4. N \in Nat /\ m \in [D -> 0 .. N]
    BY <1>1
  <2> HIDE DEF F, G, N
  <2>r. Recursion(D, F, m, N, G)
    BY ONLY <1>3, <2>1, <2>3, <2>4 DEF Recursion
  <2> QED
    BY ONLY <2>r, Solution
<1> DEFINE inline == CHOOSE f : f = [p \in D |-> InlineFrom(f, log, stop, p)]
<1>5. InlineLevel(log, start, stop) = inline[start]
  BY DEF InlineLevel, InlineFrom, D
<1>6. inline = [p \in D |-> InlineFrom(inline, log, stop, p)]
  BY <1>4
<1> HIDE DEF inline
<1> DEFINE T == {p \in D : inline[p] \in P}
<1>7. ASSUME NEW p \in D, \A q \in D : m[q] < m[p] => q \in T
      PROVE  p \in T
  <2>1. \A q \in D : m[q] < m[p] => inline[q] = inline[q] /\ inline[q] \in P
    BY <1>7
  <2>2. InlineFrom(inline, log, stop, p) \in P
    BY <2>1, <1>2
  <2> QED
    BY <2>2, <1>6
<1>8. D \subseteq T
  <2> HIDE DEF T
  <2> QED
    BY <1>1, <1>7, MeasureInduct
<1>9. start \in D
  BY DEF D, Positions
<1> QED
  BY <1>5, <1>8, <1>9 DEF P
-----------------------------------------------------------------------------
(* writeHeading: a value, a key with its value, one turn of its recursion. *)
LEMMA HeadingValueReads ==
  ASSUME NEW log \in Seq(Byte), NEW p \in 0 .. Len(log)
  PROVE  HeadingValue(log, p) \in PiecesFrom(log, p) /\ ~HeadingValue(log, p).opens
<1> DEFINE n == Len(log)
           c == Peek(log, p, n)
           e == ScanLevel(log, p, n)
           inline == InlineLevel(log, p, e)
<1>0. n \in Nat /\ STX # DLE
  BY DEF STX, DLE
<1>1. CASE c = STX
  <2>1. p \in 0 .. (n - 1) /\ At(log, p) = STX
    BY <1>0, <1>1, PeekSome DEF STX, None
  <2>2. HeadingValue(log, p) = TextPiece(log, p, ScanText(log, p, n))
    BY <1>0, <1>1 DEF HeadingValue
  <2> QED
    BY <2>1, <2>2, TextPieceReads
<1>2. CASE c = DLE
  <2>1. p \in 0 .. (n - 1) /\ At(log, p) = DLE
    BY <1>0, <1>2, PeekSome DEF DLE, None
  <2>2. HeadingValue(log, p) = IF e = Malformed THEN Panic ELSE inline
    BY <1>0, <1>2 DEF HeadingValue
  <2>3. CASE e = Malformed
    BY <2>2, <2>3, NoPiece
  <2>4. CASE e # Malformed
    <3>1. e \in (p + 2) .. n /\ At(log, e - 1) = CAN /\ Keeps(log, p, e)
      BY <2>1, <2>4, KeepsLevel
    <3> HIDE DEF e
    <3>2. e \in 1 .. n /\ p \in 0 .. e /\ p # Malformed /\ p <= e
      BY <2>1, <3>1 DEF Malformed
    <3>3. inline \in InlinePieces(n, e)
      BY <3>1, <3>2, InlineLevelReads
    <3> HIDE DEF inline
    <3>4. inline \in PiecesFrom(log, p) /\ ~inline.opens
      BY <3>1, <3>2, <3>3 DEF InlinePieces, PiecesFrom, Keeps, Left
    <3> QED
      BY <2>2, <2>4, <3>4
  <2> QED
    BY <2>3, <2>4
<1>3. CASE c # STX /\ c # DLE
  <2>1. HeadingValue(log, p) = PlainPiece(log, p)
    BY <1>3 DEF HeadingValue
  <2> QED
    BY <2>1, PlainPieceReads
<1> QED
  BY <1>1, <1>2, <1>3

(* The glyph of a code before a piece. *)
LEMMA MarkedReads ==
  ASSUME NEW log \in Seq(Byte), NEW p \in 0 .. Len(log), NEW q \in p .. Len(log), Keeps(log, p, q),
         NEW b \in Byte, NEW piece \in PiecesFrom(log, q)
  PROVE  /\ Marked(b, piece) \in PiecesFrom(log, p)
         /\ Marked(b, piece).at = piece.at /\ Marked(b, piece).opens = piece.opens
<1> DEFINE s == <<Glyph(b)>>
<1>1. s \in Seq(Nat)
  BY DEF Glyph, Byte
<1>2. Marked(b, piece) = Prefixed(s, piece)
  BY DEF Marked
<1> HIDE DEF s
<1> QED
  BY <1>1, <1>2, PieceGoesOn

LEMMA HeadingUnitReads ==
  ASSUME NEW log \in Seq(Byte), NEW p \in 0 .. Len(log), NEW key \in PiecesFrom(log, p), ~key.opens
  PROVE  HeadingUnit(log, key) \in PiecesFrom(log, p) /\ ~HeadingUnit(log, key).opens
<1> DEFINE n == Len(log)
           next == ScanLayout(log, key.at + 1, n)
           value == Marked(US, HeadingValue(log, next))
<1>0. n \in Nat /\ US \in Byte /\ US # None /\ US \notin NestCodes
  BY DEF US, Byte, None, NestCodes, STX, DLE, CAN, FS, GS, SYN
<1>1. CASE Peek(log, key.at, n) # US
  BY <1>1 DEF HeadingUnit
<1>2. CASE Peek(log, key.at, n) = US
  <2>1. key.at \in 0 .. (n - 1) /\ At(log, key.at) = US
    BY <1>0, <1>2, PeekSome
  <2>2. next \in (key.at + 1) .. n /\ Keeps(log, key.at, next)
    BY <1>0, <2>1, KeepsByte
  <2> HIDE DEF next
  <2>3. key.at \in 0 .. n /\ next \in key.at .. n /\ next \in 0 .. n
    BY <1>0, <2>1, <2>2
  <2>4. HeadingValue(log, next) \in PiecesFrom(log, next) /\ ~HeadingValue(log, next).opens
    BY <2>3, HeadingValueReads
  <2>5. value \in PiecesFrom(log, key.at) /\ ~value.opens
    BY <1>0, <2>2, <2>3, <2>4, MarkedReads
  <2>6. HeadingUnit(log, key) = Prefixed(key.runes, value)
    BY <1>2 DEF HeadingUnit, next
  <2> HIDE DEF value
  <2>7. key.at # Malformed /\ key \in Pieces(n)
    BY <2>1 DEF Malformed, PiecesFrom
  <2>8. key.at \in p .. n /\ Keeps(log, p, key.at) /\ key.runes \in Seq(Nat)
    BY <2>3, <2>7 DEF PiecesFrom, Keeps, Left, Pieces
  <2> QED
    BY <2>5, <2>6, <2>8, PieceGoesOn
<1> QED
  BY <1>1, <1>2

(* Reading on behind p with one of two functions that agree there. *)
ReadAlike(log, p, f, g) ==
  \A q \in Positions(Len(log)) : q = Malformed \/ q > p =>
    f[q] = g[q] /\ f[q] \in PiecesFrom(log, q)

LEMMA ReadsThen ==
  ASSUME NEW log \in Seq(Byte), NEW p \in 0 .. (Len(log) - 1), NEW f, NEW g, ReadAlike(log, p, f, g),
         NEW q \in p .. Len(log), NEW piece \in PiecesFrom(log, q), ~piece.opens,
         piece.at = Malformed \/ piece.at > p
  PROVE  /\ ThenAll(piece, f) = ThenAll(piece, g)
         /\ ThenAll(piece, f) \in PiecesFrom(log, q)
         /\ ThenAll(piece, f).at = f[piece.at].at
         /\ ThenAll(piece, f).opens = f[piece.at].opens
         /\ piece.at \in Positions(Len(log))
         /\ f[piece.at].at # p
<1>1. piece.at \in Positions(Len(log))
  BY DEF PiecesFrom, Pieces
<1>2. f[piece.at] = g[piece.at] /\ f[piece.at] \in PiecesFrom(log, piece.at)
  BY <1>1 DEF ReadAlike
<1>3. q \in 0 .. Len(log)
  OBVIOUS
<1>4. f[piece.at].at # p
  <2> SUFFICES ASSUME f[piece.at].at = p PROVE FALSE
    OBVIOUS
  <2>1. p # Malformed /\ Malformed \notin 0 .. Len(log)
    BY DEF Malformed
  <2>2. piece.at # Malformed /\ piece.at <= p
    BY <1>2, <2>1 DEF PiecesFrom
  <2>3. piece.at > p /\ piece.at \in 0 .. Len(log)
    BY <1>1, <2>2 DEF Positions
  <2> QED
    BY <2>2, <2>3
<1> QED
  BY <1>1, <1>2, <1>3, <1>4, PieceThen DEF ThenAll

HeadingFrom(heading, log, p) ==
  LET n == Len(log)
      c == Peek(log, p, n)
      next == ScanLayout(log, p + 1, n)
      marked == PeekBehind(log, p, n)
  IN  CASE c = SOH /\ ~StartsHeaderRow(log, p, n) ->
             Marked(SOH, ThenAll(HeadingUnit(log, PlainPiece(log, next)), heading))
        [] p = Malformed -> Panic
        [] c = BEL /\ marked = STX ->
             Marked(BEL, ThenAll(TextPiece(log, next, ScanText(log, next, n)), heading))
        [] c = BEL /\ marked >= 32 -> Marked(BEL, ThenAll(PlainPiece(log, next), heading))
        [] c = BEL /\ marked = SOH -> Marked(BEL, heading[next])
        [] IsLayout(c) -> heading[p + 1]
        [] OTHER -> Piece(p, <<>>)

HeadingPieces(log, p) == {piece \in PiecesFrom(log, p) : ~piece.opens}

LEMMA HeadingTurn ==
  ASSUME NEW log \in Seq(Byte), NEW p \in Positions(Len(log)), NEW f, NEW g,
         \A q \in Positions(Len(log)) : Rest(Len(log))[q] < Rest(Len(log))[p] =>
           f[q] = g[q] /\ f[q] \in HeadingPieces(log, q)
  PROVE  /\ HeadingFrom(f, log, p) = HeadingFrom(g, log, p)
         /\ HeadingFrom(f, log, p) \in HeadingPieces(log, p)
<1> DEFINE n == Len(log)
           c == Peek(log, p, n)
           next == ScanLayout(log, p + 1, n)
           marked == PeekBehind(log, p, n)
           unit == HeadingUnit(log, PlainPiece(log, next))
           note == TextPiece(log, next, ScanText(log, next, n))
           plain == PlainPiece(log, next)
           other == ~\/ c = SOH /\ ~StartsHeaderRow(log, p, n)
                     \/ c = BEL /\ (marked = STX \/ marked >= 32 \/ marked = SOH)
                     \/ IsLayout(c)
<1>0. n \in Nat /\ <<>> \in Seq(Nat) /\ SOH # BEL /\ ~IsLayout(SOH) /\ ~IsLayout(BEL)
      /\ STX # SOH /\ ~(STX >= 32) /\ ~(SOH >= 32) /\ SOH # None /\ BEL # None /\ ~IsLayout(None)
      /\ SOH \in Byte /\ BEL \in Byte /\ STX # None
  BY DEF SOH, STX, BEL, None, IsLayout, Layout, SP, HT, LF, CR, Byte
<1>1. CASE p = Malformed
  <2>1. c = None
    BY <1>1 DEF Peek, Malformed
  <2> HIDE DEF c
  <2>2. HeadingFrom(f, log, p) = Panic /\ HeadingFrom(g, log, p) = Panic
    BY <1>0, <1>1, <2>1 DEF HeadingFrom, c
  <2> QED
    BY <2>2, NoPiece DEF HeadingPieces
<1>2. CASE p # Malformed /\ other
  <2>1. HeadingFrom(f, log, p) = Piece(p, <<>>) /\ HeadingFrom(g, log, p) = Piece(p, <<>>)
    BY <1>2 DEF HeadingFrom
  <2>2. p \in 0 .. n /\ p \in p .. n
    BY <1>0, <1>2 DEF Positions
  <2>3. Keeps(log, p, p)
    BY PassesHere DEF Keeps
  <2>4. Piece(p, <<>>) \in PiecesFrom(log, p) /\ ~Piece(p, <<>>).opens
    BY <1>0, <2>2, <2>3, PieceHere
  <2> QED
    BY <2>1, <2>4 DEF HeadingPieces
<1>3. CASE p # Malformed /\ ~other
  <2>0. p \in 0 .. (n - 1) /\ p \in 0 .. n /\ c = At(log, p)
    <3>1. c # None
      BY <1>0, <1>3
    <3> HIDE DEF c
    <3>2. p \in 0 .. (n - 1) /\ c = At(log, p)
      BY <1>0, <3>1, PeekSome DEF c
    <3> QED
      BY <3>2
  <2>1. \A q \in Positions(n) : q = Malformed \/ q > p =>
          f[q] = g[q] /\ f[q] \in PiecesFrom(log, q) /\ ~f[q].opens
    <3> TAKE q \in Positions(n)
    <3> HAVE q = Malformed \/ q > p
    <3>1. Rest(n)[q] < Rest(n)[p]
      BY <1>0, <2>0 DEF Rest, Positions, Malformed
    <3> QED
      BY <3>1 DEF HeadingPieces
  <2>2. At(log, p) \notin NestCodes
    <3>1. c \in {SOH, BEL} \cup Layout
      BY <1>3 DEF IsLayout
    <3> HIDE DEF c
    <3> QED
      BY <2>0, <3>1 DEF NestCodes, SOH, STX, BEL, DLE, CAN, FS, GS, SYN, Layout, SP, HT, LF, CR
  <2>3. /\ next \in (p + 1) .. n /\ Keeps(log, p, next)
        /\ p + 1 \in p .. n /\ Keeps(log, p, p + 1)
    BY <2>0, <2>2, KeepsByte
  <2>m. marked = Peek(log, next, n)
    BY DEF PeekBehind
  <2> HIDE DEF next, marked
  <2>4. next \in 0 .. n /\ next \in p .. n /\ next > p /\ next \in Positions(n)
        /\ p + 1 \in Positions(n) /\ p + 1 > p
    BY <1>0, <2>0, <2>3 DEF Positions
  <2>5. ASSUME NEW piece \in PiecesFrom(log, next), ~piece.opens, NEW b \in Byte
        PROVE  /\ Marked(b, ThenAll(piece, f)) = Marked(b, ThenAll(piece, g))
               /\ Marked(b, ThenAll(piece, f)) \in HeadingPieces(log, p)
    <3>1. piece.at = Malformed \/ piece.at > p
      BY <2>0, <2>4 DEF PiecesFrom, Pieces, Positions
    <3>2. /\ ThenAll(piece, f) = ThenAll(piece, g)
          /\ ThenAll(piece, f) \in PiecesFrom(log, next)
          /\ ThenAll(piece, f).opens = f[piece.at].opens
          /\ piece.at \in Positions(n)
      <4>1. ReadAlike(log, p, f, g)
        BY <2>1 DEF ReadAlike
      <4> QED
        BY <2>0, <2>4, <2>5, <3>1, <4>1, ReadsThen
    <3>3. ~ThenAll(piece, f).opens
      BY <2>1, <3>1, <3>2
    <3> QED
      BY <2>0, <2>3, <2>4, <3>2, <3>3, MarkedReads DEF HeadingPieces
  <2> HIDE DEF c
  <2>6. CASE c = SOH /\ ~StartsHeaderRow(log, p, n)
    <3>1. unit \in PiecesFrom(log, next) /\ ~unit.opens
      BY <2>4, PlainPieceReads, HeadingUnitReads
    <3> HIDE DEF unit
    <3>2. HeadingFrom(f, log, p) = Marked(SOH, ThenAll(unit, f))
      BY <1>0, <1>3, <2>6 DEF HeadingFrom, c, unit, next
    <3>3. HeadingFrom(g, log, p) = Marked(SOH, ThenAll(unit, g))
      BY <1>0, <1>3, <2>6 DEF HeadingFrom, c, unit, next
    <3> QED
      BY <1>0, <2>5, <3>1, <3>2, <3>3
  <2>7. CASE c = BEL /\ marked = STX
    <3>0. Peek(log, next, n) = STX
      BY <2>m, <2>7
    <3>1. next \in 0 .. (n - 1) /\ At(log, next) = STX
      BY <1>0, <3>0, PeekSome
    <3>2. note \in PiecesFrom(log, next) /\ ~note.opens
      BY <3>1, TextPieceReads
    <3> HIDE DEF note
    <3>3. HeadingFrom(f, log, p) = Marked(BEL, ThenAll(note, f))
      BY <1>0, <1>3, <2>7 DEF HeadingFrom, c, note, next, marked
    <3>4. HeadingFrom(g, log, p) = Marked(BEL, ThenAll(note, g))
      BY <1>0, <1>3, <2>7 DEF HeadingFrom, c, note, next, marked
    <3> QED
      BY <1>0, <2>5, <3>2, <3>3, <3>4
  <2>8. CASE c = BEL /\ marked >= 32
    <3>1. plain \in PiecesFrom(log, next) /\ ~plain.opens
      BY <2>4, PlainPieceReads
    <3>0. marked # STX /\ marked # SOH
      BY <1>0, <2>8
    <3> HIDE DEF plain
    <3>3. HeadingFrom(f, log, p) = Marked(BEL, ThenAll(plain, f))
      BY <1>0, <1>3, <2>8, <3>0 DEF HeadingFrom, c, plain, next, marked
    <3>4. HeadingFrom(g, log, p) = Marked(BEL, ThenAll(plain, g))
      BY <1>0, <1>3, <2>8, <3>0 DEF HeadingFrom, c, plain, next, marked
    <3> QED
      BY <1>0, <2>5, <3>1, <3>3, <3>4
  <2>9. CASE c = BEL /\ marked = SOH
    <3>1. HeadingFrom(f, log, p) = Marked(BEL, f[next]) /\ HeadingFrom(g, log, p) = Marked(BEL, g[next])
      BY <1>0, <1>3, <2>9 DEF HeadingFrom, c, next, marked
    <3>2. f[next] = g[next] /\ f[next] \in PiecesFrom(log, next) /\ ~f[next].opens
      BY <2>1, <2>4
    <3> QED
      BY <1>0, <2>0, <2>3, <2>4, <3>1, <3>2, MarkedReads DEF HeadingPieces
  <2>10. CASE IsLayout(c)
    <3>1. HeadingFrom(f, log, p) = f[p + 1] /\ HeadingFrom(g, log, p) = g[p + 1]
      BY <1>0, <1>3, <2>10 DEF HeadingFrom, c
    <3>2. f[p + 1] = g[p + 1] /\ f[p + 1] \in PiecesFrom(log, p + 1) /\ ~f[p + 1].opens
      BY <2>1, <2>4
    <3>3. f[p + 1] \in PiecesFrom(log, p)
      BY <1>0, <2>0, <2>3, <3>2, PieceGoesOn
    <3> QED
      BY <3>1, <3>2, <3>3 DEF HeadingPieces
  <2> QED
    BY <1>3, <2>6, <2>7, <2>8, <2>9, <2>10
<1> QED
  BY <1>1, <1>2, <1>3

LEMMA HeadingReads ==
  ASSUME NEW log \in Seq(Byte), NEW start \in 0 .. Len(log)
  PROVE  Heading(log, start) \in PiecesFrom(log, start) /\ ~Heading(log, start).opens
<1> DEFINE D == Positions(Len(log))
           R == [p \in D |-> HeadingPieces(log, p)]
           F == {f \in [D -> Pieces(Len(log))] : \A p \in D : f[p] \in R[p]}
           G == [f \in F |-> [p \in D |-> HeadingFrom(f, log, p)]]
           m == Rest(Len(log))
           N == Len(log) + 1
<1>0. \A p \in D : R[p] \subseteq Pieces(Len(log)) /\ Panic \in R[p]
  BY NoPiece DEF HeadingPieces, PiecesFrom
<1>1. m \in [D -> 0 .. N] /\ m \in [D -> Nat] /\ N \in Nat
  BY RestType
<1>2. ASSUME NEW f, NEW g, NEW p \in D, \A q \in D : m[q] < m[p] => f[q] = g[q] /\ f[q] \in R[q]
      PROVE  HeadingFrom(f, log, p) = HeadingFrom(g, log, p) /\ HeadingFrom(f, log, p) \in R[p]
  BY <1>2, HeadingTurn
<1> HIDE DEF D, R, m
<1>3. G \in [F -> F]
  <2>1. ASSUME NEW f \in F, NEW p \in D PROVE HeadingFrom(f, log, p) \in R[p]
    <3>1. \A q \in D : f[q] = f[q] /\ f[q] \in R[q]
      OBVIOUS
    <3> QED
      BY <3>1, <1>2
  <2> QED
    BY <1>0, <2>1
<1>4. \E f \in F : f = G[f]
  <2>1. F # {} /\ \A f \in F : f = [p \in D |-> f[p]]
    <3>1. [p \in D |-> Panic] \in F
      BY <1>0
    <3> QED
      BY <3>1
  <2>2. ASSUME NEW f \in F, NEW g \in F, NEW p \in D, \A q \in D : m[q] < m[p] => f[q] = g[q]
        PROVE  G[f][p] = G[g][p]
    <3>1. \A q \in D : m[q] < m[p] => f[q] = g[q] /\ f[q] \in R[q]
      BY <2>2
    <3> QED
      BY <3>1, <1>2
  <2>3. Contracts(D, F, m, G)
    BY <2>2 DEF Contracts
  <2>4. N \in Nat /\ m \in [D -> 0 .. N]
    BY <1>1
  <2> HIDE DEF F, G, N
  <2>r. Recursion(D, F, m, N, G)
    BY ONLY <1>3, <2>1, <2>3, <2>4 DEF Recursion
  <2> QED
    BY ONLY <2>r, Solution
<1> DEFINE heading == CHOOSE f : f = [p \in D |-> HeadingFrom(f, log, p)]
<1>5. Heading(log, start) = heading[start]
  BY DEF Heading, HeadingFrom, D
<1>6. heading = [p \in D |-> HeadingFrom(heading, log, p)]
  BY <1>4
<1> HIDE DEF heading
<1> DEFINE T == {p \in D : heading[p] \in R[p]}
<1>7. ASSUME NEW p \in D, \A q \in D : m[q] < m[p] => q \in T
      PROVE  p \in T
  <2>1. \A q \in D : m[q] < m[p] => heading[q] = heading[q] /\ heading[q] \in R[q]
    BY <1>7
  <2>2. HeadingFrom(heading, log, p) \in R[p]
    BY <2>1, <1>2
  <2> QED
    BY <2>2, <1>6
<1>8. D \subseteq T
  <2> HIDE DEF T
  <2> QED
    BY <1>1, <1>7, MeasureInduct
<1>9. start \in D /\ R[start] = HeadingPieces(log, start)
  BY DEF D, R, Positions
<1> QED
  BY <1>5, <1>8, <1>9 DEF HeadingPieces
-----------------------------------------------------------------------------
(***************************************************************************)
(* writeUnits: one turn of its recursion; at the codes that stand in the   *)
(* place of an element it reads on.                                        *)
(***************************************************************************)
UnitsFrom(units, log, p) ==
  LET n == Len(log)
      c == Peek(log, p, n)
  IN  CASE c >= 32 -> ThenAll(PlainPiece(log, p), units)
        [] p = Malformed -> Panic
        [] IsLayout(c) /\ c < 32 -> units[p + 1]
        [] c \in UnitMarks \/ (c = SOH /\ ~StartsHeaderRow(log, p, n)) ->
             Marked(c, units[p + 1])
        [] c = STX -> ThenAll(TextPiece(log, p, ScanText(log, p, n)), units)
        [] c = DLE -> [at |-> p + 1, runes |-> <<Glyph(DLE), LF>>, opens |-> TRUE]
        [] c = BEL /\ MarksUnit(PeekBehind(log, p, n)) ->
             Marked(BEL, units[ScanLayout(log, p + 1, n)])
        [] c = ETB -> Marked(ETB, ThenAll(PlainPiece(log, p + 1), units))
        [] OTHER -> Piece(p, <<>>)

UnitPieces(log, p) ==
  {piece \in PiecesFrom(log, p) : Peek(log, p, Len(log)) \in Inline => piece.at # p}

LEMMA UnitsTurn ==
  ASSUME NEW log \in Seq(Byte), NEW p \in Positions(Len(log)), NEW f, NEW g,
         \A q \in Positions(Len(log)) : Rest(Len(log))[q] < Rest(Len(log))[p] =>
           f[q] = g[q] /\ f[q] \in UnitPieces(log, q)
  PROVE  /\ UnitsFrom(f, log, p) = UnitsFrom(g, log, p)
         /\ UnitsFrom(f, log, p) \in UnitPieces(log, p)
<1> DEFINE n == Len(log)
           c == Peek(log, p, n)
           next == ScanLayout(log, p + 1, n)
           note == TextPiece(log, p, ScanText(log, p, n))
           plain == PlainPiece(log, p)
           plain1 == PlainPiece(log, p + 1)
           row == StartsHeaderRow(log, p, n)
           deadUnit == MarksUnit(PeekBehind(log, p, n))
           special == \/ c >= 32 
                      \/ IsLayout(c) /\ c < 32
                      \/ c \in UnitMarks
                      \/ c = SOH /\ ~row
                      \/ c \in {STX, DLE, ETB}
                      \/ c = BEL /\ deadUnit
<1>0. n \in Nat /\ <<>> \in Seq(Nat) /\ SOH \in Byte /\ BEL \in Byte /\ ETB \in Byte
  BY DEF SOH, BEL, ETB, Byte
<1> HIDE DEF row, deadUnit
<1>1. CASE p = Malformed
  <2>1. c = None
    BY <1>1 DEF Peek, Malformed
  <2> HIDE DEF c
  <2>2. UnitsFrom(f, log, p) = Panic /\ UnitsFrom(g, log, p) = Panic
    BY <1>1, <2>1 DEF UnitsFrom, c, None, IsLayout, Layout, SP, HT, LF, CR, UnitMarks, US, ENQ, SUB,
                      SOH, STX, DLE, BEL, ETB
  <2>3. Panic \in UnitPieces(log, p)
    BY <2>1, NoPiece DEF UnitPieces, c, None, Inline, STX, DLE, ENQ, US, SUB
  <2> QED
    BY <2>2, <2>3
<1>2. CASE p # Malformed /\ ~special
  <2>1. UnitsFrom(f, log, p) = Piece(p, <<>>) /\ UnitsFrom(g, log, p) = Piece(p, <<>>)
    BY <1>2 DEF UnitsFrom, row, deadUnit
  <2>2. p \in 0 .. n /\ p \in p .. n
    BY <1>0, <1>2 DEF Positions
  <2>3. Keeps(log, p, p)
    BY PassesHere DEF Keeps
  <2>4. Piece(p, <<>>) \in PiecesFrom(log, p)
    BY <1>0, <2>2, <2>3, PieceHere
  <2>5. c \notin Inline
    BY <1>2 DEF Inline, UnitMarks
  <2> QED
    BY <2>1, <2>4, <2>5 DEF UnitPieces
<1>3. CASE p # Malformed /\ special
  <2>0. p \in 0 .. (n - 1) /\ p \in 0 .. n /\ c = At(log, p) /\ c \in Byte
    <3>1. c # None
      BY <1>3 DEF None, IsLayout, Layout, SP, HT, LF, CR, UnitMarks, US, ENQ, SUB, SOH, STX, DLE, BEL, ETB
    <3> HIDE DEF c
    <3>2. p \in 0 .. (n - 1) /\ c = At(log, p) /\ c \in Byte
      BY <1>0, <3>1, PeekSome DEF c
    <3> QED
      BY <3>2
  <2>1. \A q \in Positions(n) : q = Malformed \/ q > p => f[q] = g[q] /\ f[q] \in PiecesFrom(log, q)
    <3> TAKE q \in Positions(n)
    <3> HAVE q = Malformed \/ q > p
    <3>1. Rest(n)[q] < Rest(n)[p]
      BY <1>0, <2>0 DEF Rest, Positions, Malformed
    <3> QED
      BY <3>1 DEF UnitPieces
  <2> HIDE DEF c
  <2>2. ASSUME c \notin NestCodes
        PROVE  /\ next \in (p + 1) .. n /\ Keeps(log, p, next)
               /\ p + 1 \in p .. n /\ Keeps(log, p, p + 1)
    BY <2>0, <2>2, KeepsByte
  <2> HIDE DEF next
  <2>3. p + 1 \in Positions(n) /\ p + 1 > p /\ p + 1 \in 0 .. n /\ p + 1 \in p .. n /\ p \in p .. n
    BY <1>0, <2>0 DEF Positions
  <2>p. p # Malformed /\ p # p + 1
    BY <1>3, <2>0
  <2>4. ASSUME NEW q \in p .. n, NEW piece \in PiecesFrom(log, q), ~piece.opens,
               piece.at = Malformed \/ piece.at > p
        PROVE  /\ ThenAll(piece, f) = ThenAll(piece, g)
               /\ ThenAll(piece, f) \in PiecesFrom(log, q)
               /\ ThenAll(piece, f).at # p
    <3>1. ReadAlike(log, p, f, g)
      BY <2>1 DEF ReadAlike
    <3>2. /\ ThenAll(piece, f) = ThenAll(piece, g)
          /\ ThenAll(piece, f) \in PiecesFrom(log, q)
          /\ ThenAll(piece, f).at = f[piece.at].at /\ f[piece.at].at # p
      BY <2>0, <2>4, <3>1, ReadsThen
    <3> QED
      BY <3>2
  <2>5. ASSUME NEW q \in Positions(n), q > p, NEW piece \in PiecesFrom(log, q)
        PROVE  piece.at # p
    <3>1. q \in 0 .. n
      BY <2>0, <2>5 DEF Positions, Malformed
    <3> QED
      BY <2>0, <2>p, <2>5, <3>1 DEF PiecesFrom
  <2>6. CASE c >= 32
    <3>1. plain \in PiecesFrom(log, p) /\ ~plain.opens /\ (plain.at = Malformed \/ plain.at > p)
      BY <2>0, <2>6, PlainPieceReads DEF c
    <3> HIDE DEF plain
    <3>a. ~(c < 32)
      <4>1. \A b \in Byte : b >= 32 => ~(b < 32)
        BY DEF Byte
      <4> QED
        BY <2>0, <2>6, <4>1
    <3>2. UnitsFrom(f, log, p) = ThenAll(plain, f) /\ UnitsFrom(g, log, p) = ThenAll(plain, g)
      BY <2>p, <2>6, <3>a DEF UnitsFrom, c, plain, UnitMarks, US, ENQ, SUB, SOH, STX, DLE, BEL, ETB
    <3> QED
      BY <2>3, <2>4, <3>1, <3>2 DEF UnitPieces
  <2>7. CASE IsLayout(c) /\ c < 32
    <3>1. UnitsFrom(f, log, p) = f[p + 1] /\ UnitsFrom(g, log, p) = g[p + 1]
      BY <2>0, <2>p, <2>7 DEF UnitsFrom, c, IsLayout, Layout, SP, HT, LF, CR,
                              UnitMarks, US, ENQ, SUB, SOH, STX, DLE, BEL, ETB
    <3>2. c \notin NestCodes
      BY <2>7 DEF NestCodes, IsLayout, Layout, SP, HT, LF, CR, STX, DLE, CAN, FS, GS, SYN
    <3>3. f[p + 1] = g[p + 1] /\ f[p + 1] \in PiecesFrom(log, p + 1)
      BY <2>1, <2>3
    <3>4. f[p + 1] \in PiecesFrom(log, p) /\ f[p + 1].at # p
      BY <1>0, <2>0, <2>2, <2>3, <2>5, <3>2, <3>3, PieceGoesOn
    <3> QED
      BY <3>1, <3>3, <3>4 DEF UnitPieces
  <2>8. CASE c \in UnitMarks \/ (c = SOH /\ ~row)
    <3>1. UnitsFrom(f, log, p) = Marked(c, f[p + 1]) /\ UnitsFrom(g, log, p) = Marked(c, g[p + 1])
      BY <2>0, <2>p, <2>8 DEF UnitsFrom, c, row, IsLayout, Layout, SP, HT, LF, CR,
                              UnitMarks, US, ENQ, SUB, SOH, STX, DLE, BEL, ETB
    <3>2. c \notin NestCodes
      BY <2>8 DEF NestCodes, UnitMarks, US, ENQ, SUB, SOH, STX, DLE, CAN, FS, GS, SYN
    <3>3. f[p + 1] = g[p + 1] /\ f[p + 1] \in PiecesFrom(log, p + 1) /\ f[p + 1].at # p
      BY <2>1, <2>3, <2>5
    <3>4. Marked(c, f[p + 1]) \in PiecesFrom(log, p) /\ Marked(c, f[p + 1]).at # p
      BY <2>0, <2>2, <2>3, <3>2, <3>3, MarkedReads
    <3> QED
      BY <3>1, <3>3, <3>4 DEF UnitPieces
  <2>9. CASE c = STX
    <3>1. note \in PiecesFrom(log, p) /\ ~note.opens /\ (note.at = Malformed \/ note.at > p)
      <4>1. note \in PiecesFrom(log, p) /\ ~note.opens
            /\ (note.at # Malformed => note.at \in (p + 2) .. n)
        BY <2>0, <2>9, TextPieceReads
      <4> HIDE DEF note
      <4> QED
        BY <2>0, <4>1
    <3> HIDE DEF note
    <3>2. UnitsFrom(f, log, p) = ThenAll(note, f) /\ UnitsFrom(g, log, p) = ThenAll(note, g)
      BY <2>0, <2>p, <2>9 DEF UnitsFrom, c, note, IsLayout, Layout, SP, HT, LF, CR,
                              UnitMarks, US, ENQ, SUB, SOH, STX, DLE, BEL, ETB
    <3> QED
      BY <2>3, <2>4, <3>1, <3>2 DEF UnitPieces
  <2>10. CASE c = DLE
    <3> DEFINE runes == <<Glyph(DLE), LF>>
               piece == [at |-> p + 1, runes |-> runes, opens |-> TRUE]
    <3>1. UnitsFrom(f, log, p) = piece /\ UnitsFrom(g, log, p) = piece
      BY <2>0, <2>p, <2>10 DEF UnitsFrom, c, IsLayout, Layout, SP, HT, LF, CR,
                               UnitMarks, US, ENQ, SUB, SOH, STX, DLE, BEL, ETB
    <3>2. runes \in Seq(Nat)
      BY DEF Glyph, DLE, LF
    <3> HIDE DEF runes
    <3>3. piece \in Pieces(n) /\ piece.at = p + 1 /\ piece.opens = TRUE
      BY <2>3, <3>2 DEF Pieces
    <3>4. \A h \in LevelLists : Passes(log, p, h, p + 1, Left(h, TRUE))
      BY <2>0, <2>10, PassesByte DEF Left
    <3> HIDE DEF piece
    <3>e. p <= p + 1
      BY <2>0
    <3>5. piece \in PiecesFrom(log, p) /\ piece.at # p
      BY <2>p, <3>e, <3>3, <3>4 DEF PiecesFrom
    <3> QED
      BY <3>1, <3>5 DEF UnitPieces
  <2>11. CASE c = BEL /\ deadUnit
    <3>1. UnitsFrom(f, log, p) = Marked(BEL, f[next]) /\ UnitsFrom(g, log, p) = Marked(BEL, g[next])
      BY <2>0, <2>p, <2>11 DEF UnitsFrom, c, deadUnit, next, IsLayout, Layout, SP, HT, LF, CR,
                               UnitMarks, US, ENQ, SUB, SOH, STX, DLE, BEL, ETB
    <3>2. c \notin NestCodes
      BY <2>11 DEF NestCodes, BEL, STX, DLE, CAN, FS, GS, SYN
    <3>3. next \in Positions(n) /\ next > p /\ next \in p .. n /\ Keeps(log, p, next)
      BY <1>0, <2>0, <2>2, <3>2 DEF Positions
    <3>4. f[next] = g[next] /\ f[next] \in PiecesFrom(log, next) /\ f[next].at # p
      BY <2>1, <2>5, <3>3
    <3>5. Marked(BEL, f[next]) \in PiecesFrom(log, p) /\ Marked(BEL, f[next]).at # p
      BY <1>0, <2>0, <3>3, <3>4, MarkedReads
    <3> QED
      BY <3>1, <3>4, <3>5 DEF UnitPieces
  <2>12. CASE c = ETB
    <3>1. plain1 \in PiecesFrom(log, p + 1) /\ ~plain1.opens /\ (plain1.at = Malformed \/ plain1.at > p)
      <4>1. plain1 \in PiecesFrom(log, p + 1) /\ ~plain1.opens
            /\ (plain1.at # Malformed => plain1.at \in (p + 1) .. n)
        BY <2>3, PlainPieceReads
      <4> HIDE DEF plain1
      <4> QED
        BY <2>0, <4>1
    <3> HIDE DEF plain1
    <3>2. UnitsFrom(f, log, p) = Marked(ETB, ThenAll(plain1, f))
          /\ UnitsFrom(g, log, p) = Marked(ETB, ThenAll(plain1, g))
      BY <2>0, <2>p, <2>12 DEF UnitsFrom, c, plain1, IsLayout, Layout, SP, HT, LF, CR,
                               UnitMarks, US, ENQ, SUB, SOH, STX, DLE, BEL, ETB
    <3>3. c \notin NestCodes
      BY <2>12 DEF NestCodes, ETB, STX, DLE, CAN, FS, GS, SYN
    <3>4. /\ ThenAll(plain1, f) = ThenAll(plain1, g)
          /\ ThenAll(plain1, f) \in PiecesFrom(log, p + 1) /\ ThenAll(plain1, f).at # p
      BY <2>3, <2>4, <3>1
    <3>5. Marked(ETB, ThenAll(plain1, f)) \in PiecesFrom(log, p)
          /\ Marked(ETB, ThenAll(plain1, f)).at # p
      BY <1>0, <2>0, <2>2, <2>3, <3>3, <3>4, MarkedReads
    <3> QED
      BY <3>2, <3>4, <3>5 DEF UnitPieces
  <2> QED
    BY <1>3, <2>6, <2>7, <2>8, <2>9, <2>10, <2>11, <2>12
<1> QED
  BY <1>1, <1>2, <1>3

LEMMA UnitsRead ==
  ASSUME NEW log \in Seq(Byte), NEW start \in Positions(Len(log))
  PROVE  Units(log)[start] \in UnitPieces(log, start)
<1> DEFINE D == Positions(Len(log))
           R == [p \in D |-> UnitPieces(log, p)]
           F == {f \in [D -> Pieces(Len(log))] : \A p \in D : f[p] \in R[p]}
           G == [f \in F |-> [p \in D |-> UnitsFrom(f, log, p)]]
           m == Rest(Len(log))
           N == Len(log) + 1
<1>0. \A p \in D : R[p] \subseteq Pieces(Len(log)) /\ Panic \in R[p]
  <2> TAKE p \in D
  <2>1. Panic.at # p \/ Peek(log, p, Len(log)) \notin Inline
    BY NoPiece DEF Peek, None, Inline, STX, DLE, ENQ, US, SUB, Malformed
  <2> QED
    BY <2>1, NoPiece DEF UnitPieces, PiecesFrom
<1>1. m \in [D -> 0 .. N] /\ m \in [D -> Nat] /\ N \in Nat
  BY RestType
<1>2. ASSUME NEW f, NEW g, NEW p \in D, \A q \in D : m[q] < m[p] => f[q] = g[q] /\ f[q] \in R[q]
      PROVE  UnitsFrom(f, log, p) = UnitsFrom(g, log, p) /\ UnitsFrom(f, log, p) \in R[p]
  BY <1>2, UnitsTurn
<1> HIDE DEF D, R, m
<1>3. G \in [F -> F]
  <2>1. ASSUME NEW f \in F, NEW p \in D PROVE UnitsFrom(f, log, p) \in R[p]
    <3>1. \A q \in D : f[q] = f[q] /\ f[q] \in R[q]
      OBVIOUS
    <3> QED
      BY <3>1, <1>2
  <2> QED
    BY <1>0, <2>1
<1>4. \E f \in F : f = G[f]
  <2>1. F # {} /\ \A f \in F : f = [p \in D |-> f[p]]
    <3>1. [p \in D |-> Panic] \in F
      BY <1>0
    <3> QED
      BY <3>1
  <2>2. ASSUME NEW f \in F, NEW g \in F, NEW p \in D, \A q \in D : m[q] < m[p] => f[q] = g[q]
        PROVE  G[f][p] = G[g][p]
    <3>1. \A q \in D : m[q] < m[p] => f[q] = g[q] /\ f[q] \in R[q]
      BY <2>2
    <3> QED
      BY <3>1, <1>2
  <2>3. Contracts(D, F, m, G)
    BY <2>2 DEF Contracts
  <2>4. N \in Nat /\ m \in [D -> 0 .. N]
    BY <1>1
  <2> HIDE DEF F, G, N
  <2>r. Recursion(D, F, m, N, G)
    BY ONLY <1>3, <2>1, <2>3, <2>4 DEF Recursion
  <2> QED
    BY ONLY <2>r, Solution
<1> DEFINE units == CHOOSE f : f = [p \in D |-> UnitsFrom(f, log, p)]
<1>5. Units(log) = units
  BY DEF Units, UnitsFrom, D
<1>6. units = [p \in D |-> UnitsFrom(units, log, p)]
  BY <1>4
<1> HIDE DEF units
<1> DEFINE T == {p \in D : units[p] \in R[p]}
<1>7. ASSUME NEW p \in D, \A q \in D : m[q] < m[p] => q \in T
      PROVE  p \in T
  <2>1. \A q \in D : m[q] < m[p] => units[q] = units[q] /\ units[q] \in R[q]
    BY <1>7
  <2>2. UnitsFrom(units, log, p) \in R[p]
    BY <2>1, <1>2
  <2> QED
    BY <2>2, <1>6
<1>8. D \subseteq T
  <2> HIDE DEF T
  <2> QED
    BY <1>1, <1>7, MeasureInduct
<1>9. start \in D /\ R[start] = UnitPieces(log, start)
  BY DEF D, R
<1> QED
  BY <1>5, <1>8, <1>9
-----------------------------------------------------------------------------
(***************************************************************************)
(* writeElement: one turn of its recursion, over the marks of dead         *)
(* elements; where it begins at a code of an element, it reads on.         *)
(***************************************************************************)
ElementFrom(element, log, units, p) ==
  LET n == Len(log)
      c == Peek(log, p, n)
      next == ScanLayout(log, p + 1, n)
      marked == PeekBehind(log, p, n)
  IN  CASE c = BEL /\ marked < 32 /\ marked # STX -> Marked(BEL, element[next])
        [] c = BEL /\ (marked >= 32 \/ marked = STX) -> EndLine(Marked(BEL, units[next]))
        [] c = None -> Piece(p, <<>>)
        [] c = SOH /\ marked = RS ->
             EndElement(Prefixed(<<Glyph(SOH), Glyph(RS)>>, units[next + 1]))
        [] c = SOH /\ marked # RS -> EndElement(Marked(SOH, units[next]))
        [] c = RS -> EndElement(Marked(RS, units[p + 1]))
        [] c = ETB -> EndLine(Marked(ETB, PlainPiece(log, p + 1)))
        [] OTHER -> EndLine(Piece(p, <<>>))

ElementPieces(log, p) ==
  {piece \in PiecesFrom(log, p) : Peek(log, p, Len(log)) \in Elements => piece.at # p}

LEMMA ElementTurn ==
  ASSUME NEW log \in Seq(Byte), NEW p \in 0 .. Len(log), NEW f, NEW g,
         \A q \in 0 .. Len(log) : q > p => f[q] = g[q] /\ f[q] \in ElementPieces(log, q)
  PROVE  /\ ElementFrom(f, log, Units(log), p) = ElementFrom(g, log, Units(log), p)
         /\ ElementFrom(f, log, Units(log), p) \in ElementPieces(log, p)
<1> DEFINE n == Len(log)
           c == Peek(log, p, n)
           next == ScanLayout(log, p + 1, n)
           marked == PeekBehind(log, p, n)
           plain == PlainPiece(log, p + 1)
           units == Units(log)
<1>0. n \in Nat /\ <<>> \in Seq(Nat) /\ SOH \in Byte /\ BEL \in Byte /\ ETB \in Byte /\ RS \in Byte
      /\ p # Malformed
  BY DEF SOH, BEL, ETB, RS, Byte, Malformed
<1>u. \A q \in Positions(n) : units[q] \in PiecesFrom(log, q)
  BY UnitsRead DEF UnitPieces
<1> HIDE DEF units
<1>1. CASE c \notin Elements
  <2>1. c \notin {SOH, RS, BEL, ETB}
    BY <1>1 DEF Elements
  <2>2. ElementFrom(f, log, units, p) = ElementFrom(g, log, units, p)
        /\ \/ ElementFrom(f, log, units, p) = Piece(p, <<>>)
           \/ ElementFrom(f, log, units, p) = EndLine(Piece(p, <<>>))
    <3>1. CASE c = None
      BY <2>1, <3>1 DEF ElementFrom
    <3>2. CASE c # None
      BY <2>1, <3>2 DEF ElementFrom
    <3> QED
      BY <3>1, <3>2
  <2>3. Keeps(log, p, p) /\ p \in p .. n
    BY PassesHere DEF Keeps
  <2>4. Piece(p, <<>>) \in PiecesFrom(log, p)
    BY <1>0, <2>3, PieceHere
  <2>5. EndLine(Piece(p, <<>>)) \in PiecesFrom(log, p)
    BY <2>4, PieceEnds
  <2> QED
    BY <1>1, <2>2, <2>4, <2>5 DEF ElementPieces, units
<1>2. CASE c \in Elements
  <2>0. p \in 0 .. (n - 1) /\ c = At(log, p)
    <3>1. c # None
      BY <1>2 DEF None, Elements, SOH, RS, BEL, ETB
    <3> HIDE DEF c
    <3> QED
      BY <1>0, <3>1, PeekSome DEF c
  <2>1. At(log, p) \notin NestCodes
    BY <1>2, <2>0 DEF Elements, NestCodes, SOH, RS, BEL, ETB, STX, DLE, CAN, FS, GS, SYN
  <2>2. /\ next \in (p + 1) .. n /\ Keeps(log, p, next)
        /\ p + 1 \in p .. n /\ Keeps(log, p, p + 1)
    BY <2>0, <2>1, KeepsByte
  <2>m. marked = Peek(log, next, n)
    BY DEF PeekBehind
  <2> HIDE DEF next, c, marked
  <2>3. /\ next \in 0 .. n /\ next > p /\ next \in p .. n /\ next \in Positions(n)
        /\ p + 1 \in 0 .. n /\ p + 1 > p /\ p + 1 \in Positions(n)
    BY <1>0, <2>0, <2>2 DEF Positions
  <2>4. ASSUME NEW q \in 0 .. n, q > p, NEW piece \in PiecesFrom(log, q)
        PROVE  piece.at # p
    BY <1>0, <2>4 DEF PiecesFrom
  <2>5. ASSUME NEW q \in 0 .. n, q > p, Keeps(log, p, q), NEW piece \in PiecesFrom(log, q),
               NEW s \in Seq(Nat)
        PROVE  /\ Prefixed(s, piece) \in ElementPieces(log, p)
               /\ EndLine(Prefixed(s, piece)) \in ElementPieces(log, p)
               /\ EndElement(Prefixed(s, piece)) \in ElementPieces(log, p)
    <3> DEFINE whole == Prefixed(s, piece)
    <3>1. q \in p .. n
      BY <1>0, <2>5
    <3>2. whole \in PiecesFrom(log, p) /\ whole.at = piece.at
      BY <2>5, <3>1, PieceGoesOn
    <3> HIDE DEF whole
    <3>3. whole.at # p
      BY <2>4, <2>5, <3>2
    <3> QED
      BY <3>2, <3>3, PieceEnds DEF ElementPieces, whole
  <2>6. \A b \in Byte : <<Glyph(b)>> \in Seq(Nat)
    BY DEF Glyph, Byte
  <2>7. CASE c = BEL /\ marked < 32 /\ marked # STX
    <3>0. ~(marked >= 32)
      <4>1. marked \in Byte \cup {None}
        BY <1>0, <2>m, PeekSome
      <4>2. Byte \cup {None} \subseteq Int /\ \A b \in Int : b < 32 => ~(b >= 32)
        BY DEF Byte, None
      <4> QED
        BY <2>7, <4>1, <4>2
    <3>1. ElementFrom(f, log, units, p) = Marked(BEL, f[next])
      BY <2>7, <3>0 DEF ElementFrom, c, marked, next, None, SOH, RS, BEL, ETB
    <3>2. ElementFrom(g, log, units, p) = Marked(BEL, g[next])
      BY <2>7, <3>0 DEF ElementFrom, c, marked, next, None, SOH, RS, BEL, ETB
    <3>3. f[next] = g[next] /\ f[next] \in PiecesFrom(log, next)
      BY <2>3 DEF ElementPieces
    <3>4. Marked(BEL, f[next]) \in ElementPieces(log, p)
      BY <1>0, <2>2, <2>3, <2>5, <2>6, <3>3 DEF Marked
    <3> QED
      BY <3>1, <3>2, <3>3, <3>4 DEF units
  <2>8. CASE c = BEL /\ (marked >= 32 \/ marked = STX)
    <3>0. ~(marked < 32 /\ marked # STX)
      <4>1. marked \in Byte \cup {None}
        BY <1>0, <2>m, PeekSome
      <4>2. \A b \in Byte \cup {None} : b >= 32 => ~(b < 32)
        BY DEF Byte, None
      <4> QED
        BY <2>8, <4>1, <4>2
    <3>1. ElementFrom(f, log, units, p) = EndLine(Marked(BEL, units[next]))
      BY <2>8, <3>0 DEF ElementFrom, c, marked, next, None, SOH, RS, BEL, ETB
    <3>2. ElementFrom(g, log, units, p) = EndLine(Marked(BEL, units[next]))
      BY <2>8, <3>0 DEF ElementFrom, c, marked, next, None, SOH, RS, BEL, ETB
    <3>3. EndLine(Marked(BEL, units[next])) \in ElementPieces(log, p)
      BY <1>0, <1>u, <2>2, <2>3, <2>5, <2>6 DEF Marked
    <3> QED
      BY <3>1, <3>2, <3>3 DEF units
  <2>9. CASE c = SOH /\ marked = RS
    <3> DEFINE s == <<Glyph(SOH), Glyph(RS)>>
    <3>1. ElementFrom(f, log, units, p) = EndElement(Prefixed(s, units[next + 1]))
          /\ ElementFrom(g, log, units, p) = EndElement(Prefixed(s, units[next + 1]))
      BY <2>9 DEF ElementFrom, c, marked, next, None, SOH, RS, BEL, ETB
    <3>2. s \in Seq(Nat)
      BY DEF Glyph, SOH, RS
    <3> HIDE DEF s
    <3>3. next \in 0 .. (n - 1) /\ At(log, next) \notin NestCodes
      <4>1. Peek(log, next, n) = RS /\ RS # None
        BY <2>m, <2>9 DEF RS, None
      <4>2. next \in 0 .. (n - 1) /\ At(log, next) = RS
        BY <1>0, <4>1, PeekSome
      <4> QED
        BY <4>2 DEF NestCodes, RS, STX, DLE, CAN, FS, GS, SYN
    <3>4. next + 1 \in next .. n /\ Keeps(log, next, next + 1)
      BY <3>3, KeepsByte
    <3>5. next + 1 \in 0 .. n /\ next + 1 > p /\ next + 1 \in Positions(n)
      BY <1>0, <2>0, <2>3, <3>3 DEF Positions
    <3>6. Keeps(log, p, next + 1)
      BY <2>2, <2>3, <3>4, KeepsOn
    <3>7. EndElement(Prefixed(s, units[next + 1])) \in ElementPieces(log, p)
      BY <1>u, <2>5, <3>2, <3>5, <3>6
    <3> QED
      BY <3>1, <3>7 DEF units
  <2>10. CASE c = SOH /\ marked # RS
    <3>1. ElementFrom(f, log, units, p) = EndElement(Marked(SOH, units[next]))
          /\ ElementFrom(g, log, units, p) = EndElement(Marked(SOH, units[next]))
      BY <2>10 DEF ElementFrom, c, marked, next, None, SOH, RS, BEL, ETB
    <3>3. EndElement(Marked(SOH, units[next])) \in ElementPieces(log, p)
      BY <1>0, <1>u, <2>2, <2>3, <2>5, <2>6 DEF Marked
    <3> QED
      BY <3>1, <3>3 DEF units
  <2>11. CASE c = RS
    <3>1. ElementFrom(f, log, units, p) = EndElement(Marked(RS, units[p + 1]))
          /\ ElementFrom(g, log, units, p) = EndElement(Marked(RS, units[p + 1]))
      BY <2>11 DEF ElementFrom, c, None, SOH, RS, BEL, ETB
    <3>3. EndElement(Marked(RS, units[p + 1])) \in ElementPieces(log, p)
      BY <1>0, <1>u, <2>2, <2>3, <2>5, <2>6 DEF Marked
    <3> QED
      BY <3>1, <3>3 DEF units
  <2>12. CASE c = ETB
    <3>1. ElementFrom(f, log, units, p) = EndLine(Marked(ETB, plain))
          /\ ElementFrom(g, log, units, p) = EndLine(Marked(ETB, plain))
      BY <2>12 DEF ElementFrom, c, None, SOH, RS, BEL, ETB
    <3>2. plain \in PiecesFrom(log, p + 1)
      BY <2>3, PlainPieceReads
    <3> HIDE DEF plain
    <3>3. EndLine(Marked(ETB, plain)) \in ElementPieces(log, p)
      BY <1>0, <2>2, <2>3, <2>5, <2>6, <3>2 DEF Marked
    <3> QED
      BY <3>1, <3>3 DEF units
  <2>13. c \in {SOH, RS, BEL, ETB}
    BY <1>2 DEF Elements, c
  <2>14. c = BEL => (marked < 32 /\ marked # STX) \/ marked >= 32 \/ marked = STX
    <3>1. marked \in Byte \cup {None}
      BY <1>0, <2>m, PeekSome
    <3>2. \A b \in Byte \cup {None} : b >= 32 \/ b < 32
      BY DEF Byte, None
    <3> QED
      BY <3>1, <3>2
  <2> QED
    BY <2>7, <2>8, <2>9, <2>10, <2>11, <2>12, <2>13, <2>14
<1> QED
  BY <1>1, <1>2

LEMMA ElementReads ==
  ASSUME NEW log \in Seq(Byte), NEW start \in 0 .. Len(log)
  PROVE  Element(log, start, Units(log)) \in ElementPieces(log, start)
<1> DEFINE D == 0 .. Len(log)
           R == [p \in D |-> ElementPieces(log, p)]
           F == {f \in [D -> Pieces(Len(log))] : \A p \in D : f[p] \in R[p]}
           G == [f \in F |-> [p \in D |-> ElementFrom(f, log, Units(log), p)]]
           m == [p \in D |-> Len(log) - p]
           N == Len(log)
<1>0. \A p \in D : R[p] \subseteq Pieces(Len(log)) /\ Panic \in R[p]
  <2> TAKE p \in D
  <2>1. Panic.at # p
    BY NoPiece DEF Malformed
  <2> QED
    BY <2>1, NoPiece DEF ElementPieces, PiecesFrom
<1>1. m \in [D -> 0 .. N] /\ m \in [D -> Nat] /\ N \in Nat
  OBVIOUS
<1>2. ASSUME NEW f, NEW g, NEW p \in D, \A q \in D : m[q] < m[p] => f[q] = g[q] /\ f[q] \in R[q]
      PROVE  ElementFrom(f, log, Units(log), p) = ElementFrom(g, log, Units(log), p) /\ ElementFrom(f, log, Units(log), p) \in R[p]
  <2>1. \A q \in D : q > p => m[q] < m[p]
    OBVIOUS
  <2>2. \A q \in 0 .. Len(log) : q > p => f[q] = g[q] /\ f[q] \in ElementPieces(log, q)
    BY <1>2, <2>1
  <2> QED
    BY <2>2, ElementTurn
<1> HIDE DEF D, R, m
<1>3. G \in [F -> F]
  <2>1. ASSUME NEW f \in F, NEW p \in D PROVE ElementFrom(f, log, Units(log), p) \in R[p]
    <3>1. \A q \in D : f[q] = f[q] /\ f[q] \in R[q]
      OBVIOUS
    <3> QED
      BY <3>1, <1>2
  <2> QED
    BY <1>0, <2>1
<1>4. \E f \in F : f = G[f]
  <2>1. F # {} /\ \A f \in F : f = [p \in D |-> f[p]]
    <3>1. [p \in D |-> Panic] \in F
      BY <1>0
    <3> QED
      BY <3>1
  <2>2. ASSUME NEW f \in F, NEW g \in F, NEW p \in D, \A q \in D : m[q] < m[p] => f[q] = g[q]
        PROVE  G[f][p] = G[g][p]
    <3>1. \A q \in D : m[q] < m[p] => f[q] = g[q] /\ f[q] \in R[q]
      BY <2>2
    <3> QED
      BY <3>1, <1>2
  <2>3. Contracts(D, F, m, G)
    BY <2>2 DEF Contracts
  <2>4. N \in Nat /\ m \in [D -> 0 .. N]
    BY <1>1
  <2> HIDE DEF F, G, N
  <2>r. Recursion(D, F, m, N, G)
    BY ONLY <1>3, <2>1, <2>3, <2>4 DEF Recursion
  <2> QED
    BY ONLY <2>r, Solution
<1> DEFINE element == CHOOSE f : f = [p \in D |-> ElementFrom(f, log, Units(log), p)]
<1>5. Element(log, start, Units(log)) = element[start]
  BY DEF Element, ElementFrom, D
<1>6. element = [p \in D |-> ElementFrom(element, log, Units(log), p)]
  BY <1>4
<1> HIDE DEF element
<1> DEFINE T == {p \in D : element[p] \in R[p]}
<1>7. ASSUME NEW p \in D, \A q \in D : m[q] < m[p] => q \in T
      PROVE  p \in T
  <2>1. \A q \in D : m[q] < m[p] => element[q] = element[q] /\ element[q] \in R[q]
    BY <1>7
  <2>2. ElementFrom(element, log, Units(log), p) \in R[p]
    BY <2>1, <1>2
  <2> QED
    BY <2>2, <1>6
<1>8. D \subseteq T
  <2> HIDE DEF T
  <2> QED
    BY <1>1, <1>7, MeasureInduct
<1>9. start \in D /\ R[start] = ElementPieces(log, start)
  BY DEF D, R
<1> QED
  BY <1>5, <1>8, <1>9
-----------------------------------------------------------------------------
(* What is behind the code that a turn begins with, where it changes the   *)
(* levels; and what such a turn may leave behind it.                       *)
Moved(b, g) ==
  CASE b = SYN -> Append(Front(g), 0)
    [] b \in {FS, GS} -> Append(Front(g), 1)
    [] b = CAN -> IF Len(g) = 1 THEN <<0>> ELSE Front(g)
    [] OTHER -> g

TurnPieces(log, p) ==
  {piece \in Pieces(Len(log)) :
     piece.at # Malformed =>
       /\ piece.at \in (p + 1) .. Len(log)
       /\ \A g \in LevelLists :
            Passes(log, p, g, piece.at, Left(Moved(At(log, p), g), piece.opens))}

LEMMA MovedLevels ==
  ASSUME NEW b, NEW g \in LevelLists
  PROVE  Moved(b, g) \in LevelLists
<1> DEFINE level == IF Len(g) = 1 THEN <<0>> ELSE Front(g)
<1>1. level \in LevelLists /\ Append(Front(g), 0) \in LevelLists /\ Append(Front(g), 1) \in LevelLists
  BY LevelsChange
<1> HIDE DEF level
<1>2. Moved(b, g) = CASE b = SYN -> Append(Front(g), 0) [] b \in {FS, GS} -> Append(Front(g), 1)
                      [] b = CAN -> level [] OTHER -> g
  BY DEF Moved, level
<1>3. CASE b = SYN
  BY <1>1, <1>2, <1>3 DEF SYN, FS, GS, CAN
<1>4. CASE b \in {FS, GS}
  BY <1>1, <1>2, <1>4 DEF SYN, FS, GS, CAN
<1>5. CASE b = CAN
  BY <1>1, <1>2, <1>5 DEF SYN, FS, GS, CAN
<1>6. CASE b \notin {SYN, FS, GS, CAN}
  BY <1>2, <1>6
<1> QED
  BY <1>3, <1>4, <1>5, <1>6

(* A piece that begins with the code, and goes on behind it. *)
LEMMA CodeThen ==
  ASSUME NEW log \in Seq(Byte), NEW p \in 0 .. (Len(log) - 1), NEW r \in (p + 1) .. Len(log),
         \A g \in LevelLists : Passes(log, p, g, r, Moved(At(log, p), g)),
         NEW piece \in PiecesFrom(log, r), NEW s \in Seq(Nat)
  PROVE  Prefixed(s, piece) \in TurnPieces(log, p)
<1> DEFINE n == Len(log)
           whole == Prefixed(s, piece)
<1>0. n \in Nat /\ p \in Nat /\ r \in Nat /\ p + 1 <= r
  OBVIOUS
<1>1. piece \in Pieces(n)
  BY DEF PiecesFrom
<1>2. whole \in Pieces(n) /\ whole.at = piece.at /\ whole.opens = piece.opens
  BY <1>0, <1>1, PieceParts
<1>3. ASSUME piece.at # Malformed
      PROVE  /\ piece.at \in (p + 1) .. n
             /\ \A g \in LevelLists :
                  Passes(log, p, g, piece.at, Left(Moved(At(log, p), g), piece.opens))
  <2>1. piece.at \in 0 .. n
    BY <1>1, <1>3 DEF Pieces, Positions
  <2>2. r <= piece.at /\ \A g \in LevelLists : Passes(log, r, g, piece.at, Left(g, piece.opens))
    BY <1>3 DEF PiecesFrom
  <2>3. ASSUME NEW g \in LevelLists
        PROVE  Passes(log, p, g, piece.at, Left(Moved(At(log, p), g), piece.opens))
    <3>1. Moved(At(log, p), g) \in LevelLists
      BY MovedLevels
    <3>2. Passes(log, p, g, r, Moved(At(log, p), g))
      OBVIOUS
    <3>3. piece.at \in Nat
      BY <2>1
    <3> QED
      BY ONLY <1>0, <2>2, <3>1, <3>2, <3>3, log \in Seq(Byte), PassesOn
  <2> QED
    BY <1>0, <2>1, <2>2, <2>3
<1> HIDE DEF whole
<1> QED
  BY <1>1, <1>2, <1>3 DEF whole, TurnPieces

(* One that begins elsewhere than with such a code, and reads on. *)
LEMMA PieceTurns ==
  ASSUME NEW log \in Seq(Byte), NEW p \in 0 .. (Len(log) - 1), At(log, p) \notin {SYN, FS, GS, CAN},
         NEW piece \in PiecesFrom(log, p), piece.at # p
  PROVE  piece \in TurnPieces(log, p)
<1> DEFINE n == Len(log)
<1>0. n \in Nat /\ p \in Nat
  OBVIOUS
<1>1. piece \in Pieces(n)
  BY DEF PiecesFrom
<1>2. \A g : Moved(At(log, p), g) = g
  BY DEF Moved
<1>3. ASSUME piece.at # Malformed
      PROVE  /\ piece.at \in (p + 1) .. n
             /\ \A g \in LevelLists :
                  Passes(log, p, g, piece.at, Left(Moved(At(log, p), g), piece.opens))
  <2>1. piece.at \in 0 .. n
    BY <1>1, <1>3 DEF Pieces, Positions
  <2>2. p <= piece.at /\ \A g \in LevelLists : Passes(log, p, g, piece.at, Left(g, piece.opens))
    BY <1>3 DEF PiecesFrom
  <2>3. piece.at \in (p + 1) .. n
    BY <1>0, <2>1, <2>2
  <2> QED
    BY <1>2, <2>2, <2>3
<1> QED
  BY <1>1, <1>3 DEF TurnPieces

(* The end of the line. *)
LEMMA TurnEnds ==
  ASSUME NEW log \in Seq(Byte), NEW p \in 0 .. (Len(log) - 1), NEW piece \in TurnPieces(log, p)
  PROVE  EndLine(piece) \in TurnPieces(log, p) /\ EndElement(piece) \in TurnPieces(log, p)
<1> DEFINE line == EndLine(piece)
           element == EndElement(piece)
<1>0. Len(log) \in Nat /\ <<>> \in Seq(Nat)
  OBVIOUS
<1>1. piece \in Pieces(Len(log))
  BY DEF TurnPieces
<1>2. line \in Pieces(Len(log)) /\ line.at = piece.at /\ line.opens = piece.opens
  BY <1>0, <1>1, PieceParts
<1>3. element = piece \/ element = line
  BY DEF EndElement
<1> HIDE DEF line, element
<1>4. line \in TurnPieces(log, p)
  BY <1>2 DEF TurnPieces
<1> QED
  BY <1>3, <1>4 DEF line, element
-----------------------------------------------------------------------------
LEMMA LevelOnTop ==
  ASSUME NEW s \in Seq(0 .. 1), NEW b \in 0 .. 1
  PROVE  /\ Append(s, b) \in LevelLists
         /\ Front(Append(s, b)) = s /\ Last(Append(s, b)) = b
         /\ Len(Append(s, b)) = Len(s) + 1
         /\ s # <<>> => /\ Front(s) \in Seq(0 .. 1) /\ Last(s) \in 0 .. 1
                        /\ Len(Front(s)) = Len(s) - 1
                        /\ s = Append(Front(s), Last(s))
<1> DEFINE t == Append(s, b)
<1>1. t \in Seq(0 .. 1) /\ Len(t) = Len(s) + 1 /\ t[Len(t)] = b /\ Len(s) \in Nat
  OBVIOUS
<1>2. SubSeq(t, 1, Len(s)) = s
  <2>1. SubSeq(t, 1, Len(s)) \in Seq(0 .. 1) /\ Len(SubSeq(t, 1, Len(s))) = Len(s)
    BY <1>1
  <2>2. \A i \in 1 .. Len(s) : SubSeq(t, 1, Len(s))[i] = s[i]
    BY <1>1
  <2> QED
    BY <2>1, <2>2
<1>3. t # <<>>
  BY <1>1
<1>4. ASSUME s # <<>>
      PROVE  /\ Front(s) \in Seq(0 .. 1) /\ Last(s) \in 0 .. 1
             /\ Len(Front(s)) = Len(s) - 1
             /\ s = Append(Front(s), Last(s))
  <2> DEFINE m == Len(s)
             front == SubSeq(s, 1, m - 1)
  <2>1. m \in Nat /\ m >= 1 /\ m - 1 \in Nat
    BY <1>4
  <2>2. front \in Seq(0 .. 1) /\ Len(front) = m - 1 /\ \A i \in 1 .. (m - 1) : front[i] = s[i]
    <3>1. \A e \in 0 .. Len(s) : /\ SubSeq(s, 1, e) \in Seq(0 .. 1) /\ Len(SubSeq(s, 1, e)) = e
                               /\ \A i \in 1 .. e : SubSeq(s, 1, e)[i] = s[i]
      BY <1>1
    <3>2. m - 1 \in 0 .. Len(s)
      BY <2>1
    <3> QED
      BY <3>1, <3>2
  <2>3. s[m] \in 0 .. 1
    BY <2>1
  <2> HIDE DEF front
  <2>4. Append(front, s[m]) \in Seq(0 .. 1) /\ Len(Append(front, s[m])) = m
        /\ \A i \in 1 .. m : Append(front, s[m])[i] = s[i]
    BY <2>1, <2>2, <2>3
  <2>5. s = Append(front, s[m])
    BY <2>1, <2>4
  <2> QED
    BY <2>2, <2>3, <2>5 DEF front, Front, Last
<1> HIDE DEF t
<1>5. Front(t) = SubSeq(t, 1, Len(s)) /\ Last(t) = b
  BY <1>1 DEF Front, Last
<1> QED
  BY <1>1, <1>2, <1>3, <1>4, <1>5 DEF t, LevelLists

(* A run of GS is one line, and as one of them for the levels. *)
LEMMA GroupMarksReads ==
  ASSUME NEW log \in Seq(Byte), NEW p \in 0 .. (Len(log) - 1), At(log, p) = GS
  PROVE  LET r == GroupMarksEnd(log, p) IN
         /\ r \in (p + 1) .. Len(log)
         /\ \A g \in LevelLists : Passes(log, p, g, r, Append(Front(g), 1))
<1> DEFINE n == Len(log)
           Marks == {q \in p .. n : q = n \/ At(log, q) # GS}
           r == Min(Marks)
<1>0. n \in Nat /\ p \in Nat /\ p + 1 <= n
  OBVIOUS
<1>1. r \in Marks /\ \A q \in Marks : r <= q
  <2>1. n \in Marks /\ Marks \subseteq Nat
    BY <1>0
  <2> HIDE DEF Marks
  <2> QED
    BY <2>1, MinNat
<1>2. r \in p .. n /\ r # p
  BY <1>0, <1>1
<1>3. \A q \in p .. (r - 1) : At(log, q) = GS
  BY <1>0, <1>1, <1>2
<1>4. GroupMarksEnd(log, p) = r
  BY DEF GroupMarksEnd
<1> HIDE DEF r
<1>5. ASSUME NEW g \in LevelLists
      PROVE  Passes(log, p, g, r, Append(Front(g), 1))
  <2> DEFINE k == Append(Front(g), 1)
             T == {d \in Nat : p + 1 + d <= r => Passes(log, p, g, p + 1 + d, k)}
  <2>1. k \in LevelLists
    BY LevelsChange
  <2>2. Append(Front(k), 1) = k
    <3>1. Front(g) \in Seq(0 .. 1)
      BY LevelOnTop DEF LevelLists
    <3> QED
      BY <3>1, LevelOnTop
  <2> HIDE DEF k
  <2>3. 0 \in T
    <3>1. Passes(log, p, g, p + 1, k)
      BY PassesByte DEF k
    <3> QED
      BY <1>0, <3>1
  <2>4. ASSUME NEW d \in Nat, d \in T PROVE d + 1 \in T
    <3> SUFFICES ASSUME p + 1 + (d + 1) <= r
                 PROVE  Passes(log, p, g, p + 1 + (d + 1), k)
      OBVIOUS
    <3> DEFINE q == p + 1 + d
    <3>1. q \in 0 .. (n - 1) /\ q \in p .. (r - 1) /\ q + 1 = p + 1 + (d + 1) /\ q \in Nat
          /\ q + 1 \in Nat /\ q <= q + 1 /\ q <= r
      BY <1>0, <1>2
    <3>2. Passes(log, p, g, q, k)
      BY <2>4, <3>1
    <3> HIDE DEF q
    <3>3. Passes(log, q, k, q + 1, Append(Front(k), 1))
      BY <1>3, <2>1, <3>1, PassesByte
    <3> QED
      BY <2>2, <3>1, <3>2, <3>3, PassesOn
  <2>5. r - p - 1 \in T
    <3>1. r - p - 1 \in Nat
      BY <1>0, <1>2
    <3> HIDE DEF T
    <3> QED
      BY <2>3, <2>4, <3>1, NatInduct
  <2> QED
    BY <1>0, <1>2, <2>5 DEF k
<1> QED
  BY <1>0, <1>2, <1>4, <1>5

(* The pieces of the turns: SYN, FS, GS, CAN, EOT; elements, unit codes at *)
(* element level, and stray data.                                          *)
LEMMA TurnOfFrame ==
  ASSUME buf \in Seq(Byte), pos \in 0 .. (Len(buf) - 1), NEW b \in {SYN, FS, GS, EOT}, b = At(buf, pos)
  PROVE  PieceOf(b) \in TurnPieces(buf, pos)
<1> DEFINE n == Len(buf)
           next == pos + 1
<1>0. n \in Nat /\ pos \in Nat /\ next \in 0 .. n /\ next \in (pos + 1) .. n
      /\ <<>> \in Seq(Nat) /\ SYN \in Byte /\ FS \in Byte
      /\ <<Glyph(SYN)>> \in Seq(Nat) /\ <<Glyph(FS)>> \in Seq(Nat) /\ <<Glyph(EOT)>> \in Seq(Nat)
  BY DEF SYN, FS, EOT, Glyph, Byte
<1> HIDE DEF next
<1>1. CASE b = SYN
  <2> DEFINE heading == Heading(buf, next)
  <2>1. heading \in PiecesFrom(buf, next)
    BY <1>0, HeadingReads
  <2>2. \A g \in LevelLists : Passes(buf, pos, g, next, Moved(At(buf, pos), g))
    BY <1>1, PassesByte DEF Moved, next, SYN, FS, GS, CAN
  <2>3. PieceOf(b) = EndLine(Prefixed(<<Glyph(SYN)>>, heading))
    BY <1>1 DEF PieceOf, Marked, next, SYN, FS, GS, EOT, Elements, SOH, RS, BEL, ETB, Inline, STX, DLE,
                ENQ, US, SUB, CAN, EM, IsLayout, Layout, SP, HT, LF, CR
  <2> HIDE DEF heading
  <2>4. Prefixed(<<Glyph(SYN)>>, heading) \in TurnPieces(buf, pos)
    BY <1>0, <2>1, <2>2, CodeThen
  <2> QED
    BY <2>3, <2>4, TurnEnds
<1>2. CASE b = FS
  <2> DEFINE name == PlainPiece(buf, next)
  <2>1. name \in PiecesFrom(buf, next)
    BY <1>0, PlainPieceReads
  <2>2. \A g \in LevelLists : Passes(buf, pos, g, next, Moved(At(buf, pos), g))
    BY <1>2, PassesByte DEF Moved, next, SYN, FS, GS, CAN
  <2>3. PieceOf(b) = EndLine(Prefixed(<<Glyph(FS)>>, name))
    BY <1>2 DEF PieceOf, Marked, next, SYN, FS, GS, EOT, Elements, SOH, RS, BEL, ETB, Inline, STX, DLE,
                ENQ, US, SUB, CAN, EM, IsLayout, Layout, SP, HT, LF, CR
  <2> HIDE DEF name
  <2>4. Prefixed(<<Glyph(FS)>>, name) \in TurnPieces(buf, pos)
    BY <1>0, <2>1, <2>2, CodeThen
  <2> QED
    BY <2>3, <2>4, TurnEnds
<1>3. CASE b = GS
  <2> DEFINE r == GroupMarksEnd(buf, pos)
             name == PlainPiece(buf, r)
             marks == [i \in 1 .. (r - pos) |-> Glyph(GS)]
  <2>1. r \in (pos + 1) .. n /\ \A g \in LevelLists : Passes(buf, pos, g, r, Append(Front(g), 1))
    BY <1>3, GroupMarksReads
  <2> HIDE DEF r
  <2>2. r \in 0 .. n /\ r - pos \in Nat
    BY <1>0, <2>1
  <2>3. name \in PiecesFrom(buf, r)
    BY <2>2, PlainPieceReads
  <2>4. \A g \in LevelLists : Passes(buf, pos, g, r, Moved(At(buf, pos), g))
    BY <1>3, <2>1 DEF Moved, SYN, FS, GS, CAN
  <2>5. marks \in Seq(Nat)
    <3>1. Glyph(GS) \in Nat
      BY DEF Glyph, GS
    <3> QED
      BY <2>2, <3>1
  <2>6. PieceOf(b) = EndLine(Prefixed(marks, name))
    BY <1>3 DEF PieceOf, GroupLine, r, SYN, FS, GS, EOT, Elements, SOH, RS, BEL, ETB, Inline, STX, DLE,
                ENQ, US, SUB, CAN, EM, IsLayout, Layout, SP, HT, LF, CR
  <2> HIDE DEF name, marks
  <2>7. Prefixed(marks, name) \in TurnPieces(buf, pos)
    BY <2>1, <2>3, <2>4, <2>5, CodeThen
  <2> QED
    BY <2>6, <2>7, TurnEnds
<1>4. CASE b = EOT
  <2> DEFINE piece == Piece(next, <<Glyph(EOT)>>)
  <2>1. Keeps(buf, pos, next)
    <3>1. At(buf, pos) \notin NestCodes
      BY <1>4 DEF NestCodes, EOT, STX, DLE, CAN, FS, GS, SYN
    <3> QED
      BY <3>1, KeepsByte DEF next
  <2>2. pos \in 0 .. n /\ next \in pos .. n /\ next # pos
    BY <1>0 DEF next
  <2>3. piece \in PiecesFrom(buf, pos) /\ piece.at # pos
    <3> DEFINE glyph == <<Glyph(EOT)>>
    <3>1. glyph \in Seq(Nat) /\ buf \in Seq(Byte) /\ piece = Piece(next, glyph)
      BY <1>0
    <3> HIDE DEF glyph, piece
    <3>2. Piece(next, glyph) \in PiecesFrom(buf, pos) /\ Piece(next, glyph).at = next
      BY ONLY <2>1, <2>2, <3>1, PieceHere
    <3> QED
      BY <2>2, <3>1, <3>2
  <2>4. PieceOf(b) = EndLine(piece)
    BY <1>4 DEF PieceOf, next, SYN, FS, GS, EOT, Elements, SOH, RS, BEL, ETB, Inline, STX, DLE,
                ENQ, US, SUB, CAN, EM, IsLayout, Layout, SP, HT, LF, CR
  <2> HIDE DEF piece
  <2>5. At(buf, pos) \notin {SYN, FS, GS, CAN}
    BY <1>4 DEF EOT, SYN, FS, GS, CAN
  <2>6. piece \in TurnPieces(buf, pos)
    BY <2>3, <2>5, PieceTurns
  <2> QED
    BY <2>4, <2>6, TurnEnds
<1> QED
  BY <1>1, <1>2, <1>3, <1>4

LEMMA TurnOfElement ==
  ASSUME buf \in Seq(Byte), pos \in 0 .. (Len(buf) - 1), NEW b \in Elements \cup Inline, b = At(buf, pos)
  PROVE  PieceOf(b) \in TurnPieces(buf, pos)
<1> DEFINE n == Len(buf)
           element == Element(buf, pos, Units(buf))
           units == Units(buf)[pos]
<1>0. n \in Nat /\ pos \in 0 .. n /\ pos \in Positions(n) /\ Peek(buf, pos, n) = b
  BY DEF Positions, Peek
<1>1. b \notin {SYN, FS, GS, CAN}
  BY DEF Elements, Inline, SYN, FS, GS, CAN, SOH, RS, BEL, ETB, STX, DLE, ENQ, US, SUB
<1>2. CASE b \in Elements
  <2>1. element \in PiecesFrom(buf, pos) /\ element.at # pos
    BY <1>0, <1>2, ElementReads DEF ElementPieces
  <2>2. PieceOf(b) = element
    <3>1. /\ b # SYN /\ b # FS /\ b # GS /\ b \notin Inline /\ b # CAN /\ b # EOT /\ b # EM
          /\ ~IsLayout(b) /\ ~(b > 32)
      <4>1. b = 1 \/ b = 30 \/ b = 7 \/ b = 23
        BY <1>2 DEF Elements, SOH, RS, BEL, ETB
      <4> QED
        BY ONLY <4>1 DEF SYN, FS, GS, EOT, Inline, STX, DLE, ENQ, US, SUB, CAN, EM, IsLayout, Layout,
                         SP, HT, LF, CR
    <3> HIDE DEF element
    <3> QED
      BY <1>2, <3>1 DEF PieceOf, element
  <2> HIDE DEF element
  <2> QED
    BY <1>1, <2>1, <2>2, PieceTurns
<1>3. CASE b \in Inline
  <2>1. units \in PiecesFrom(buf, pos) /\ units.at # pos
    BY <1>0, <1>3, UnitsRead DEF UnitPieces
  <2>2. PieceOf(b) = EndLine(units)
    BY SMTT(60), <1>3 DEF PieceOf, SYN, FS, GS, EOT, Elements, SOH, RS, BEL, ETB, Inline, STX, DLE,
                ENQ, US, SUB, CAN, EM, IsLayout, Layout, SP, HT, LF, CR
  <2> HIDE DEF units
  <2>3. units \in TurnPieces(buf, pos)
    BY <1>1, <2>1, PieceTurns
  <2> QED
    BY <2>2, <2>3, TurnEnds
<1> QED
  BY <1>2, <1>3

(* A CAN closes a level, and the record around it goes on. *)
LEMMA TurnOfCAN ==
  ASSUME buf \in Seq(Byte), pos \in 0 .. (Len(buf) - 1), At(buf, pos) = CAN
  PROVE  PieceOf(CAN) \in TurnPieces(buf, pos)
<1> DEFINE n == Len(buf)
           next == pos + 1
           units == Units(buf)[next]
<1>0. n \in Nat /\ next \in 0 .. n /\ next \in (pos + 1) .. n /\ next \in Positions(n)
      /\ <<Glyph(CAN)>> \in Seq(Nat)
  BY DEF CAN, Glyph, Positions
<1>1. \A g \in LevelLists : Passes(buf, pos, g, next, Moved(At(buf, pos), g))
  BY PassesByte DEF Moved, next, SYN, FS, GS, CAN
<1>2. units \in PiecesFrom(buf, next)
  BY <1>0, UnitsRead DEF UnitPieces
<1>3. PieceOf(CAN) = EndElement(Prefixed(<<Glyph(CAN)>>, units))
  BY DEF PieceOf, Marked, next, SYN, FS, GS, EOT, Elements, SOH, RS, BEL, ETB, Inline, STX, DLE,
         ENQ, US, SUB, CAN, EM, IsLayout, Layout, SP, HT, LF, CR
<1> HIDE DEF next, units
<1>4. Prefixed(<<Glyph(CAN)>>, units) \in TurnPieces(buf, pos)
  BY <1>0, <1>1, <1>2, CodeThen
<1> QED
  BY <1>3, <1>4, TurnEnds

LEMMA TurnOfData ==
  ASSUME buf \in Seq(Byte), pos \in 0 .. (Len(buf) - 1), NEW b \in Byte, b = At(buf, pos), b > 32
  PROVE  PieceOf(b) \in TurnPieces(buf, pos)
<1> DEFINE n == Len(buf)
           end == ScanPlain(buf, pos, n)
           data == Slice(buf, pos, end)
<1>0. n \in Nat /\ pos \in 0 .. n /\ pos \in Nat /\ pos < n
  OBVIOUS
<1>1. end \in pos .. n /\ Keeps(buf, pos, end) /\ (end < n => ~IsPlainByte(At(buf, end)))
  BY <1>0, KeepsPlain, ScanPlainStops
<1> HIDE DEF end
<1>2. end # pos
  <2> SUFFICES ASSUME end = pos PROVE FALSE
    OBVIOUS
  <2>1. ~IsPlainByte(b)
    BY <1>0, <1>1
  <2>2. b >= 32
    BY DEF Byte
  <2> QED
    BY <2>1, <2>2 DEF IsPlainByte
<1>3. data \in Seq(Byte)
  <2>1. end \in Nat /\ pos <= end /\ end <= n
    BY <1>0, <1>1
  <2> QED
    BY <1>0, <2>1, SliceBytes
<1> HIDE DEF data
<1>4. DataPiece(end, data) \in PiecesFrom(buf, pos) /\ DataPiece(end, data).at \in {Malformed, end}
  BY <1>0, <1>1, <1>3, DataPieceReads
<1>5. PieceOf(b) = DataPiece(end, data)
  <2>1. /\ b # SYN /\ b # FS /\ b # GS /\ b \notin Elements /\ b \notin Inline /\ b # CAN /\ b # EOT
        /\ b # EM /\ ~IsLayout(b)
    BY DEF SYN, FS, GS, EOT, Elements, SOH, RS, BEL, ETB, Inline, STX, DLE,
           ENQ, US, SUB, CAN, EM, IsLayout, Layout, SP, HT, LF, CR
  <2> QED
    BY <2>1 DEF PieceOf, StrayPiece, end, data
<1>6. At(buf, pos) \notin {SYN, FS, GS, CAN}
  BY DEF SYN, FS, GS, CAN
<1>7. Malformed # pos
  BY <1>0 DEF Malformed
<1> DEFINE piece == DataPiece(end, data)
<1> HIDE DEF piece
<1>8. piece \in PiecesFrom(buf, pos) /\ piece.at # pos
  BY <1>2, <1>4, <1>7 DEF piece
<1>9. piece \in TurnPieces(buf, pos)
  BY <1>6, <1>8, PieceTurns
<1> QED
  BY <1>5, <1>9 DEF piece

(* A raw region is the rest of the buffer. *)
LEMMA TurnOfRegion ==
  ASSUME buf \in Seq(Byte), pos \in 0 .. (Len(buf) - 1)
  PROVE  PieceOf(EM).at = Len(buf) /\ ~PieceOf(EM).opens
<1>1. PieceOf(EM) = EndLine(RawRegion(buf, pos))
  BY DEF PieceOf, SYN, FS, GS, EOT, Elements, SOH, RS, BEL, ETB, Inline, STX, DLE,
         ENQ, US, SUB, CAN, EM, IsLayout, Layout, SP, HT, LF, CR
<1> DEFINE region == RawRegion(buf, pos)
<1>2. region \in Pieces(Len(buf)) /\ region.at = Len(buf) /\ ~region.opens
  <2>1. <<Glyph(EM)>> \in Seq(Nat) /\ <<>> \in Seq(Nat) /\ <<SP, 98>> \in Seq(Nat)
    BY DEF Glyph, EM, SP
  <2> DEFINE runes == <<Glyph(EM)>> \o (IF pos + 1 = Len(buf) THEN <<>> ELSE <<SP, 98>>)
  <2>2. runes \in Seq(Nat)
    BY <2>1
  <2>3. Len(buf) \in Positions(Len(buf)) /\ region = Piece(Len(buf), runes)
    BY DEF Positions, RawRegion
  <2> HIDE DEF runes
  <2> QED
    BY <2>2, <2>3 DEF Piece, Pieces
<1> HIDE DEF region
<1>3. EndLine(region).at = region.at /\ EndLine(region).opens = region.opens
  <2>1. Len(buf) \in Nat /\ <<>> \in Seq(Nat)
    OBVIOUS
  <2> QED
    BY <1>2, <2>1, PieceParts
<1> QED
  BY <1>1, <1>2, <1>3 DEF region
-----------------------------------------------------------------------------
(***************************************************************************)
(* The inductive invariant.  That the levels are those of the buffer read  *)
(* so far is not enough by itself: it has to be known however far the      *)
(* reading of them goes, and of the stack as a list of levels.             *)
(***************************************************************************)
LevelsKept == phase = "run" => Passes(buf, 0, <<0>>, pos, Append(stack, gdepth))

IInv ==
  /\ buf \in Seq(Byte)
  /\ pos \in 0 .. Len(buf)
  /\ gdepth \in 0 .. 1
  /\ stack \in Seq(0 .. 1) /\ depth = Len(stack)
  /\ LevelsKept

LEMMA InitIsGood == Init => IInv
<1> SUFFICES ASSUME Init PROVE IInv
  OBVIOUS
<1>1. buf \in Seq(Byte) /\ pos = 0 /\ gdepth = 0 /\ stack = <<>> /\ depth = 0
  BY BuffersAreBytes DEF Init
<1>2. pos \in 0 .. Len(buf) /\ gdepth \in 0 .. 1 /\ stack \in Seq(0 .. 1) /\ depth = Len(stack)
  BY <1>1
<1>3. Append(stack, gdepth) = <<0>>
  BY <1>1
<1>4. LevelsKept
  BY <1>1, <1>3, PassesHere DEF LevelsKept
<1> QED
  BY <1>1, <1>2, <1>4 DEF IInv

(* The byte here, where a turn has one. *)
LEMMA HereIs ==
  ASSUME IInv, Here # None
  PROVE  phase = "run" /\ pos \in 0 .. (Len(buf) - 1) /\ Here = At(buf, pos) /\ Here \in Byte
<1>1. phase = "run" /\ Here = Peek(buf, pos, Len(buf))
  BY DEF Here
<1>2. buf \in Seq(Byte) /\ Len(buf) \in Nat
  BY DEF IInv
<1>3. Peek(buf, pos, Len(buf)) # None
  BY <1>1
<1> QED
  BY <1>1, <1>2, <1>3, PeekSome DEF Peek, At

(* A turn that writes a piece. *)
LEMMA WriteKeeps ==
  ASSUME IInv, Here # None, NEW piece \in TurnPieces(buf, pos),
         NEW before, NEW groups \in 0 .. 1, NEW around \in Seq(0 .. 1),
         Append(around, groups) = Moved(Here, Append(stack, gdepth)),
         Write(before, piece, Len(around), groups, around)
  PROVE  IInv' /\ pos' > pos
<1> DEFINE n == Len(buf)
           g == Append(stack, gdepth)
           h == Append(around, groups)
<1>0. buf \in Seq(Byte) /\ n \in Nat /\ pos \in 0 .. (n - 1) /\ pos \in Nat /\ Here = At(buf, pos)
      /\ phase = "run" /\ stack \in Seq(0 .. 1) /\ gdepth \in 0 .. 1
  BY HereIs DEF IInv
<1>1. piece \in Pieces(n) /\ piece.opens \in BOOLEAN
  BY DEF TurnPieces, Pieces
<1>2. piece.at # Malformed /\ buf' = buf /\ pos' = piece.at /\ gdepth' = groups
      /\ depth' = (IF piece.opens THEN Len(around) + 1 ELSE Len(around))
      /\ stack' = (IF piece.opens THEN h ELSE around)
  BY DEF Write
<1>3. g \in LevelLists /\ h \in LevelLists /\ Last(h) = groups /\ Len(h) = Len(around) + 1
      /\ h \in Seq(0 .. 1)
  BY <1>0, LevelOnTop DEF LevelLists
<1>4. pos' \in (pos + 1) .. n /\ Passes(buf, pos, g, pos', Left(h, piece.opens))
  BY <1>0, <1>2, <1>3 DEF TurnPieces
<1>5. Passes(buf, 0, <<0>>, pos, g)
  BY <1>0 DEF IInv, LevelsKept
<1> HIDE DEF g, h
<1>6. Passes(buf, 0, <<0>>, pos', Left(h, piece.opens))
  <2>1. pos' \in Nat /\ pos <= pos'
    BY <1>0, <1>4
  <2> QED
    BY <1>0, <1>4, <1>5, <2>1, PassesOn
<1>7. Append(stack', gdepth') = Left(h, piece.opens)
  <2>1. CASE piece.opens
    BY <1>2, <1>3, <2>1 DEF Left
  <2>2. CASE ~piece.opens
    BY <1>2, <2>2 DEF Left, h
  <2> QED
    BY <2>1, <2>2
<1>8. stack' \in Seq(0 .. 1) /\ depth' = Len(stack')
  BY <1>2, <1>3
<1>9. pos' \in 0 .. Len(buf') /\ pos' > pos
  BY <1>0, <1>2, <1>4
<1>10. buf' \in Seq(Byte) /\ gdepth' \in 0 .. 1
  BY <1>0, <1>2
<1>11. LevelsKept'
  BY <1>2, <1>6, <1>7 DEF LevelsKept
<1> QED
  BY <1>8, <1>9, <1>10, <1>11 DEF IInv

(* What the code leaves alone, and what it moves to. *)
LEMMA MovedTo ==
  ASSUME IInv
  PROVE  /\ \A b : b \notin {SYN, FS, GS, CAN} => Append(stack, gdepth) = Moved(b, Append(stack, gdepth))
         /\ Append(stack, 0) = Moved(SYN, Append(stack, gdepth))
         /\ \A b \in {FS, GS} : Append(stack, 1) = Moved(b, Append(stack, gdepth))
         /\ stack = <<>> => Append(stack, 0) = Moved(CAN, Append(stack, gdepth))
         /\ stack # <<>> => Append(Front(stack), Last(stack)) = Moved(CAN, Append(stack, gdepth))
<1> DEFINE g == Append(stack, gdepth)
<1>1. stack \in Seq(0 .. 1) /\ gdepth \in 0 .. 1 /\ Len(stack) \in Nat
  BY DEF IInv
<1>2. Front(g) = stack /\ Len(g) = Len(stack) + 1
  BY <1>1, LevelOnTop
<1> HIDE DEF g
<1>3. \A b : b \notin {SYN, FS, GS, CAN} => g = Moved(b, g)
  BY DEF Moved
<1>4. Append(stack, 0) = Moved(SYN, g)
  BY <1>2 DEF Moved, SYN, FS, GS, CAN
<1>5. \A b \in {FS, GS} : Append(stack, 1) = Moved(b, g)
  BY <1>2 DEF Moved, SYN, FS, GS, CAN
<1>6. ASSUME stack = <<>> PROVE Append(stack, 0) = Moved(CAN, g)
  <2>1. Len(g) = 1 /\ Append(stack, 0) = <<0>>
    BY <1>1, <1>2, <1>6
  <2> QED
    BY <2>1 DEF Moved, SYN, FS, GS, CAN
<1>7. ASSUME stack # <<>> PROVE Append(Front(stack), Last(stack)) = Moved(CAN, g)
  <2>1. Len(g) # 1
    BY <1>1, <1>2, <1>7
  <2>2. Append(Front(stack), Last(stack)) = stack
    BY <1>1, <1>7, LevelOnTop
  <2> QED
    BY <1>2, <2>1, <2>2 DEF Moved, SYN, FS, GS, CAN
<1> QED
  BY <1>3, <1>4, <1>5, <1>6, <1>7 DEF g

Advances == phase = "run" => pos' > pos \/ phase' # "run"

(* Every turn keeps the invariant, and advances. *)
LEMMA TurnKeeps ==
  ASSUME IInv, Turn
  PROVE  IInv' /\ Advances
<1>0. /\ buf \in Seq(Byte) /\ Len(buf) \in Nat /\ pos \in 0 .. Len(buf) /\ pos \in Nat
      /\ gdepth \in 0 .. 1 /\ stack \in Seq(0 .. 1) /\ depth = Len(stack) /\ Len(stack) \in Nat
  BY DEF IInv
<1>a. Here # None => pos \in 0 .. (Len(buf) - 1) /\ Here = At(buf, pos) /\ Here \in Byte /\ phase = "run"
  BY HereIs
<1>b. None \notin {SYN, FS, GS, EOT, CAN, EM} \cup Elements \cup Inline \cup Layout /\ ~(None > 32)
  BY DEF None, SYN, FS, GS, EOT, CAN, EM, Elements, SOH, RS, BEL, ETB, Inline, STX, DLE, ENQ, US, SUB,
         Layout, SP, HT, LF, CR
<1>1. CASE WriteSYN
  <2>1. Here = SYN /\ Here # None /\ Write(NewLine, PieceOf(Here), Len(stack), 0, stack)
    BY <1>0, <1>1, <1>b DEF WriteSYN
  <2>2. PieceOf(Here) \in TurnPieces(buf, pos)
    BY <1>0, <1>a, <2>1, TurnOfFrame
  <2>3. Append(stack, 0) = Moved(Here, Append(stack, gdepth)) /\ 0 \in 0 .. 1
    BY <2>1, MovedTo
  <2> QED
    BY <1>0, <2>1, <2>2, <2>3, WriteKeeps DEF Advances
<1>2. CASE WriteFile
  <2>1. Here = FS /\ Here # None
        /\ Write(NewLine \o Indented(depth), PieceOf(Here), Len(stack), 1, stack)
    BY <1>0, <1>2, <1>b DEF WriteFile
  <2>2. PieceOf(Here) \in TurnPieces(buf, pos)
    BY <1>0, <1>a, <2>1, TurnOfFrame
  <2>3. Append(stack, 1) = Moved(Here, Append(stack, gdepth)) /\ 1 \in 0 .. 1
    BY <2>1, MovedTo
  <2> QED
    BY <1>0, <2>1, <2>2, <2>3, WriteKeeps DEF Advances
<1>3. CASE WriteGroup
  <2>1. Here = GS /\ Here # None
        /\ Write(NewLine \o Indented(depth), PieceOf(Here), Len(stack), 1, stack)
    BY <1>0, <1>3, <1>b DEF WriteGroup
  <2>2. PieceOf(Here) \in TurnPieces(buf, pos)
    BY <1>0, <1>a, <2>1, TurnOfFrame
  <2>3. Append(stack, 1) = Moved(Here, Append(stack, gdepth)) /\ 1 \in 0 .. 1
    BY <2>1, MovedTo
  <2> QED
    BY <1>0, <2>1, <2>2, <2>3, WriteKeeps DEF Advances
<1>4. CASE WriteElement
  <2>1. Here \in Elements /\ Here # None
        /\ Write(NewLine \o Indented(depth + gdepth), PieceOf(Here), Len(stack), gdepth, stack)
    BY <1>0, <1>4, <1>b DEF WriteElement
  <2>2. PieceOf(Here) \in TurnPieces(buf, pos)
    BY <1>0, <1>a, <2>1, TurnOfElement
  <2>3. Append(stack, gdepth) = Moved(Here, Append(stack, gdepth))
    BY <2>1, MovedTo DEF Elements, SYN, FS, GS, CAN, SOH, RS, BEL, ETB
  <2> QED
    BY <1>0, <2>1, <2>2, <2>3, WriteKeeps DEF Advances
<1>5. CASE WriteInline
  <2>1. Here \in Inline /\ Here # None /\ Write(<<>>, PieceOf(Here), Len(stack), gdepth, stack)
    BY <1>0, <1>5, <1>b DEF WriteInline
  <2>2. PieceOf(Here) \in TurnPieces(buf, pos)
    BY <1>0, <1>a, <2>1, TurnOfElement
  <2>3. Append(stack, gdepth) = Moved(Here, Append(stack, gdepth))
    BY <2>1, MovedTo DEF Inline, SYN, FS, GS, CAN, STX, DLE, ENQ, US, SUB
  <2> QED
    BY <1>0, <2>1, <2>2, <2>3, WriteKeeps DEF Advances
<1>6. CASE WriteEOT
  <2>1. Here = EOT /\ Here # None /\ Write(NewLine, PieceOf(Here), Len(stack), gdepth, stack)
    BY <1>0, <1>6, <1>b DEF WriteEOT
  <2>2. PieceOf(Here) \in TurnPieces(buf, pos)
    BY <1>0, <1>a, <2>1, TurnOfFrame
  <2>3. Append(stack, gdepth) = Moved(Here, Append(stack, gdepth))
    BY <2>1, MovedTo DEF EOT, SYN, FS, GS, CAN
  <2> QED
    BY <1>0, <2>1, <2>2, <2>3, WriteKeeps DEF Advances
<1>7. CASE WriteCAN
  <2> DEFINE groups == IF stack = <<>> THEN 0 ELSE Last(stack)
             level == IF depth = 0 THEN 0 ELSE depth - 1
             around == IF stack = <<>> THEN stack ELSE Front(stack)
             before == NewLine \o Indented(level + groups)
  <2>1. Here = CAN /\ Here # None /\ Write(before, PieceOf(Here), level, groups, around)
    BY <1>7, <1>b DEF WriteCAN, CloseLevel
  <2>2. PieceOf(Here) \in TurnPieces(buf, pos)
    BY <1>0, <1>a, <2>1, TurnOfCAN
  <2> HIDE DEF before
  <2>3. /\ groups \in 0 .. 1 /\ around \in Seq(0 .. 1) /\ level = Len(around)
        /\ Append(around, groups) = Moved(CAN, Append(stack, gdepth))
    <3>1. CASE stack = <<>>
      BY <1>0, <3>1, MovedTo
    <3>2. CASE stack # <<>>
      <4>1. Front(stack) \in Seq(0 .. 1) /\ Last(stack) \in 0 .. 1 /\ Len(Front(stack)) = Len(stack) - 1
        BY <1>0, <3>2, LevelOnTop
      <4>2. depth # 0 /\ level = Len(stack) - 1
        BY <1>0, <3>2
      <4>3. Append(Front(stack), Last(stack)) = Moved(CAN, Append(stack, gdepth))
        BY <3>2, MovedTo
      <4> QED
        BY <3>2, <4>1, <4>2, <4>3
    <3> QED
      BY <3>1, <3>2
  <2> HIDE DEF groups, level, around
  <2>4. Write(before, PieceOf(Here), Len(around), groups, around)
    BY <2>1, <2>3
  <2> QED
    BY <2>1, <2>2, <2>3, <2>4, WriteKeeps DEF Advances
<1>8. CASE WriteEM
  <2>1. /\ Here = EM /\ Here # None /\ phase' = "compact"
        /\ Write(NewLine, PieceOf(Here), Len(stack), gdepth, stack)
    BY <1>0, <1>8, <1>b DEF WriteEM
  <2>2. PieceOf(Here).at = Len(buf) /\ ~PieceOf(Here).opens
    BY <1>0, <1>a, <2>1, TurnOfRegion
  <2>3. buf' = buf /\ pos' = Len(buf) /\ gdepth' = gdepth /\ stack' = stack /\ depth' = Len(stack)
    BY <2>1, <2>2 DEF Write
  <2> QED
    BY <1>0, <2>1, <2>3 DEF IInv, LevelsKept, Advances
<1>9. CASE SkipLayout
  <2>1. /\ Here \in Layout /\ Here # None /\ pos' = pos + 1 /\ buf' = buf /\ depth' = depth
        /\ gdepth' = gdepth /\ stack' = stack
    BY <1>9, <1>b DEF SkipLayout, IsLayout
  <2>2. pos' \in 0 .. Len(buf') /\ pos' > pos
    BY <1>0, <1>a, <2>1
  <2>3. At(buf, pos) \notin NestCodes
    BY <1>a, <2>1 DEF Layout, SP, HT, LF, CR, NestCodes, STX, DLE, CAN, FS, GS, SYN
  <2>4. Append(stack, gdepth) \in LevelLists
    BY <1>0, LevelOnTop
  <2>5. Passes(buf, pos, Append(stack, gdepth), pos + 1, Append(stack, gdepth))
    BY <1>0, <1>a, <2>1, <2>3, <2>4, PassesByte
  <2>6. Passes(buf, 0, <<0>>, pos, Append(stack, gdepth))
    BY <1>a, <2>1 DEF IInv, LevelsKept
  <2>7. Passes(buf, 0, <<0>>, pos + 1, Append(stack, gdepth))
    <3>1. pos + 1 \in Nat /\ pos <= pos + 1
      BY <1>0
    <3> QED
      BY <1>0, <2>5, <2>6, <3>1, PassesOn
  <2> QED
    BY <1>0, <2>1, <2>2, <2>7 DEF IInv, LevelsKept, Advances
<1>10. CASE WriteStray
  <2>1. Here > 32 /\ Here # None /\ Write(<<>>, PieceOf(Here), Len(stack), gdepth, stack)
    BY <1>0, <1>10, <1>b DEF WriteStray
  <2>2. PieceOf(Here) \in TurnPieces(buf, pos)
    BY <1>0, <1>a, <2>1, TurnOfData
  <2>3. Append(stack, gdepth) = Moved(Here, Append(stack, gdepth))
    <3>1. Here \notin {SYN, FS, GS, CAN}
      BY <2>1 DEF SYN, FS, GS, CAN
    <3> QED
      BY <3>1, MovedTo
  <2> QED
    BY <1>0, <2>1, <2>2, <2>3, WriteKeeps DEF Advances
<1>11. CASE Fail
  BY <1>0, <1>11 DEF Fail, IInv, LevelsKept, Advances
<1>12. CASE Finish
  BY <1>0, <1>12 DEF Finish, IInv, LevelsKept, Advances
<1> QED
  BY <1>1, <1>2, <1>3, <1>4, <1>5, <1>6, <1>7, <1>8, <1>9, <1>10, <1>11, <1>12 DEF Turn

LEMMA StepKeeps == IInv /\ [Next]_vars => IInv' /\ [Advances]_vars
<1> SUFFICES ASSUME IInv, [Next]_vars PROVE IInv' /\ [Advances]_vars
  OBVIOUS
<1>1. CASE Turn
  BY <1>1, TurnKeeps
<1>2. ASSUME NEW mode \in {"aligned", "spaced"}, AlignText(mode)
      PROVE  IInv' /\ Advances
  BY <1>2 DEF AlignText, IInv, LevelsKept, Advances
<1>3. CASE UNCHANGED vars
  BY <1>3 DEF vars, IInv, LevelsKept
<1> QED
  BY <1>1, <1>2, <1>3 DEF Next, Returned

(* FormatWith returns, whatever the buffer: every turn of its loop reads   *)
(* on or is the last, because whatever a turn is entered with - a code of  *)
(* an element, of a unit, a run of data - the functions that write it read *)
(* at least that byte, or panic.                                           *)
THEOREM LoopReturns == Spec => TurnsAdvance
<1>1. Init => IInv
  BY InitIsGood
<1>2. IInv /\ [Next]_vars => IInv' /\ [Advances]_vars
  BY StepKeeps
<1>3. [Advances]_vars => [phase = "run" => pos' > pos \/ phase' # "run"]_vars
  BY DEF Advances
<1> QED
  BY <1>1, <1>2, <1>3, PTL DEF Spec, TurnsAdvance

(* The depth, the depth of groups and the stack that writeIndent indents   *)
(* by are, whatever the buffer, those of the levels and groups open where  *)
(* the loop reads: a level that closes gives back the depth of the groups  *)
(* around it, however many groups and levels it held itself, and levels    *)
(* read within a turn - those in a heading, skipped as a whole - close as  *)
(* they opened.                                                            *)
THEOREM IndentsRight == Spec => []NestingIsKept
<1>1. Init => IInv
  BY InitIsGood
<1>2. IInv /\ [Next]_vars => IInv'
  BY StepKeeps
<1>3. IInv => NestingIsKept
  <2> SUFFICES ASSUME IInv, phase = "run" PROVE Append(stack, gdepth) = Nesting(buf, pos)
    BY DEF NestingIsKept
  <2>1. buf \in Seq(Byte) /\ pos \in 0 .. Len(buf) /\ Append(stack, gdepth) \in LevelLists
    BY LevelOnTop DEF IInv
  <2>2. Passes(buf, 0, <<0>>, pos, Append(stack, gdepth))
    BY DEF IInv, LevelsKept
  <2> QED
    BY <2>1, <2>2, NestingThere
<1> QED
  BY <1>1, <1>2, <1>3, PTL DEF Spec
=============================================================================
