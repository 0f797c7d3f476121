---------------------------- MODULE C0ScanProofs ----------------------------
(***************************************************************************)
(* What holds of the scanning primitives for every buffer, and what such   *)
(* proofs rest on: least elements of sets of naturals, and from them       *)
(* induction and recursion over a measure.                                 *)
(*                                                                         *)
(* A function that a module defines recursively is the one CHOOSEn among   *)
(* those that satisfy its equation.  So a proof about it first shows that  *)
(* there is one: Fixpoint, in which the functions, their domain and the    *)
(* measure that the recursion decreases are sets.  From then on the        *)
(* equation and MeasureInduct are all it uses.                             *)
(***************************************************************************)
EXTENDS C0Scan, FiniteSetTheorems, TLAPS

(* Every non-empty set of naturals has a least element.  (The segments     *)
(* 0..k of its elements are well founded under strict inclusion.)          *)
LEMMA LeastNat ==
  ASSUME NEW T, T \subseteq Nat, T # {}
  PROVE  \E m \in T : \A k \in T : m <= k
<1> DEFINE Below(k) == 0 .. k
           U == {Below(k) : k \in T}
           R == StrictSubsetOrdering(Nat)
           F == FiniteSubsetsOf(Nat)
<1>1. U \subseteq F /\ U # {}
  <2>1. \A k \in T : Below(k) \in SUBSET Nat /\ IsFiniteSet(Below(k))
    <3> TAKE k \in T
    <3>1. 0 \in Int /\ k \in Int
      OBVIOUS
    <3>2. IsFiniteSet(0 .. k)
      BY <3>1, FS_Interval
    <3> QED
      BY <3>2
  <2> QED
    BY <2>1 DEF FiniteSubsetsOf
<1>2. IsWellFoundedOn(R, F)
  BY FS_StrictSubsetOrderingWellFounded
<1>3. PICK u \in U : \A v \in U : ~(<<v, u>> \in R)
  <2> HIDE DEF R, F, U
  <2> QED
    BY <1>1, <1>2, WFMin
<1>4. PICK m \in T : u = Below(m)
  OBVIOUS
<1>5. ASSUME NEW k \in T, k < m PROVE FALSE
  <2>1. Below(k) \in U
    BY Zenon
  <2>2. Below(k) \subseteq Below(m) /\ m \in Below(m) /\ m \notin Below(k)
    BY <1>5
  <2>3. Below(k) \in SUBSET Nat /\ Below(m) \in SUBSET Nat
    OBVIOUS
  <2>4. <<Below(k), Below(m)>> \in R
    BY <2>2, <2>3 DEF StrictSubsetOrdering
  <2> QED
    BY <2>1, <2>4, <1>3, <1>4
<1> QED
  BY <1>5

LEMMA MinNat ==
  ASSUME NEW T, T \subseteq Nat, T # {}
  PROVE  Min(T) \in T /\ \A k \in T : Min(T) <= k
BY LeastNat DEF Min

(* A bounded set of naturals has a greatest element. *)
LEMMA MaxNat ==
  ASSUME NEW T, T \subseteq Nat, T # {}, NEW n \in Nat, \A k \in T : k <= n
  PROVE  Max(T) \in T /\ \A k \in T : k <= Max(T)
<1> DEFINE D == {d \in Nat : \E k \in T : d = n - k}
<1>1. D \subseteq Nat
  OBVIOUS
<1>2. D # {}
  <2>1. PICK k \in T : TRUE
    OBVIOUS
  <2> QED
    BY <2>1, n - k \in D
<1>3. PICK d \in D : \A e \in D : d <= e
  <2> HIDE DEF D
  <2> QED
    BY <1>1, <1>2, LeastNat
<1>4. PICK m \in T : d = n - m
  OBVIOUS
<1>5. \A k \in T : k <= m
  <2> TAKE k \in T
  <2>1. n - k \in D
    OBVIOUS
  <2> QED
    BY <2>1, <1>3, <1>4
<1> QED
  BY <1>5 DEF Max

(* Induction over the naturals, with a set for the property. *)
LEMMA NatInduct ==
  ASSUME NEW T, 0 \in T, \A n \in Nat : n \in T => n + 1 \in T
  PROVE  Nat \subseteq T
<1> DEFINE U == {n \in Nat : n \notin T}
<1>1. SUFFICES ASSUME U # {} PROVE FALSE
  OBVIOUS
<1>2. PICK m \in U : \A k \in U : m <= k
  <2>1. U \subseteq Nat
    OBVIOUS
  <2> HIDE DEF U
  <2> QED
    BY <1>1, <2>1, LeastNat
<1>3. m # 0 /\ m - 1 \in Nat /\ m - 1 \notin U
  BY <1>2
<1> QED
  BY <1>3

(***************************************************************************)
(* A recursion: G takes a function f of F to the function that the body of *)
(* the definition makes of f.  It contracts when that body, at x, looks at *)
(* f only where the measure is smaller than at x.                          *)
(***************************************************************************)
Contracts(D, F, m, G) ==
  \A f, g \in F : \A x \in D :
    (\A y \in D : m[y] < m[x] => f[y] = g[y]) => G[f][x] = G[g][x]

(* A recursion over a bounded measure has a solution. *)
LEMMA Fixpoint ==
  ASSUME NEW D, NEW F, F # {}, \A f \in F : f = [x \in D |-> f[x]],
         NEW N \in Nat, NEW m \in [D -> 0 .. N], NEW G \in [F -> F],
         Contracts(D, F, m, G)
  PROVE  \E f \in F : f = G[f]
<1> DEFINE T == {n \in Nat : \E f \in F : \A x \in D : m[x] < n => f[x] = G[f][x]}
<1>1. 0 \in T
  OBVIOUS
<1>2. ASSUME NEW n \in Nat, n \in T PROVE n + 1 \in T
  <2>1. PICK f \in F : \A x \in D : m[x] < n => f[x] = G[f][x]
    BY <1>2
  <2>2. G[f] \in F
    OBVIOUS
  <2>3. ASSUME NEW x \in D, m[x] < n + 1 PROVE G[f][x] = G[G[f]][x]
    <3>1. \A y \in D : m[y] \in Nat
      OBVIOUS
    <3>2. \A y \in D : m[y] < m[x] => f[y] = G[f][y]
      BY <2>1, <2>3, <3>1
    <3> QED
      BY <2>2, <3>2 DEF Contracts
  <2> QED
    BY <2>2, <2>3
<1>3. N + 1 \in T
  <2> HIDE DEF T
  <2> QED
    BY <1>1, <1>2, NatInduct
<1>4. PICK f \in F : \A x \in D : m[x] < N + 1 => f[x] = G[f][x]
  BY <1>3
<1>5. \A x \in D : f[x] = G[f][x]
  BY <1>4
<1>6. G[f] \in F
  OBVIOUS
<1>7. f = [x \in D |-> f[x]] /\ G[f] = [x \in D |-> G[f][x]]
  BY <1>6
<1>8. f = G[f]
  BY <1>5, <1>7
<1> QED
  BY <1>8

(* The same, with what it takes for granted under one name: the recursion  *)
(* G, on functions F over D, has a bounded measure m that it decreases.    *)
Recursion(D, F, m, N, G) ==
  /\ F # {} /\ \A f \in F : f = [x \in D |-> f[x]]
  /\ N \in Nat /\ m \in [D -> 0 .. N]
  /\ G \in [F -> F]
  /\ Contracts(D, F, m, G)

LEMMA Solution ==
  ASSUME NEW D, NEW F, NEW m, NEW N, NEW G, Recursion(D, F, m, N, G)
  PROVE  \E f \in F : f = G[f]
<1>1. F # {} /\ N \in Nat /\ m \in [D -> 0 .. N] /\ G \in [F -> F]
  BY DEF Recursion
<1>2. \A f \in F : f = [x \in D |-> f[x]]
  BY DEF Recursion
<1>3. Contracts(D, F, m, G)
  BY DEF Recursion
<1> QED
  BY ONLY <1>1, <1>2, <1>3, Fixpoint

(* Induction over a measure, with a set for the property. *)
LEMMA MeasureInduct ==
  ASSUME NEW D, NEW m \in [D -> Nat], NEW T,
         \A x \in D : (\A y \in D : m[y] < m[x] => y \in T) => x \in T
  PROVE  D \subseteq T
<1> DEFINE U == {m[x] : x \in D \ T}
<1>1. SUFFICES ASSUME U # {} PROVE FALSE
  OBVIOUS
<1>2. PICK k \in U : \A j \in U : k <= j
  <2>1. U \subseteq Nat
    OBVIOUS
  <2> HIDE DEF U
  <2> QED
    BY <1>1, <2>1, LeastNat
<1>3. PICK x \in D \ T : k = m[x]
  OBVIOUS
<1>4. \A y \in D : m[y] < m[x] => y \in T
  <2> TAKE y \in D
  <2> HAVE m[y] < m[x]
  <2>1. m[y] \in Nat /\ m[x] \in Nat
    OBVIOUS
  <2> QED
    BY SMTT(60), <2>1, <1>2, <1>3
<1> QED
  BY <1>3, <1>4

(* Sequences over S are put together one after the other. *)
Flattens(f, n, seqs) ==
  /\ f[0] = <<>> /\ f[n] = FlattenSeq(seqs)
  /\ \A i \in 1 .. n : f[i] = f[i - 1] \o seqs[i]

LEMMA FlattenSeqIs ==
  ASSUME NEW S, NEW n \in Nat, NEW seqs \in [1 .. n -> Seq(S)]
  PROVE  \E f \in [0 .. n -> Seq(S)] : Flattens(f, n, seqs)
<1>len. Len(seqs) = n /\ seqs \in Seq(Seq(S)) /\ <<>> \in Seq(S)
  OBVIOUS
<1>0. CASE n = 0
  <2>1. seqs = <<>>
    BY <1>0
  <2>2. FlattenSeq(seqs) = <<>>
    BY <2>1 DEF FlattenSeq
  <2> DEFINE f == [i \in 0 .. n |-> <<>>]
  <2>3. f \in [0 .. n -> Seq(S)] /\ f[0] = <<>> /\ f[n] = <<>>
    BY <1>0, <1>len
  <2>4. \A i \in 1 .. n : f[i] = f[i - 1] \o seqs[i]
    BY <1>0
  <2> HIDE DEF f
  <2> QED
    BY <2>2, <2>3, <2>4 DEF Flattens
<1>1. CASE n # 0
  <2> DEFINE D == 1 .. n
             F == [D -> Seq(S)]
             Body(f, i) == IF i = 1 THEN seqs[i] ELSE f[i - 1] \o seqs[i]
             G == [f \in F |-> [i \in D |-> Body(f, i)]]
             m == [i \in D |-> i]
  <2>1. \A i \in D : i = 1 \/ i - 1 \in D
    OBVIOUS
  <2>2. G \in [F -> F]
    <3>1. \A f \in F, i \in D : Body(f, i) \in Seq(S)
      BY <2>1
    <3> HIDE DEF Body, D
    <3> QED
      BY <3>1
  <2>3. m \in [D -> 0 .. n] /\ m \in [D -> Nat]
    OBVIOUS
  <2>4. \E f \in F : f = G[f]
    <3>1. F # {} 
      <4>1. [i \in D |-> <<>>] \in F
        OBVIOUS
      <4> QED
        BY <4>1
    <3>2. \A f \in F : f = [i \in D |-> f[i]]
      OBVIOUS
    <3>3. ASSUME NEW f \in F, NEW g \in F, NEW i \in D,
                 \A j \in D : m[j] < m[i] => f[j] = g[j]
          PROVE  G[f][i] = G[g][i]
      <4>1. i # 1 => f[i - 1] = g[i - 1]
        BY <2>1, <3>3
      <4>2. Body(f, i) = Body(g, i)
        BY <4>1
      <4> HIDE DEF Body
      <4> QED
        BY <4>2
    <3>4. Contracts(D, F, m, G)
      BY <3>3 DEF Contracts
    <3>5. n \in Nat
      BY <1>len
    <3> HIDE DEF F, D, m, G
    <3>6. Recursion(D, F, m, n, G)
      BY ONLY <2>2, <2>3, <3>1, <3>2, <3>4, <3>5 DEF Recursion
    <3> QED
      BY ONLY <3>6, Solution
  <2> DEFINE flatten == CHOOSE f : f = [i \in 1 .. Len(seqs) |-> Body(f, i)]
  <2>5. FlattenSeq(seqs) = flatten[n]
    BY <1>1, <1>len DEF FlattenSeq
  <2>6. flatten = [i \in D |-> Body(flatten, i)]
    BY <1>len, <2>4
  <2> HIDE DEF flatten
  <2> DEFINE T == {i \in D : flatten[i] \in Seq(S)}
  <2>7. ASSUME NEW i \in D, \A j \in D : m[j] < m[i] => j \in T
        PROVE  i \in T
    <3>1. i # 1 => flatten[i - 1] \in Seq(S)
      BY <2>1, <2>7
    <3>2. flatten[i] = Body(flatten, i)
      BY <2>6
    <3>3. seqs[i] \in Seq(S)
      OBVIOUS
    <3>4. \A s, t \in Seq(S) : s \o t \in Seq(S)
      OBVIOUS
    <3>5. Body(flatten, i) \in Seq(S)
      BY <3>1, <3>3, <3>4, Zenon
    <3> QED
      BY <3>2, <3>5
  <2>8. D \subseteq T
    <3> HIDE DEF D, T, m
    <3> QED
      BY <2>3, <2>7, MeasureInduct
  <2>9. \A i \in D : /\ flatten[i] \in Seq(S)
                     /\ flatten[i] = IF i = 1 THEN seqs[i] ELSE flatten[i - 1] \o seqs[i]
    BY <2>6, <2>8
  <2> DEFINE f == [i \in 0 .. n |-> IF i = 0 THEN <<>> ELSE flatten[i]]
  <2>10. f \in [0 .. n -> Seq(S)]
    <3> HIDE DEF T, m
    <3> QED
      BY <1>len, <2>9
  <2>11. ASSUME NEW i \in 1 .. n PROVE f[i] = f[i - 1] \o seqs[i]
    <3>1. i = 1 => f[i] = seqs[i] /\ f[i - 1] = <<>>
      BY <2>9
    <3>2. ASSUME i # 1 PROVE f[i] = flatten[i - 1] \o seqs[i] /\ f[i - 1] = flatten[i - 1]
      <4>1. i \in 0 .. n /\ i - 1 \in 0 .. n /\ i # 0 /\ i - 1 # 0
        BY <3>2
      <4>2. f[i] = flatten[i] /\ f[i - 1] = flatten[i - 1]
        BY <4>1
      <4> HIDE DEF f
      <4> QED
        BY <2>9, <3>2, <4>2
    <3>3. seqs[i] \in Seq(S) /\ <<>> \o seqs[i] = seqs[i]
      OBVIOUS
    <3> HIDE DEF f
    <3> QED
      BY <3>1, <3>2, <3>3
  <2>12. f[0] = <<>> /\ f[n] = FlattenSeq(seqs)
    BY <1>1, <2>5
  <2> QED
    BY <2>10, <2>11, <2>12 DEF Flattens
<1> QED
  BY <1>0, <1>1

(* What is put together from sequences over S is one. *)
LEMMA FlattenSeqType ==
  ASSUME NEW S, NEW n \in Nat, NEW seqs \in [1 .. n -> Seq(S)]
  PROVE  FlattenSeq(seqs) \in Seq(S)
<1>1. n \in 0 .. n
  OBVIOUS
<1>2. PICK f \in [0 .. n -> Seq(S)] : Flattens(f, n, seqs)
  BY FlattenSeqIs, Zenon
<1>3. f[n] \in Seq(S)
  BY <1>1
<1> QED
  BY <1>2, <1>3 DEF Flattens
-----------------------------------------------------------------------------
(* Where scanLayout stops: within the bounds, having passed only layout. *)
LEMMA ScanLayoutStops ==
  ASSUME NEW buf, NEW pos \in Nat, NEW stop \in Nat, pos <= stop
  PROVE  LET p == ScanLayout(buf, pos, stop) IN
         /\ p \in pos .. stop
         /\ p < stop => ~IsLayout(At(buf, p))
         /\ \A q \in pos .. (p - 1) : IsLayout(At(buf, q))
<1> DEFINE T == {p \in pos .. stop : p = stop \/ ~IsLayout(At(buf, p))}
<1>1. T \subseteq Nat /\ stop \in T
  OBVIOUS
<1>2. Min(T) \in T /\ \A k \in T : Min(T) <= k
  <2> HIDE DEF T
  <2> QED
    BY <1>1, MinNat
<1>3. \A q \in pos .. (Min(T) - 1) : q \notin T /\ q \in pos .. stop
  BY <1>2
<1> QED
  BY <1>2, <1>3 DEF ScanLayout

(* Where scanPlain stops: within the bounds, having passed only plain bytes. *)
LEMMA ScanPlainStops ==
  ASSUME NEW buf, NEW pos \in Nat, NEW stop \in Nat, pos <= stop
  PROVE  LET p == ScanPlain(buf, pos, stop) IN
         /\ p \in pos .. stop
         /\ p < stop => ~IsPlainByte(At(buf, p))
         /\ \A q \in pos .. (p - 1) : IsPlainByte(At(buf, q))
<1> DEFINE T == {p \in pos .. stop : p = stop \/ ~IsPlainByte(At(buf, p))}
<1>1. T \subseteq Nat /\ stop \in T
  OBVIOUS
<1>2. Min(T) \in T /\ \A k \in T : Min(T) <= k
  <2> HIDE DEF T
  <2> QED
    BY <1>1, MinNat
<1>3. \A q \in pos .. (Min(T) - 1) : q \notin T /\ q \in pos .. stop
  BY <1>2
<1> QED
  BY <1>2, <1>3 DEF ScanPlain

(* A position that qualifies is where the scan stops. *)
LEMMA ScanLayoutIs ==
  ASSUME NEW buf, NEW pos \in Nat, NEW stop \in Nat, NEW p \in pos .. stop,
         p = stop \/ ~IsLayout(At(buf, p)),
         \A q \in pos .. (p - 1) : IsLayout(At(buf, q))
  PROVE  ScanLayout(buf, pos, stop) = p
<1> DEFINE r == ScanLayout(buf, pos, stop)
<1>1. /\ r \in pos .. stop /\ (r < stop => ~IsLayout(At(buf, r)))
      /\ \A q \in pos .. (r - 1) : IsLayout(At(buf, q))
  BY ScanLayoutStops
<1> HIDE DEF r
<1> QED
  BY <1>1 DEF r

LEMMA ScanPlainIs ==
  ASSUME NEW buf, NEW pos \in Nat, NEW stop \in Nat, NEW p \in pos .. stop,
         p = stop \/ ~IsPlainByte(At(buf, p)),
         \A q \in pos .. (p - 1) : IsPlainByte(At(buf, q))
  PROVE  ScanPlain(buf, pos, stop) = p
<1> DEFINE r == ScanPlain(buf, pos, stop)
<1>1. /\ r \in pos .. stop /\ (r < stop => ~IsPlainByte(At(buf, r)))
      /\ \A q \in pos .. (r - 1) : IsPlainByte(At(buf, q))
  BY ScanPlainStops
<1> HIDE DEF r
<1> QED
  BY <1>1 DEF r
-----------------------------------------------------------------------------
(* scanText: the function that ScanText applies, and what it returns. *)
TextFrom(after, buf, p, stop) ==
  CASE p >= stop -> Malformed
    [] p < stop /\ At(buf, p) = DLE ->
         IF p + 1 < stop /\ At(buf, p + 1) \in TextEscaped
         THEN after[p + 2] ELSE Malformed
    [] p < stop /\ At(buf, p) = ETX -> p + 1
    [] p < stop /\ At(buf, p) \in Framing \cup {STX} -> Malformed
    [] OTHER -> after[p + 1]

TextRules(after, buf, p, stop) ==
  /\ p >= stop => after[p] = Malformed
  /\ p < stop /\ At(buf, p) = DLE =>
       LET escapes == p + 1 < stop /\ At(buf, p + 1) \in TextEscaped IN
       /\ escapes => after[p] = after[p + 2]
       /\ ~escapes => after[p] = Malformed
  /\ p < stop /\ At(buf, p) = ETX => after[p] = p + 1
  /\ p < stop /\ At(buf, p) \in Framing \cup {STX} => after[p] = Malformed
  /\ p < stop /\ At(buf, p) \notin Framing \cup {STX, DLE, ETX} => after[p] = after[p + 1]

LEMMA ScanTextUnfolds ==
  ASSUME NEW buf, NEW pos \in Nat, NEW stop \in Nat, pos <= stop
  PROVE  \E after \in [(pos + 1) .. (stop + 1) -> Int] :
           /\ \A p \in (pos + 1) .. (stop + 1) : 
                /\ TextRules(after, buf, p, stop)
                /\ after[p] \in {Malformed} \cup (p + 1) .. stop
           /\ ScanText(buf, pos, stop) = after[pos + 1]
<1> DEFINE D == (pos + 1) .. (stop + 1)
           F == [D -> Int]
           G == [f \in F |-> [p \in D |-> TextFrom(f, buf, p, stop)]]
           m == [p \in D |-> stop + 1 - p]
           N == stop + 1
<1>1. \A f \in F : \A p \in D : TextFrom(f, buf, p, stop) \in Int
  BY DEF TextFrom, Malformed
<1>2. G \in [F -> F]
  BY <1>1
<1>3. m \in [D -> 0 .. N] /\ N \in Nat
  OBVIOUS
<1>4. ASSUME NEW f \in F, NEW g \in F, NEW x \in D,
             \A y \in D : m[y] < m[x] => f[y] = g[y]
      PROVE  G[f][x] = G[g][x]
  <2>1. x + 1 \in D /\ x + 2 \in D => f[x + 1] = g[x + 1] /\ f[x + 2] = g[x + 2]
    BY <1>4
  <2>2. x < stop => x + 1 \in D /\ x + 2 \in D
    OBVIOUS
  <2>3. TextFrom(f, buf, x, stop) = TextFrom(g, buf, x, stop)
    BY <2>1, <2>2 DEF TextFrom
  <2> QED
    BY <2>3
<1>5. \E f \in F : f = G[f]
  <2>1. [p \in D |-> 0] \in F
    OBVIOUS
  <2>2. F # {}
    BY <2>1
  <2>3. \A f \in F : f = [x \in D |-> f[x]]
    OBVIOUS
  <2>4. Contracts(D, F, m, G)
    BY <1>4 DEF Contracts
  <2> HIDE DEF F, D, m, G, N
  <2> QED
    BY <1>2, <1>3, <2>2, <2>3, <2>4, Fixpoint
<1> DEFINE after == CHOOSE f : f = [p \in D |-> TextFrom(f, buf, p, stop)]
<1>6. ScanText(buf, pos, stop) = after[pos + 1]
  BY DEF ScanText, TextFrom
<1>7. after = [p \in D |-> TextFrom(after, buf, p, stop)]
  BY <1>5
<1> HIDE DEF after
<1>8. ASSUME NEW p \in D PROVE TextRules(after, buf, p, stop)
  <2>1. after[p] = TextFrom(after, buf, p, stop)
    BY <1>7
  <2>2. /\ DLE # ETX /\ DLE \notin Framing \cup {STX} /\ ETX \notin Framing \cup {STX}
        /\ (p < stop \/ p >= stop) /\ ~(p < stop /\ p >= stop)
    BY DEF DLE, ETX, STX, Framing, ETB, EOT, SYN, EM
  <2> QED
    BY <2>1, <2>2 DEF TextFrom, TextRules
<1>9. \A p \in D : after[p] \in {Malformed} \cup (p + 1) .. stop
  <2> DEFINE T == {p \in D : after[p] \in {Malformed} \cup (p + 1) .. stop}
  <2>1. ASSUME NEW x \in D, \A y \in D : m[y] < m[x] => y \in T
        PROVE  x \in T
    <3>1. x < stop => x + 1 \in T /\ x + 2 \in T
      BY <2>1
    <3>2. x < stop \/ x >= stop
      OBVIOUS
    <3>3. after[x] \in {Malformed, x + 1, after[x + 1], after[x + 2]}
          /\ (x >= stop => after[x] = Malformed)
      BY <1>8, <3>2 DEF TextRules
    <3> QED
      BY <3>1, <3>2, <3>3
  <2>2. m \in [D -> Nat]
    OBVIOUS
  <2>3. D \subseteq T
    <3> HIDE DEF D, T, m
    <3> QED
      BY <2>1, <2>2, MeasureInduct
  <2> QED
    BY <2>3
<1>10. after \in [D -> Int]
  BY <1>7, <1>9 DEF Malformed
<1> QED
  BY <1>6, <1>8, <1>9, <1>10

(* The position behind a text lies behind its STX and an ETX. *)
LEMMA ScanTextStops ==
  ASSUME NEW buf, NEW pos \in Nat, NEW stop \in Nat, pos <= stop
  PROVE  ScanText(buf, pos, stop) \in {Malformed} \cup (pos + 2) .. stop
<1>1. PICK after \in [(pos + 1) .. (stop + 1) -> Int] :
           /\ \A p \in (pos + 1) .. (stop + 1) : 
                after[p] \in {Malformed} \cup (p + 1) .. stop
           /\ ScanText(buf, pos, stop) = after[pos + 1]
  BY ScanTextUnfolds, Zenon
<1>2. pos + 1 \in (pos + 1) .. (stop + 1) /\ (pos + 1) + 1 = pos + 2
  OBVIOUS
<1> QED
  BY <1>1, <1>2
-----------------------------------------------------------------------------
(* What a byte that is there says of its position. *)
LEMMA PeekSome ==
  ASSUME NEW stop \in Nat, NEW buf \in Seq(Byte), stop <= Len(buf), NEW p
  PROVE  /\ Peek(buf, p, stop) \in Byte \cup {None}
         /\ Peek(buf, p, stop) # None => p \in 0 .. (stop - 1) /\ Peek(buf, p, stop) = At(buf, p)
         /\ p \in 0 .. (stop - 1) => Peek(buf, p, stop) \in Byte
BY DEF Peek, At, None, Byte

(* What is left of n bytes at a position. *)
Rest(n) == [p \in Positions(n) |-> IF p = Malformed THEN 0 ELSE n + 1 - p]

LEMMA RestType ==
  ASSUME NEW n \in Nat
  PROVE  Rest(n) \in [Positions(n) -> 0 .. (n + 1)] /\ Rest(n) \in [Positions(n) -> Nat]
BY DEF Rest, Positions

LEMMA SliceBytes ==
  ASSUME NEW b \in Seq(Byte), NEW i \in Nat, NEW j \in Nat, i <= j, j <= Len(b)
  PROVE  /\ Slice(b, i, j) \in Seq(Byte)
         /\ Len(Slice(b, i, j)) = j - i
         /\ \A k \in 1 .. (j - i) : Slice(b, i, j)[k] = At(b, i + k - 1)
BY DEF Slice, At

(***************************************************************************)
(* scanLevel: one turn of its loop, at position x[1] and depth x[2].  Of   *)
(* two functions that agree where the rest of the buffer is shorter it     *)
(* makes the same.                                                         *)
(***************************************************************************)
LevelFrom(after, buf, stop, x) ==
  LET p == x[1]
      depth == x[2]
      c == Peek(buf, p, stop)
  IN  CASE p = Malformed \/ c \in Framing \cup {None} -> Malformed
        [] c = STX -> after[<<ScanText(buf, p, stop), depth>>]
        [] c = DLE -> after[<<p + 1, depth + 1>>]
        [] c = CAN -> IF depth = 1 THEN p + 1 ELSE after[<<p + 1, depth - 1>>]
        [] OTHER -> after[<<p + 1, depth>>]

LevelPoints(stop) == Positions(stop) \X (Nat \ {0})

LevelRest(stop) == [x \in LevelPoints(stop) |-> IF x[1] = Malformed THEN 0 ELSE stop + 1 - x[1]]

(* The positions that reading on from p can lead to. *)
Behind(stop, p) == {Malformed} \cup {q \in 0 .. stop : p # Malformed /\ q > p}

LEMMA LevelTurn ==
  ASSUME NEW stop \in Nat, NEW buf \in Seq(Byte), stop <= Len(buf),
         NEW x \in LevelPoints(stop), NEW f, NEW g,
         \A y \in LevelPoints(stop) : LevelRest(stop)[y] < LevelRest(stop)[x] =>
           f[y] = g[y] /\ f[y] \in Behind(stop, y[1])
  PROVE  /\ LevelFrom(f, buf, stop, x) = LevelFrom(g, buf, stop, x)
         /\ LevelFrom(f, buf, stop, x) \in Behind(stop, x[1])
<1> DEFINE p == x[1]
           depth == x[2]
           c == Peek(buf, p, stop)
<1>0. p \in Positions(stop) /\ depth \in Nat \ {0}
  BY DEF LevelPoints
<1>1. ASSUME p # Malformed, NEW q \in Positions(stop), q = Malformed \/ q > p, NEW d \in Nat \ {0}
      PROVE  f[<<q, d>>] = g[<<q, d>>] /\ f[<<q, d>>] \in Behind(stop, p)
  <2> DEFINE y == <<q, d>>
  <2>1. y \in LevelPoints(stop) /\ y[1] = q /\ y[2] = d
    BY DEF LevelPoints
  <2>2. LevelRest(stop)[y] < LevelRest(stop)[x]
    BY <2>1, <1>1, <1>0 DEF LevelRest, Positions, Malformed
  <2>3. f[y] = g[y] /\ f[y] \in Behind(stop, q)
    BY <2>1, <2>2
  <2>4. Behind(stop, q) \subseteq Behind(stop, p)
    <3>1. p \in 0 .. stop
      BY <1>1, <1>0 DEF Positions
    <3> HIDE DEF p
    <3> QED
      BY <3>1, <1>1 DEF Behind, Positions
  <2> QED
    BY <2>3, <2>4
<1>2. CASE p = Malformed \/ c \in Framing \cup {None}
  BY <1>2 DEF LevelFrom, Behind, STX, DLE, CAN, Framing, ETB, EOT, SYN, EM, None, Peek, Malformed
<1>3. CASE ~(p = Malformed \/ c \in Framing \cup {None})
  <2>1. p \in 0 .. (stop - 1)
    BY <1>3, PeekSome
  <2>2. ScanText(buf, p, stop) \in {Malformed} \cup (p + 2) .. stop
    BY <2>1, ScanTextStops
  <2>3. ScanText(buf, p, stop) \in Positions(stop)
        /\ (ScanText(buf, p, stop) = Malformed \/ ScanText(buf, p, stop) > p)
    BY <2>1, <2>2 DEF Positions
  <2>4. p + 1 \in Positions(stop) /\ p + 1 > p /\ p + 1 \in Behind(stop, p)
    BY <2>1 DEF Positions, Behind, Malformed
  <2>5. depth + 1 \in Nat \ {0} /\ (depth # 1 => depth - 1 \in Nat \ {0})
    BY <1>0
  <2>6. CASE c = STX
    <3>1. LevelFrom(f, buf, stop, x) = f[<<ScanText(buf, p, stop), depth>>]
          /\ LevelFrom(g, buf, stop, x) = g[<<ScanText(buf, p, stop), depth>>]
      BY <1>3, <2>6 DEF LevelFrom, STX, DLE, CAN
    <3> QED
      BY <3>1, <2>3, <1>0, <1>1, <1>3
  <2>7. CASE c = DLE
    <3>1. LevelFrom(f, buf, stop, x) = f[<<p + 1, depth + 1>>]
          /\ LevelFrom(g, buf, stop, x) = g[<<p + 1, depth + 1>>]
      BY <1>3, <2>7 DEF LevelFrom, STX, DLE, CAN
    <3> QED
      BY <3>1, <2>4, <2>5, <1>1, <1>3
  <2>8. CASE c = CAN /\ depth = 1
    <3>1. LevelFrom(f, buf, stop, x) = p + 1 /\ LevelFrom(g, buf, stop, x) = p + 1
      BY <1>3, <2>8 DEF LevelFrom, STX, DLE, CAN
    <3> QED
      BY <3>1, <2>4
  <2>9. CASE c = CAN /\ depth # 1
    <3>1. LevelFrom(f, buf, stop, x) = f[<<p + 1, depth - 1>>]
          /\ LevelFrom(g, buf, stop, x) = g[<<p + 1, depth - 1>>]
      BY <1>3, <2>9 DEF LevelFrom, STX, DLE, CAN
    <3> QED
      BY <3>1, <2>4, <2>5, <2>9, <1>1, <1>3
  <2>10. CASE c \notin {STX, DLE, CAN}
    <3>1. LevelFrom(f, buf, stop, x) = f[<<p + 1, depth>>]
          /\ LevelFrom(g, buf, stop, x) = g[<<p + 1, depth>>]
      BY <1>3, <2>10 DEF LevelFrom
    <3> QED
      BY <3>1, <2>4, <1>0, <1>1, <1>3
  <2> QED
    BY <2>6, <2>7, <2>8, <2>9, <2>10
<1> QED
  BY <1>2, <1>3

(* The function that ScanLevel applies, and what it returns. *)
LEMMA ScanLevelUnfolds ==
  ASSUME NEW stop \in Nat, NEW buf \in Seq(Byte), stop <= Len(buf)
  PROVE  \E after :
           /\ \A x \in LevelPoints(stop) : /\ after[x] = LevelFrom(after, buf, stop, x)
                                          /\ after[x] \in Behind(stop, x[1])
           /\ \A pos : ScanLevel(buf, pos, stop) = after[<<pos + 1, 1>>]
<1> DEFINE D == LevelPoints(stop)
           m == LevelRest(stop)
           F == {f \in [D -> Int] : \A x \in D : f[x] \in Behind(stop, x[1])}
           G == [f \in F |-> [x \in D |-> LevelFrom(f, buf, stop, x)]]
           N == stop + 1
<1>1. m \in [D -> 0 .. N] /\ m \in [D -> Nat] /\ N \in Nat
  <2>1. \A x \in D : x[1] \in Positions(stop)
    BY DEF LevelPoints
  <2> QED
    BY <2>1 DEF LevelRest, Positions
<1>2. ASSUME NEW f \in F, NEW g \in F, NEW x \in D,
             \A y \in D : m[y] < m[x] => f[y] = g[y]
      PROVE  LevelFrom(f, buf, stop, x) = LevelFrom(g, buf, stop, x)
             /\ LevelFrom(f, buf, stop, x) \in Behind(stop, x[1])
  <2>1. \A y \in D : m[y] < m[x] => f[y] = g[y] /\ f[y] \in Behind(stop, y[1])
    BY <1>2
  <2> HIDE DEF F
  <2> QED
    BY ONLY stop \in Nat, buf \in Seq(Byte), stop <= Len(buf), x \in D, <2>1, LevelTurn
<1>3. \A p : Behind(stop, p) \subseteq Int
  BY DEF Behind, Malformed
<1>4. G \in [F -> F]
  <2>1. \A f \in F, x \in D : LevelFrom(f, buf, stop, x) \in Behind(stop, x[1])
    BY <1>2
  <2> QED
    BY <2>1, <1>3
<1>5. \E f \in F : f = G[f]
  <2>1. [x \in D |-> Malformed] \in F
    BY DEF Behind, Malformed
  <2>2. F # {} /\ \A f \in F : f = [x \in D |-> f[x]]
    BY <2>1
  <2>3. Contracts(D, F, m, G)
    BY <1>2 DEF Contracts
  <2> HIDE DEF F, D, m, G, N
  <2>4. N \in Nat /\ m \in [D -> 0 .. N]
    BY <1>1
  <2>5. F # {} /\ \A f \in F : f = [x \in D |-> f[x]]
    BY <2>2
  <2>6. Recursion(D, F, m, N, G)
    BY ONLY <1>4, <2>3, <2>4, <2>5 DEF Recursion
  <2> QED
    BY ONLY <2>6, Solution
<1> DEFINE after == CHOOSE f : f = [x \in D |-> LevelFrom(f, buf, stop, x)]
<1>6. \A pos : ScanLevel(buf, pos, stop) = after[<<pos + 1, 1>>]
  BY DEF ScanLevel, LevelFrom, LevelPoints
<1>7. after = [x \in D |-> LevelFrom(after, buf, stop, x)]
  BY <1>5
<1> HIDE DEF after
<1> DEFINE T == {x \in D : after[x] \in Behind(stop, x[1])}
<1>8. ASSUME NEW x \in D, \A y \in D : m[y] < m[x] => y \in T
      PROVE  x \in T
  <2>1. \A y \in D : m[y] < m[x] => after[y] = after[y] /\ after[y] \in Behind(stop, y[1])
    BY <1>8
  <2>2. LevelFrom(after, buf, stop, x) \in Behind(stop, x[1])
    BY <2>1, LevelTurn
  <2> QED
    BY <2>2, <1>7
<1>9. D \subseteq T
  <2> HIDE DEF D, T, m
  <2> QED
    BY <1>1, <1>8, MeasureInduct
<1>10. \A x \in D : after[x] = LevelFrom(after, buf, stop, x) /\ after[x] \in Behind(stop, x[1])
  <2>1. \A x \in D : after[x] \in Behind(stop, x[1])
    BY <1>9
  <2> HIDE DEF D
  <2> QED
    BY <2>1, <1>7
<1> QED
  BY <1>6, <1>10

(* The position behind a level lies behind its DLE. *)
LEMMA ScanLevelStops ==
  ASSUME NEW stop \in Nat, NEW buf \in Seq(Byte), stop <= Len(buf), NEW pos \in 0 .. (stop - 1)
  PROVE  ScanLevel(buf, pos, stop) \in {Malformed} \cup (pos + 2) .. stop
<1>1. PICK after :
        /\ \A x \in LevelPoints(stop) : /\ after[x] = LevelFrom(after, buf, stop, x)
                                       /\ after[x] \in Behind(stop, x[1])
        /\ \A p : ScanLevel(buf, p, stop) = after[<<p + 1, 1>>]
  BY ScanLevelUnfolds
<1> DEFINE x == <<pos + 1, 1>>
<1>2. x \in LevelPoints(stop) /\ x[1] = pos + 1
  BY DEF LevelPoints, Positions
<1> HIDE DEF x
<1>3. after[x] \in Behind(stop, pos + 1)
  BY <1>1, <1>2
<1>4. ScanLevel(buf, pos, stop) = after[x]
  BY <1>1 DEF x
<1>5. Behind(stop, pos + 1) \subseteq {Malformed} \cup (pos + 2) .. stop
  BY DEF Behind
<1> QED
  BY <1>3, <1>4, <1>5
-----------------------------------------------------------------------------
(***************************************************************************)
(* Ends: one turn of the four scanners that call each other, x being which *)
(* of them and where; what each returns; and the measure their recursion   *)
(* decreases.  (A comment is only scanned at a BEL, that is before stop;   *)
(* the function is defined at stop as well, and nothing refers to it.)     *)
(***************************************************************************)
EndFrom(end, buf, stop, x) ==
  LET k == x[1]
      p == x[2]
  IN  IF p = Malformed THEN Malformed
      ELSE CASE k = "unit" -> IF p < stop THEN UnitEnd(buf, p, stop, end) ELSE p
             [] k = "record" -> IF p < stop THEN RecordEnd(buf, p, stop, end) ELSE p
             [] k = "keyed" -> KeyedUnitEnd(buf, p, stop, end)
             [] k = "comment" -> CommentEnd(buf, p, stop, end)

EndPoints(stop) == Constructs \X Positions(stop)

EndRange(stop, k, p) ==
  IF p = Malformed THEN {Malformed}
  ELSE IF k \in {"unit", "record"} THEN {Malformed} \cup {q \in 0 .. stop : q >= p}
  ELSE IF k = "comment" /\ p = stop THEN Positions(stop)
  ELSE Behind(stop, p)

EndRest(stop) ==
  [x \in EndPoints(stop) |->
     IF x[2] = Malformed THEN 0
     ELSE IF x[1] \in {"unit", "record"} THEN 2 * (stop - x[2]) + 2
     ELSE IF x[1] = "comment" /\ x[2] = stop THEN 2 * stop + 3
     ELSE 2 * (stop - x[2]) + 1]

(* f and g agree wherever less is left to scan than at k, p. *)
AgreeBehind(f, g, stop, k, p) ==
  \A y \in EndPoints(stop) : EndRest(stop)[y] < EndRest(stop)[<<k, p>>] =>
    f[y] = g[y] /\ f[y] \in EndRange(stop, y[1], y[2])

(* Reading a unit or a record on, at a later position or behind a comment. *)
LEMMA ReadsOn ==
  ASSUME NEW stop \in Nat, NEW k \in {"unit", "record"}, NEW p \in 0 .. (stop - 1),
         NEW f, NEW g, AgreeBehind(f, g, stop, k, p)
  PROVE  /\ \A q \in Positions(stop) : q = Malformed \/ q > p =>
              /\ f[<<k, q>>] = g[<<k, q>>]
              /\ f[<<k, q>>] \in EndRange(stop, k, p)
         /\ f[<<"comment", p>>] = g[<<"comment", p>>]
         /\ f[<<"comment", p>>] \in Positions(stop)
         /\ f[<<"comment", p>>] = Malformed \/ f[<<"comment", p>>] > p
<1>0. <<k, p>> \in EndPoints(stop) /\ EndRest(stop)[<<k, p>>] = 2 * (stop - p) + 2
  BY DEF EndPoints, EndRest, Constructs, Positions, Malformed
<1>1. ASSUME NEW q \in Positions(stop), q = Malformed \/ q > p
      PROVE  f[<<k, q>>] = g[<<k, q>>] /\ f[<<k, q>>] \in EndRange(stop, k, p)
  <2> DEFINE y == <<k, q>>
  <2>1. y \in EndPoints(stop) /\ y[1] = k /\ y[2] = q
    BY DEF EndPoints, Constructs
  <2>2. EndRest(stop)[y] < EndRest(stop)[<<k, p>>]
    BY <2>1, <1>0, <1>1 DEF EndRest, Positions, Malformed
  <2>3. f[y] = g[y] /\ f[y] \in EndRange(stop, k, q)
    BY <2>1, <2>2 DEF AgreeBehind
  <2>4. EndRange(stop, k, q) \subseteq EndRange(stop, k, p)
    BY <1>1 DEF EndRange, Positions, Malformed
  <2> QED
    BY <2>3, <2>4
<1>2. <<"comment", p>> \in EndPoints(stop)
      /\ EndRest(stop)[<<"comment", p>>] < EndRest(stop)[<<k, p>>]
  BY <1>0 DEF EndPoints, EndRest, Constructs, Positions, Malformed
<1>3. f[<<"comment", p>>] = g[<<"comment", p>>] /\ f[<<"comment", p>>] \in Behind(stop, p)
  <2> DEFINE y == <<"comment", p>>
  <2>1. y[1] = "comment" /\ y[2] = p
    OBVIOUS
  <2> HIDE DEF y
  <2>2. f[y] = g[y] /\ f[y] \in EndRange(stop, "comment", p)
    BY <1>2, <2>1 DEF AgreeBehind, y
  <2>3. EndRange(stop, "comment", p) = Behind(stop, p)
    BY DEF EndRange, Malformed
  <2> QED
    BY <2>2, <2>3 DEF y
<1> QED
  BY <1>1, <1>3 DEF Behind, Positions

LEMMA UnitTurn ==
  ASSUME NEW stop \in Nat, NEW buf \in Seq(Byte), stop <= Len(buf),
         NEW p \in 0 .. (stop - 1), NEW f, NEW g, AgreeBehind(f, g, stop, "unit", p)
  PROVE  /\ UnitEnd(buf, p, stop, f) = UnitEnd(buf, p, stop, g)
         /\ UnitEnd(buf, p, stop, f) \in EndRange(stop, "unit", p)
<1> DEFINE c == Peek(buf, p, stop)
           marked == PeekBehind(buf, p, stop)
           text == ScanText(buf, p, stop)
           level == ScanLevel(buf, p, stop)
           note == f[<<"comment", p>>]
           OnTo(q) == q \in Positions(stop) /\ (q = Malformed \/ q > p)
<1>1. OnTo(p + 1) /\ OnTo(text) /\ OnTo(level)
  <2>1. text \in {Malformed} \cup (p + 2) .. stop
    BY ScanTextStops
  <2>2. level \in {Malformed} \cup (p + 2) .. stop
    BY ScanLevelStops
  <2> QED
    BY <2>1, <2>2 DEF Positions
<1>2. OnTo(note) /\ g[<<"comment", p>>] = note
  BY ReadsOn
<1>3. \A q : OnTo(q) => f[<<"unit", q>>] = g[<<"unit", q>>]
                        /\ f[<<"unit", q>>] \in EndRange(stop, "unit", p)
  BY ReadsOn
<1>4. p \in EndRange(stop, "unit", p)
  BY DEF EndRange, Malformed
<1> HIDE DEF OnTo, text, level, note, marked, c
<1>5. c = STX => ~(c >= 32 \/ IsLayout(c) \/ c = ENQ)
  BY DEF STX, IsLayout, Layout, ENQ, SP, HT, LF, CR
<1>6. c = DLE => ~(c >= 32 \/ IsLayout(c) \/ c = ENQ) /\ c # STX
  BY DEF DLE, STX, IsLayout, Layout, ENQ, SP, HT, LF, CR
<1>7. c = BEL => ~(c >= 32 \/ IsLayout(c) \/ c = ENQ) /\ c \notin {STX, DLE}
  BY DEF BEL, DLE, STX, IsLayout, Layout, ENQ, SP, HT, LF, CR
<1>8. CASE c >= 32 \/ IsLayout(c) \/ c = ENQ
  <2>1. UnitEnd(buf, p, stop, f) = f[<<"unit", p + 1>>] /\ UnitEnd(buf, p, stop, g) = g[<<"unit", p + 1>>]
    BY <1>8, <1>5, <1>6, <1>7 DEF UnitEnd, c
  <2> QED
    BY <2>1, <1>1, <1>3
<1>9. CASE c = STX
  <2>1. UnitEnd(buf, p, stop, f) = f[<<"unit", text>>] /\ UnitEnd(buf, p, stop, g) = g[<<"unit", text>>]
    BY <1>9, <1>5, <1>6, <1>7 DEF UnitEnd, c, text
  <2> QED
    BY <2>1, <1>1, <1>3
<1>10. CASE c = DLE
  <2>1. UnitEnd(buf, p, stop, f) = f[<<"unit", level>>] /\ UnitEnd(buf, p, stop, g) = g[<<"unit", level>>]
    BY <1>10, <1>5, <1>6, <1>7 DEF UnitEnd, c, level
  <2> QED
    BY <2>1, <1>1, <1>3
<1>11. CASE c = BEL /\ IsControl(marked) /\ marked \notin {STX, DLE}
  <2>1. UnitEnd(buf, p, stop, f) = p /\ UnitEnd(buf, p, stop, g) = p
    BY <1>11, <1>5, <1>6, <1>7 DEF UnitEnd, c, marked
  <2> QED
    BY <2>1, <1>4
<1>12. CASE c = BEL /\ ~(IsControl(marked) /\ marked \notin {STX, DLE})
  <2>1. UnitEnd(buf, p, stop, f) = f[<<"unit", f[<<"comment", p>>]>>]
        /\ UnitEnd(buf, p, stop, g) = g[<<"unit", g[<<"comment", p>>]>>]
    BY <1>12, <1>5, <1>6, <1>7 DEF UnitEnd, c, marked
  <2>2. UnitEnd(buf, p, stop, f) = f[<<"unit", note>>] /\ UnitEnd(buf, p, stop, g) = g[<<"unit", note>>]
    BY <2>1, <1>2 DEF note
  <2> QED
    BY <2>2, <1>2, <1>3
<1>13. CASE ~(c >= 32 \/ IsLayout(c) \/ c = ENQ) /\ c \notin {STX, DLE, BEL}
  <2>1. UnitEnd(buf, p, stop, f) = p /\ UnitEnd(buf, p, stop, g) = p
    BY <1>13 DEF UnitEnd, c
  <2> QED
    BY <2>1, <1>4
<1> QED
  BY <1>8, <1>9, <1>10, <1>11, <1>12, <1>13

LEMMA RecordTurn ==
  ASSUME NEW stop \in Nat, NEW buf \in Seq(Byte), stop <= Len(buf),
         NEW p \in 0 .. (stop - 1), NEW f, NEW g, AgreeBehind(f, g, stop, "record", p)
  PROVE  /\ RecordEnd(buf, p, stop, f) = RecordEnd(buf, p, stop, g)
         /\ RecordEnd(buf, p, stop, f) \in EndRange(stop, "record", p)
<1> DEFINE c == Peek(buf, p, stop)
           next == ScanLayout(buf, p + 1, stop)
           EndsHere == Peek(buf, next, stop) \in {RS, GS, FS} \/ StartsHeaderRow(buf, next, stop)
           Passes == c >= 32 \/ IsLayout(c) \/ c \in {US, ENQ}
           text == ScanText(buf, p, stop)
           level == ScanLevel(buf, p, stop)
           note == f[<<"comment", p>>]
           OnTo(q) == q \in Positions(stop) /\ (q = Malformed \/ q > p)
<1>1. OnTo(p + 1) /\ OnTo(text) /\ OnTo(level)
  <2>1. text \in {Malformed} \cup (p + 2) .. stop
    BY ScanTextStops
  <2>2. level \in {Malformed} \cup (p + 2) .. stop
    BY ScanLevelStops
  <2> QED
    BY <2>1, <2>2 DEF Positions
<1>2. OnTo(note) /\ g[<<"comment", p>>] = note
  BY ReadsOn
<1>3. \A q : OnTo(q) => f[<<"record", q>>] = g[<<"record", q>>]
                        /\ f[<<"record", q>>] \in EndRange(stop, "record", p)
  BY ReadsOn
<1>4. p \in EndRange(stop, "record", p)
  BY DEF EndRange, Malformed
<1>5. /\ c = SOH => ~Passes
      /\ c = STX => ~Passes /\ c # SOH
      /\ c = DLE => ~Passes /\ c \notin {SOH, STX}
      /\ c = BEL => ~Passes /\ c \notin {SOH, STX, DLE}
  <2> HIDE DEF c
  <2> QED
    BY DEF SOH, BEL, DLE, STX, US, IsLayout, Layout, ENQ, SP, HT, LF, CR
<1> HIDE DEF OnTo, text, level, note, next, c, Passes, EndsHere
<1>8. CASE Passes
  <2>1. RecordEnd(buf, p, stop, f) = f[<<"record", p + 1>>] /\ RecordEnd(buf, p, stop, g) = g[<<"record", p + 1>>]
    BY <1>8, <1>5 DEF RecordEnd, c, Passes
  <2> QED
    BY <2>1, <1>1, <1>3
<1>9. CASE c = STX
  <2>1. RecordEnd(buf, p, stop, f) = f[<<"record", text>>] /\ RecordEnd(buf, p, stop, g) = g[<<"record", text>>]
    BY <1>9, <1>5 DEF RecordEnd, c, text, Passes
  <2> QED
    BY <2>1, <1>1, <1>3
<1>10. CASE c = DLE
  <2>1. RecordEnd(buf, p, stop, f) = f[<<"record", level>>] /\ RecordEnd(buf, p, stop, g) = g[<<"record", level>>]
    BY <1>10, <1>5 DEF RecordEnd, c, level, Passes
  <2> QED
    BY <2>1, <1>1, <1>3
<1>11. CASE c = SOH
  <2>1. CASE StartsHeaderRow(buf, p, stop)
    <3>1. RecordEnd(buf, p, stop, f) = p /\ RecordEnd(buf, p, stop, g) = p
      BY <2>1, <1>11, <1>5 DEF RecordEnd, c, Passes
    <3> QED
      BY <3>1, <1>4
  <2>2. CASE ~StartsHeaderRow(buf, p, stop)
    <3>1. RecordEnd(buf, p, stop, f) = f[<<"record", p + 1>>] /\ RecordEnd(buf, p, stop, g) = g[<<"record", p + 1>>]
      BY <2>2, <1>11, <1>5 DEF RecordEnd, c, Passes
    <3> QED
      BY <3>1, <1>1, <1>3
  <2> QED
    BY <2>1, <2>2
<1>12. CASE c = BEL /\ EndsHere
  <2>1. RecordEnd(buf, p, stop, f) = p /\ RecordEnd(buf, p, stop, g) = p
    BY <1>12, <1>5 DEF RecordEnd, c, next, Passes, EndsHere
  <2> QED
    BY <2>1, <1>4
<1>13. CASE c = BEL /\ ~EndsHere
  <2>1. RecordEnd(buf, p, stop, f) = f[<<"record", f[<<"comment", p>>]>>]
        /\ RecordEnd(buf, p, stop, g) = g[<<"record", g[<<"comment", p>>]>>]
    BY <1>13, <1>5 DEF RecordEnd, c, next, Passes, EndsHere
  <2>2. RecordEnd(buf, p, stop, f) = f[<<"record", note>>] /\ RecordEnd(buf, p, stop, g) = g[<<"record", note>>]
    BY <2>1, <1>2 DEF note
  <2> QED
    BY <2>2, <1>2, <1>3
<1>14. CASE ~Passes /\ c \notin {SOH, STX, DLE, BEL}
  <2>1. RecordEnd(buf, p, stop, f) = p /\ RecordEnd(buf, p, stop, g) = p
    BY <1>14 DEF RecordEnd, c, Passes
  <2> QED
    BY <2>1, <1>4
<1> QED
  BY <1>8, <1>9, <1>10, <1>11, <1>12, <1>13, <1>14

LEMMA KeyedTurn ==
  ASSUME NEW stop \in Nat, NEW buf \in Seq(Byte), stop <= Len(buf),
         NEW p \in 0 .. stop, NEW f, NEW g, AgreeBehind(f, g, stop, "keyed", p)
  PROVE  /\ KeyedUnitEnd(buf, p, stop, f) = KeyedUnitEnd(buf, p, stop, g)
         /\ KeyedUnitEnd(buf, p, stop, f) \in EndRange(stop, "keyed", p)
<1> DEFINE us == ScanPlain(buf, ScanLayout(buf, p, stop), stop)
<1>1. us \in p .. stop
  <2>1. ScanLayout(buf, p, stop) \in p .. stop
    BY ScanLayoutStops
  <2> QED
    BY <2>1, ScanPlainStops
<1> HIDE DEF us
<1>2. CASE Peek(buf, us, stop) # US
  <2>1. KeyedUnitEnd(buf, p, stop, f) = Malformed /\ KeyedUnitEnd(buf, p, stop, g) = Malformed
    BY <1>2 DEF KeyedUnitEnd, us
  <2> QED
    BY <2>1 DEF EndRange, Behind
<1>3. CASE Peek(buf, us, stop) = US
  <2> DEFINE y == <<"unit", us + 1>>
  <2>1. KeyedUnitEnd(buf, p, stop, f) = f[y] /\ KeyedUnitEnd(buf, p, stop, g) = g[y]
    BY <1>3 DEF KeyedUnitEnd, us
  <2>2. us < stop
    BY <1>3, PeekSome DEF US, None
  <2>3. y \in EndPoints(stop) /\ <<"keyed", p>> \in EndPoints(stop)
    BY <1>1, <2>2 DEF EndPoints, Constructs, Positions
  <2>4. EndRest(stop)[y] < EndRest(stop)[<<"keyed", p>>]
    BY <1>1, <2>2, <2>3 DEF EndRest, Malformed
  <2>5. f[y] = g[y] /\ f[y] \in EndRange(stop, "unit", us + 1)
    BY <2>3, <2>4 DEF AgreeBehind
  <2>6. EndRange(stop, "unit", us + 1) \subseteq EndRange(stop, "keyed", p)
    BY <1>1, <2>2 DEF EndRange, Behind, Malformed
  <2> QED
    BY <2>1, <2>5, <2>6
<1> QED
  BY <1>2, <1>3

LEMMA ScanGroupMarkStops ==
  ASSUME NEW buf, NEW pos \in Nat, NEW stop \in Nat, pos <= stop
  PROVE  ScanGroupMark(buf, pos, stop) \in pos .. stop
<1> DEFINE T == {p \in pos .. stop : p = stop \/ ~(At(buf, p) = GS \/ IsLayout(At(buf, p)))}
<1>1. T \subseteq Nat /\ stop \in T
  OBVIOUS
<1>2. Min(T) \in T
  <2> HIDE DEF T
  <2> QED
    BY <1>1, MinNat
<1> QED
  BY <1>2 DEF ScanGroupMark

LEMMA CommentTurn ==
  ASSUME NEW stop \in Nat, NEW buf \in Seq(Byte), stop <= Len(buf),
         NEW p \in 0 .. stop, NEW f, NEW g, AgreeBehind(f, g, stop, "comment", p)
  PROVE  /\ CommentEnd(buf, p, stop, f) = CommentEnd(buf, p, stop, g)
         /\ CommentEnd(buf, p, stop, f) \in EndRange(stop, "comment", p)
<1> DEFINE q == ScanLayout(buf, p + 1, stop)
           c == Peek(buf, q, stop)
           R == EndRange(stop, "comment", p)
           text == ScanText(buf, q, stop)
           level == ScanLevel(buf, q, stop)
           plain == ScanPlain(buf, q, stop)
           group == ScanPlain(buf, ScanGroupMark(buf, q, stop), stop)
           file == ScanPlain(buf, q + 1, stop)
           row == ScanLayout(buf, q + 1, stop)
<1>1. Malformed \in R
  BY DEF EndRange, Behind, Positions
<1>2. CASE c = None
  <2>1. CommentEnd(buf, p, stop, f) = Malformed /\ CommentEnd(buf, p, stop, g) = Malformed
    BY <1>2 DEF CommentEnd, None, STX, DLE, RS, SOH, GS, FS
  <2> QED
    BY <2>1, <1>1
<1>3. CASE c # None
  <2>1. q \in 0 .. (stop - 1) /\ c \in Byte
    BY <1>3, PeekSome
  <2>2. p < stop => q > p
    BY ScanLayoutStops
  <2>3. \A r \in q .. stop : r \in R
    BY <2>1, <2>2 DEF EndRange, Behind, Positions, Malformed
  <2>4. /\ text \in R /\ level \in R /\ plain \in R /\ group \in R /\ file \in R
    <3>1. text \in {Malformed} \cup (q + 2) .. stop
      BY <2>1, ScanTextStops
    <3>2. level \in {Malformed} \cup (q + 2) .. stop
      BY <2>1, ScanLevelStops
    <3>3. plain \in q .. stop
      BY <2>1, ScanPlainStops
    <3>4. ScanGroupMark(buf, q, stop) \in q .. stop
      BY <2>1, ScanGroupMarkStops
    <3>5. group \in q .. stop
      BY <2>1, <3>4, ScanPlainStops
    <3>6. q + 1 \in Nat /\ q + 1 <= stop
      BY <2>1
    <3>7. file \in (q + 1) .. stop
      BY <3>6, ScanPlainStops
    <3> HIDE DEF text, level, plain, group, file, R, q
    <3> QED
      BY <2>1, <2>3, <1>1, <3>1, <3>2, <3>3, <3>5, <3>7
  <2>5. ASSUME NEW k \in {"record", "keyed"}, NEW r \in (q + 1) .. stop
        PROVE  f[<<k, r>>] = g[<<k, r>>] /\ f[<<k, r>>] \in R
    <3> DEFINE y == <<k, r>>
    <3> HIDE DEF q, c
    <3>1. y \in EndPoints(stop) /\ <<"comment", p>> \in EndPoints(stop)
      BY <2>1 DEF EndPoints, Constructs, Positions
    <3>2. EndRest(stop)[y] <= 2 * (stop - q)
      BY <3>1, <2>1 DEF EndRest, Malformed
    <3>3. 2 * (stop - q) < EndRest(stop)[<<"comment", p>>]
      BY <3>1, <2>1, <2>2 DEF EndRest, Malformed
    <3>4. EndRest(stop)[y] \in Int /\ EndRest(stop)[<<"comment", p>>] \in Int
      BY <3>1, <2>1 DEF EndRest
    <3>5. EndRest(stop)[y] < EndRest(stop)[<<"comment", p>>]
      BY <3>2, <3>3, <3>4, <2>1
    <3>6. f[y] = g[y] /\ f[y] \in EndRange(stop, k, r)
      BY <3>1, <3>5 DEF AgreeBehind
    <3>7. EndRange(stop, k, r) \subseteq R
      <4>1. EndRange(stop, k, r) \subseteq {Malformed} \cup q .. stop
        BY <2>1 DEF EndRange, Behind, Malformed
      <4> HIDE DEF R
      <4> QED
        BY <4>1, <2>3, <1>1
    <3> QED
      BY <3>6, <3>7
  <2>6. q + 1 \in (q + 1) .. stop
    BY <2>1
  <2>7. StartsHeaderRow(buf, q, stop) => row + 1 \in (q + 1) .. stop
    <3> HAVE StartsHeaderRow(buf, q, stop)
    <3>1. Peek(buf, row, stop) = RS
      BY DEF StartsHeaderRow, PeekBehind
    <3>2. row \in 0 .. (stop - 1)
      BY <3>1, PeekSome DEF RS, None
    <3>3. q + 1 \in Nat /\ q + 1 <= stop
      BY <2>1
    <3>4. row \in (q + 1) .. stop
      BY <3>3, ScanLayoutStops
    <3> HIDE DEF row, q
    <3>5. q \in Nat
      BY <2>1
    <3> QED
      BY <3>2, <3>4, <3>5
  <2> HIDE DEF R, text, level, plain, group, file, row, c, q
  <2>8. CASE c >= 32
    <3>1. CommentEnd(buf, p, stop, f) = plain /\ CommentEnd(buf, p, stop, g) = plain
      BY <2>8 DEF CommentEnd, c, q, plain, STX, DLE, RS, SOH, GS, FS
    <3> QED
      BY <3>1, <2>4 DEF R
  <2>9. CASE c = STX
    <3>1. CommentEnd(buf, p, stop, f) = text /\ CommentEnd(buf, p, stop, g) = text
      BY <2>9 DEF CommentEnd, c, q, text, STX, DLE, RS, SOH, GS, FS
    <3> QED
      BY <3>1, <2>4 DEF R
  <2>10. CASE c = DLE
    <3>1. CommentEnd(buf, p, stop, f) = level /\ CommentEnd(buf, p, stop, g) = level
      BY <2>10 DEF CommentEnd, c, q, level, STX, DLE, RS, SOH, GS, FS
    <3> QED
      BY <3>1, <2>4 DEF R
  <2>11. CASE c = RS
    <3>1. CommentEnd(buf, p, stop, f) = f[<<"record", q + 1>>]
          /\ CommentEnd(buf, p, stop, g) = g[<<"record", q + 1>>]
      BY <2>11 DEF CommentEnd, c, q, STX, DLE, RS, SOH, GS, FS
    <3> QED
      BY <3>1, <2>5, <2>6 DEF R
  <2>12. CASE c = SOH /\ StartsHeaderRow(buf, q, stop)
    <3>1. CommentEnd(buf, p, stop, f) = f[<<"record", row + 1>>]
          /\ CommentEnd(buf, p, stop, g) = g[<<"record", row + 1>>]
      BY <2>12 DEF CommentEnd, c, q, row, STX, DLE, RS, SOH, GS, FS
    <3> QED
      BY <3>1, <2>5, <2>7, <2>12 DEF R
  <2>13. CASE c = SOH /\ ~StartsHeaderRow(buf, q, stop)
    <3>1. CommentEnd(buf, p, stop, f) = f[<<"keyed", q + 1>>]
          /\ CommentEnd(buf, p, stop, g) = g[<<"keyed", q + 1>>]
      BY <2>13 DEF CommentEnd, c, q, STX, DLE, RS, SOH, GS, FS
    <3> QED
      BY <3>1, <2>5, <2>6 DEF R
  <2>14. CASE c = GS
    <3>1. CommentEnd(buf, p, stop, f) = group /\ CommentEnd(buf, p, stop, g) = group
      BY <2>14 DEF CommentEnd, c, q, group, STX, DLE, RS, SOH, GS, FS
    <3> QED
      BY <3>1, <2>4 DEF R
  <2>15. CASE c = FS
    <3>1. CommentEnd(buf, p, stop, f) = file /\ CommentEnd(buf, p, stop, g) = file
      BY <2>15 DEF CommentEnd, c, q, file, STX, DLE, RS, SOH, GS, FS
    <3> QED
      BY <3>1, <2>4 DEF R
  <2>16. CASE ~(c >= 32) /\ c \notin {STX, DLE, RS, SOH, GS, FS}
    <3>1. CommentEnd(buf, p, stop, f) = Malformed /\ CommentEnd(buf, p, stop, g) = Malformed
      BY <2>16 DEF CommentEnd, c, q
    <3> QED
      BY <3>1, <1>1 DEF R
  <2> QED
    BY <2>8, <2>9, <2>10, <2>11, <2>12, <2>13, <2>14, <2>15, <2>16
<1> QED
  BY <1>2, <1>3

LEMMA EndTurn ==
  ASSUME NEW stop \in Nat, NEW buf \in Seq(Byte), stop <= Len(buf),
         NEW x \in EndPoints(stop), NEW f, NEW g, AgreeBehind(f, g, stop, x[1], x[2])
  PROVE  /\ EndFrom(f, buf, stop, x) = EndFrom(g, buf, stop, x)
         /\ EndFrom(f, buf, stop, x) \in EndRange(stop, x[1], x[2])
<1> DEFINE k == x[1]
           p == x[2]
<1>1. k \in Constructs /\ p \in Positions(stop)
  BY DEF EndPoints
<1>2. CASE p = Malformed
  BY <1>2 DEF EndFrom, EndRange
<1>3. CASE p # Malformed
  <2>1. p \in 0 .. stop
    BY <1>1, <1>3 DEF Positions
  <2>2. CASE k \in {"unit", "record"} /\ p = stop
    BY <2>2, <2>1, <1>3 DEF EndFrom, EndRange
  <2>3. CASE k = "unit" /\ p # stop
    <3>1. p \in 0 .. (stop - 1) /\ AgreeBehind(f, g, stop, "unit", p)
      BY <2>1, <2>3
    <3>2. UnitEnd(buf, p, stop, f) = UnitEnd(buf, p, stop, g)
          /\ UnitEnd(buf, p, stop, f) \in EndRange(stop, "unit", p)
      BY <3>1, UnitTurn
    <3> QED
      BY <3>1, <3>2, <2>3, <1>3 DEF EndFrom
  <2>4. CASE k = "record" /\ p # stop
    <3>1. p \in 0 .. (stop - 1) /\ AgreeBehind(f, g, stop, "record", p)
      BY <2>1, <2>4
    <3>2. RecordEnd(buf, p, stop, f) = RecordEnd(buf, p, stop, g)
          /\ RecordEnd(buf, p, stop, f) \in EndRange(stop, "record", p)
      BY <3>1, RecordTurn
    <3> QED
      BY <3>1, <3>2, <2>4, <1>3 DEF EndFrom
  <2>5. CASE k = "keyed"
    <3>1. KeyedUnitEnd(buf, p, stop, f) = KeyedUnitEnd(buf, p, stop, g)
          /\ KeyedUnitEnd(buf, p, stop, f) \in EndRange(stop, "keyed", p)
      BY <2>1, <2>5, KeyedTurn
    <3> QED
      BY <3>1, <2>5, <1>3 DEF EndFrom
  <2>6. CASE k = "comment"
    <3>1. CommentEnd(buf, p, stop, f) = CommentEnd(buf, p, stop, g)
          /\ CommentEnd(buf, p, stop, f) \in EndRange(stop, "comment", p)
      BY <2>1, <2>6, CommentTurn
    <3> QED
      BY <3>1, <2>6, <1>3 DEF EndFrom
  <2> QED
    BY <1>1, <2>2, <2>3, <2>4, <2>5, <2>6 DEF Constructs
<1> QED
  BY <1>2, <1>3

(***************************************************************************)
(* scanUnit, scanRecordEnd, scanComment: a unit or a record ends at or     *)
(* behind where it begins, a comment behind its BEL, and none behind stop. *)
(***************************************************************************)
LEMMA EndsStop ==
  ASSUME NEW stop \in Nat, NEW buf \in Seq(Byte), stop <= Len(buf),
         NEW k \in Constructs, NEW p \in Positions(stop)
  PROVE  Ends(buf, stop)[<<k, p>>] \in EndRange(stop, k, p)
<1> DEFINE D == EndPoints(stop)
           m == EndRest(stop)
           F == {f \in [D -> Int] : \A x \in D : f[x] \in EndRange(stop, x[1], x[2])}
           G == [f \in F |-> [x \in D |-> EndFrom(f, buf, stop, x)]]
           N == 2 * stop + 3
<1>1. \A x \in D : x[1] \in Constructs /\ x[2] \in Positions(stop) /\ x = <<x[1], x[2]>>
  BY DEF EndPoints
<1>2. m \in [D -> 0 .. N] /\ m \in [D -> Nat] /\ N \in Nat
  <2>1. ASSUME NEW x \in D PROVE m[x] \in 0 .. N
    <3>1. x[2] = Malformed \/ (x[2] \in 0 .. stop /\ x[2] # Malformed)
      BY <1>1 DEF Positions, Malformed
    <3>2. CASE x[2] = Malformed
      BY <3>2 DEF EndRest
    <3>3. CASE x[2] \in 0 .. stop /\ x[2] # Malformed
      <4> DEFINE q == x[2]
      <4>1. q \in 0 .. stop
        BY <3>3
      <4>2. m[x] \in {2 * (stop - q) + 2, 2 * stop + 3, 2 * (stop - q) + 1}
        BY <3>3 DEF EndRest
      <4> HIDE DEF q, m, D
      <4> QED
        BY <4>1, <4>2
    <3> QED
      BY <3>1, <3>2, <3>3
  <2>2. m = [x \in D |-> m[x]]
    BY DEF EndRest
  <2>3. N \in Nat /\ 0 .. N \subseteq Nat
    OBVIOUS
  <2> HIDE DEF D, m, N
  <2> QED
    BY <2>1, <2>2, <2>3
<1>3. ASSUME NEW f \in F, NEW g \in F, NEW x \in D,
             \A y \in D : m[y] < m[x] => f[y] = g[y]
      PROVE  EndFrom(f, buf, stop, x) = EndFrom(g, buf, stop, x)
             /\ EndFrom(f, buf, stop, x) \in EndRange(stop, x[1], x[2])
  <2>1. AgreeBehind(f, g, stop, x[1], x[2])
    <3>1. \A y \in D : m[y] < m[x] => f[y] = g[y] /\ f[y] \in EndRange(stop, y[1], y[2])
      BY <1>3
    <3> QED
      BY <3>1, <1>1 DEF AgreeBehind
  <2> HIDE DEF F
  <2> QED
    BY <2>1, EndTurn
<1>4. \A i, q : EndRange(stop, i, q) \subseteq Int /\ Malformed \in EndRange(stop, i, q)
  BY DEF EndRange, Behind, Positions, Malformed
<1>5. G \in [F -> F]
  <2>1. \A f \in F, x \in D : EndFrom(f, buf, stop, x) \in EndRange(stop, x[1], x[2])
    BY <1>3
  <2> QED
    BY <2>1, <1>4
<1>6. \E f \in F : f = G[f]
  <2>1. [x \in D |-> Malformed] \in F
    BY <1>4 DEF Malformed
  <2>2. F # {} /\ \A f \in F : f = [x \in D |-> f[x]]
    BY <2>1
  <2>3. Contracts(D, F, m, G)
    BY <1>3 DEF Contracts
  <2> HIDE DEF F, D, m, G, N
  <2>4. N \in Nat /\ m \in [D -> 0 .. N]
    BY <1>2
  <2>5. F # {} /\ \A f \in F : f = [x \in D |-> f[x]]
    BY <2>2
  <2>6. Recursion(D, F, m, N, G)
    BY ONLY <1>5, <2>3, <2>4, <2>5 DEF Recursion
  <2> QED
    BY ONLY <2>6, Solution
<1> DEFINE end == CHOOSE f : f = [x \in D |-> EndFrom(f, buf, stop, x)]
<1>7. Ends(buf, stop) = end
  BY DEF Ends, EndFrom, EndPoints
<1>8. end = [x \in D |-> EndFrom(end, buf, stop, x)]
  BY <1>6
<1> HIDE DEF end
<1> DEFINE T == {x \in D : end[x] \in EndRange(stop, x[1], x[2])}
<1>9. ASSUME NEW x \in D, \A y \in D : m[y] < m[x] => y \in T
      PROVE  x \in T
  <2>1. AgreeBehind(end, end, stop, x[1], x[2])
    BY <1>9, <1>1 DEF AgreeBehind
  <2>2. EndFrom(end, buf, stop, x) \in EndRange(stop, x[1], x[2])
    BY <2>1, EndTurn
  <2> QED
    BY <2>2, <1>8
<1>10. D \subseteq T
  <2> HIDE DEF D, T, m
  <2> QED
    BY <1>2, <1>9, MeasureInduct
<1>11. <<k, p>> \in D
  BY DEF EndPoints
<1> QED
  BY <1>7, <1>10, <1>11
=============================================================================
