---------------------------- MODULE FileLogProofs ----------------------------
(***************************************************************************)
(* FileLog implements AtomicLog, for any batches a builder commits and any *)
(* number of calls and crashes, when one process at a time uses the log    *)
(* and its caller gives up a handle whose Batch failed.                    *)
(***************************************************************************)
EXTENDS FileLog, StreamScanProofs

(***************************************************************************)
(* Data: the function it applies, First, says where the data begins that   *)
(* is found from a position on.                                            *)
(***************************************************************************)
FirstFrom(first, block, i, n) ==
  CASE i = n -> n
    [] i < n /\ At(block, i) = EOT -> first[i + 1]
    [] i < n /\ At(block, i) = BEL /\ ScanNote(block, i, n) # Malformed ->
         first[ScanNote(block, i, n)]
    [] OTHER -> i

First(block) ==
  CHOOSE first : first = [i \in 0 .. Len(block) |-> FirstFrom(first, block, i, Len(block))]

FirstRules(first, block, i, n) ==
  LET note == ScanNote(block, i, n) IN
  /\ i < n => note \in {Malformed} \cup (i + 2) .. n
  /\ i = n => first[i] = n
  /\ i < n /\ At(block, i) = EOT => first[i] = first[i + 1]
  /\ i < n /\ At(block, i) = BEL /\ note # Malformed => first[i] = first[note]
  /\ i < n /\ At(block, i) = BEL /\ note = Malformed => first[i] = i
  /\ i < n /\ At(block, i) \notin {EOT, BEL} => first[i] = i

LEMMA FirstUnfolds ==
  ASSUME NEW block \in Seq(Byte)
  PROVE  /\ First(block) \in [0 .. Len(block) -> 0 .. Len(block)]
         /\ \A i \in 0 .. Len(block) : FirstRules(First(block), block, i, Len(block))
         /\ Data(block) = Slice(block, First(block)[0], Len(block))
<1> DEFINE n == Len(block)
           D == 0 .. n
           F == [D -> D]
           G == [f \in F |-> [i \in D |-> FirstFrom(f, block, i, n)]]
           m == [i \in D |-> n - i]
<1>n. n \in Nat
  OBVIOUS
<1> HIDE DEF n
<1>r. \A i \in D : i < n => ScanNote(block, i, n) \in {Malformed} \cup (i + 2) .. n
  <2> TAKE i \in D
  <2>1. i \in Nat
    BY <1>n
  <2> QED
    BY <1>n, <2>1, ScanNoteStops
<1>c. EOT # BEL
  BY DEF EOT, BEL
<1>2. ASSUME NEW f \in F, NEW i \in D
      PROVE  /\ FirstFrom(f, block, i, n) \in D
             /\ \A g \in F : (\A y \in D : m[y] < m[i] => f[y] = g[y])
                  => FirstFrom(f, block, i, n) = FirstFrom(g, block, i, n)
  <2> DEFINE note == ScanNote(block, i, n)
  <2>0. i < n => note \in {Malformed} \cup (i + 2) .. n
    BY <1>r
  <2>1. \A g : FirstFrom(g, block, i, n) =
                 CASE i = n -> n
                   [] i < n /\ At(block, i) = EOT -> g[i + 1]
                   [] i < n /\ At(block, i) = BEL /\ note # Malformed -> g[note]
                   [] OTHER -> i
    BY Zenon DEF FirstFrom
  <2> HIDE DEF note
  <2>2. i < n => i + 1 \in D /\ m[i + 1] < m[i]
    BY <1>n
  <2>3. i < n /\ note # Malformed => note \in D /\ m[note] < m[i]
    <3>1. i < n /\ note # Malformed => note \in (i + 2) .. n
      BY <2>0
    <3>2. i \in 0 .. n
      OBVIOUS
    <3>3. i < n /\ note # Malformed => note \in 0 .. n /\ n - note < n - i
      <4> HIDE DEF D, F, G, m
      <4> QED
        BY <1>n, <3>1, <3>2
    <3> QED
      BY <3>3
  <2>4. FirstFrom(f, block, i, n) \in D
    BY <1>n, <2>1, <2>2, <2>3
  <2>5. ASSUME NEW g \in F, \A y \in D : m[y] < m[i] => f[y] = g[y]
        PROVE  FirstFrom(f, block, i, n) = FirstFrom(g, block, i, n)
    <3>1. i < n => f[i + 1] = g[i + 1]
      BY <2>2, <2>5
    <3>2. i < n /\ note # Malformed => f[note] = g[note]
      BY <2>3, <2>5
    <3>3. \/ i < n
          \/ i = n
      BY <1>n
    <3> HIDE DEF D, F, G, m
    <3> QED
      BY <2>1, <3>1, <3>2, <3>3
  <2> QED
    BY <2>4, <2>5
<1>3. \E f \in F : f = G[f]
  <2>1. G \in [F -> F]
    <3> HIDE DEF D
    <3> QED
      BY <1>2
  <2>2. m \in [D -> 0 .. n]
    BY <1>n
  <2>3. F # {}
    <3>1. [i \in D |-> i] \in F
      OBVIOUS
    <3> QED
      BY <3>1
  <2>4. \A f \in F : f = [i \in D |-> f[i]]
    OBVIOUS
  <2>5. ASSUME NEW f \in F, NEW g \in F, NEW i \in D,
               \A y \in D : m[y] < m[i] => f[y] = g[y]
        PROVE  G[f][i] = G[g][i]
    <3>1. FirstFrom(f, block, i, n) = FirstFrom(g, block, i, n)
      <4> HIDE DEF F, D, m
      <4> QED
        BY <1>2, <2>5
    <3> QED
      BY <3>1
  <2>6. Contracts(D, F, m, G)
    BY <2>5 DEF Contracts
  <2> HIDE DEF F, D, m, G
  <2> QED
    BY <1>n, <2>1, <2>2, <2>3, <2>4, <2>6, Fixpoint
<1>4. First(block) = [i \in D |-> FirstFrom(First(block), block, i, n)]
  BY <1>3 DEF First, n
<1>5. \A i \in D : FirstRules(First(block), block, i, n)
  <2> TAKE i \in D
  <2> DEFINE note == ScanNote(block, i, n)
             h == First(block)
  <2>0. i < n => note \in {Malformed} \cup (i + 2) .. n
    BY <1>r
  <2>1. h[i] = CASE i = n -> n
                 [] i < n /\ At(block, i) = EOT -> h[i + 1]
                 [] i < n /\ At(block, i) = BEL /\ note # Malformed -> h[note]
                 [] OTHER -> i
    <3>1. h[i] = FirstFrom(h, block, i, n)
      BY <1>4
    <3> QED
      BY <3>1, Zenon DEF FirstFrom
  <2>2. (i = n /\ ~(i < n)) \/ (i < n /\ i # n)
    BY <1>n
  <2> HIDE DEF note, h
  <2>3. /\ i = n => h[i] = n
        /\ i < n /\ At(block, i) = EOT => h[i] = h[i + 1]
        /\ i < n /\ At(block, i) = BEL /\ note # Malformed => h[i] = h[note]
        /\ i < n /\ At(block, i) = BEL /\ note = Malformed => h[i] = i
        /\ i < n /\ At(block, i) \notin {EOT, BEL} => h[i] = i
    BY <1>c, <2>1, <2>2
  <2> QED
    BY <2>0, <2>3, Zenon DEF FirstRules, note, h
<1>6. First(block) \in F
  <2> DEFINE h == First(block)
             T == {i \in D : h[i] \in D}
  <2>1. ASSUME NEW i \in D, \A j \in D : m[j] < m[i] => j \in T
        PROVE  i \in T
    <3> DEFINE note == ScanNote(block, i, n)
    <3>1. i < n => i + 1 \in T
      <4>1. i < n => i + 1 \in D /\ m[i + 1] < m[i]
        BY <1>n
      <4> HIDE DEF D, m, T
      <4> QED
        BY <2>1, <4>1
    <3>2. i < n /\ note # Malformed => note \in T
      <4>1. i < n /\ note # Malformed => note \in (i + 2) .. n
        BY <1>r
      <4> HIDE DEF note
      <4>2. i < n /\ note # Malformed => note \in D /\ m[note] < m[i]
        BY <1>n, <4>1
      <4> HIDE DEF D, m, T
      <4> QED
        BY <2>1, <4>2
    <3>3. \/ h[i] \in {i, n}
          \/ i < n /\ h[i] = h[i + 1]
          \/ i < n /\ note # Malformed /\ h[i] = h[note]
      <4>1. FirstRules(h, block, i, n)
        BY <1>5
      <4>2. i = n \/ i < n
        BY <1>n
      <4> HIDE DEF h
      <4> QED
        BY <4>1, <4>2 DEF FirstRules
    <3>4. n \in D
      BY <1>n
    <3> HIDE DEF h, D, note
    <3> QED
      BY <3>1, <3>2, <3>3, <3>4
  <2>2. D \subseteq T
    <3>1. m \in [D -> Nat]
      BY <1>n
    <3> HIDE DEF D, T, m
    <3> QED
      BY <2>1, <3>1, MeasureInduct
  <2>3. h = [i \in D |-> h[i]]
    BY <1>4
  <2> HIDE DEF h, D
  <2> QED
    BY <2>2, <2>3 DEF h
<1>7. Data(block) = Slice(block, First(block)[0], Len(block))
  <2>1. DataStart(block) = First(block)[0]
    BY DEF DataStart, First, FirstFrom
  <2> QED
    BY <2>1 DEF Data
<1> QED
  BY <1>5, <1>6, <1>7 DEF n

LEMMA DataIs ==
  ASSUME NEW block \in Seq(Byte)
  PROVE  /\ Data(block) \in Seq(Byte)
         /\ Data(block) = <<>> => First(block)[0] = Len(block)
<1> DEFINE f == First(block)[0]
           n == Len(block)
<1>1. n \in Nat /\ 0 \in 0 .. n
  OBVIOUS
<1>2. f \in 0 .. n /\ Data(block) = Slice(block, f, n)
  BY <1>1, FirstUnfolds
<1> HIDE DEF f
<1>3. Slice(block, f, n) \in Seq(Byte) /\ Len(Slice(block, f, n)) = n - f
  <2>1. f \in Nat /\ f <= n /\ n <= Len(block)
    BY <1>1, <1>2
  <2> HIDE DEF n
  <2> QED
    BY <1>1, <2>1, SliceIs
<1>4. Len(<<>>) = 0
  OBVIOUS
<1> QED
  BY <1>1, <1>2, <1>3, <1>4 DEF f

(* Where the data begins behind notes, and what it is. *)
LEMMA FirstExtends ==
  ASSUME NEW t \in Seq(Byte), NEW x \in Seq(Byte), BeginsWithCode(x)
  PROVE  \A i \in 0 .. Len(t) :
           First(t)[i] = Len(t) => First(t \o x)[i] = First(t \o x)[Len(t)]
<1> DEFINE y == t \o x
           n == Len(t)
           N == Len(y)
           f == First(t)
           g == First(y)
           D == 0 .. n
           T == {i \in D : f[i] = n => g[i] = g[n]}
           measure == [i \in D |-> n - i]
<1>0. /\ y \in Seq(Byte) /\ n \in Nat /\ N \in Nat /\ n <= N
      /\ \A i \in 0 .. (n - 1) : At(y, i) = At(t, i)
  BY AtConcat
<1>s. SameAt(t, n, y, 0)
  <2>1. \A i \in 0 .. (n - 1) : 0 + i = i
    OBVIOUS
  <2> QED
    BY <1>0, <2>1 DEF SameAt
<1>b. n = N \/ ~IsPlainByte(At(y, n))
  <2>1. CASE x = <<>>
    BY <2>1, AtConcat
  <2>2. CASE x # <<>>
    <3>1. 0 \in 0 .. (Len(x) - 1) /\ n + 0 = n
      BY <2>2
    <3>2. At(y, n + 0) = At(x, 0)
      BY <3>1, AtConcat
    <3> QED
      BY <2>2, <3>1, <3>2 DEF BeginsWithCode
  <2> QED
    BY <2>1, <2>2
<1>f. \A i \in D : FirstRules(f, t, i, n)
  BY FirstUnfolds
<1>g. \A i \in 0 .. N : FirstRules(g, y, i, N)
  <2> HIDE DEF y
  <2> QED
    BY <1>0, FirstUnfolds
<1> HIDE DEF y, n, N, f, g
<1>1. ASSUME NEW i \in D, \A j \in D : measure[j] < measure[i] => j \in T,
             f[i] = n
      PROVE  g[i] = g[n]
  <2> DEFINE note == ScanNote(t, i, n)
  <2>0. i \in Nat /\ i <= n /\ i \in 0 .. N
    BY <1>0
  <2>1. /\ i < n => note \in {Malformed} \cup (i + 2) .. n
        /\ i < n /\ At(t, i) = EOT => f[i] = f[i + 1]
        /\ i < n /\ At(t, i) = BEL /\ note # Malformed => f[i] = f[note]
        /\ i < n /\ At(t, i) = BEL /\ note = Malformed => f[i] = i
        /\ i < n /\ At(t, i) \notin {EOT, BEL} => f[i] = i
    BY <1>f, Zenon DEF FirstRules
  <2>2. CASE i = n
    BY <2>2
  <2>3. CASE i < n /\ At(t, i) = EOT
    <3>1. At(y, i) = EOT /\ i < N
      BY <1>0, <2>0, <2>3
    <3>2. g[i] = g[i + 1]
      BY <1>g, <2>0, <3>1 DEF FirstRules
    <3>3. i + 1 \in D /\ measure[i + 1] < measure[i]
      BY <1>0, <2>0, <2>3
    <3>4. i + 1 \in T
      BY <1>1, <3>3
    <3> QED
      BY <1>1, <2>1, <2>3, <3>2, <3>4
  <2>4. CASE i < n /\ At(t, i) = BEL /\ note # Malformed
    <3>1. At(y, i) = BEL /\ i < N
      BY <1>0, <2>0, <2>4
    <3>2. ScanNote(y, i, N) = note
      BY <1>0, <1>s, <1>b, <2>0, <2>4, NoteExtends
    <3>3. g[i] = g[note]
      BY <1>g, <2>0, <2>4, <3>1, <3>2 DEF FirstRules
    <3> HIDE DEF note
    <3>4. note \in (i + 2) .. n
      BY <2>1, <2>4
    <3>5. note \in D /\ measure[note] < measure[i]
      BY <1>0, <2>0, <3>4
    <3>6. note \in T
      BY <1>1, <3>5
    <3> QED
      BY <1>1, <2>1, <2>4, <3>3, <3>6
  <2>5. CASE i < n /\ At(t, i) # EOT /\ ~(At(t, i) = BEL /\ note # Malformed)
    <3>1. f[i] = i
      BY <2>1, <2>5
    <3> QED
      BY <1>1, <2>5, <3>1
  <2>6. i = n \/ i < n
    BY <1>0, <2>0
  <2> QED
    BY <2>2, <2>3, <2>4, <2>5, <2>6
<1>2. ASSUME NEW i \in D, \A j \in D : measure[j] < measure[i] => j \in T
      PROVE  i \in T
  BY <1>1, <1>2
<1>3. D \subseteq T
  <2>1. measure \in [D -> Nat]
    BY <1>0
  <2> HIDE DEF D, T, measure
  <2> QED
    BY <1>2, <2>1, MeasureInduct
<1> QED
  BY <1>3 DEF y, n, f, g

LEMMA FirstShifts ==
  ASSUME NEW t \in Seq(Byte), NEW x \in Seq(Byte)
  PROVE  \A i \in 0 .. Len(x) : First(t \o x)[Len(t) + i] = Len(t) + First(x)[i]
<1> DEFINE y == t \o x
           off == Len(t)
           n == Len(x)
           f == First(x)
           g == First(y)
           D == 0 .. n
           T == {i \in D : g[off + i] = off + f[i]}
           measure == [i \in D |-> n - i]
<1>0. /\ y \in Seq(Byte) /\ off \in Nat /\ n \in Nat /\ Len(y) = off + n
      /\ \A i \in 0 .. (n - 1) : At(y, off + i) = At(x, i)
  BY AtConcat
<1>s. SameAt(x, n, y, off)
  BY <1>0 DEF SameAt
<1>f. \A i \in D : FirstRules(f, x, i, n)
  BY FirstUnfolds
<1>g. \A i \in 0 .. (off + n) : FirstRules(g, y, i, off + n)
  <2> HIDE DEF y, off, n
  <2> QED
    BY <1>0, FirstUnfolds
<1> HIDE DEF y, off, n, f, g
<1>1. ASSUME NEW i \in D, \A j \in D : measure[j] < measure[i] => j \in T
      PROVE  g[off + i] = off + f[i]
  <2> DEFINE note == ScanNote(x, i, n)
             r == ScanNote(y, off + i, off + n)
  <2>0. /\ i \in Nat /\ i <= n /\ off + i \in 0 .. (off + n)
        /\ (off + i = off + n <=> i = n) /\ (off + i < off + n <=> i < n)
        /\ (off + i) + 1 = off + (i + 1)
    BY <1>0
  <2>1. /\ i < n => note \in {Malformed} \cup (i + 2) .. n
        /\ i = n => f[i] = n
        /\ i < n /\ At(x, i) = EOT => f[i] = f[i + 1]
        /\ i < n /\ At(x, i) = BEL /\ note # Malformed => f[i] = f[note]
        /\ i < n /\ At(x, i) = BEL /\ note = Malformed => f[i] = i
        /\ i < n /\ At(x, i) \notin {EOT, BEL} => f[i] = i
    BY <1>f, Zenon DEF FirstRules
  <2>2. /\ off + i = off + n => g[off + i] = off + n
        /\ off + i < off + n /\ At(y, off + i) = EOT => g[off + i] = g[(off + i) + 1]
        /\ off + i < off + n /\ At(y, off + i) = BEL /\ r # Malformed => g[off + i] = g[r]
        /\ off + i < off + n /\ At(y, off + i) = BEL /\ r = Malformed => g[off + i] = off + i
        /\ off + i < off + n /\ At(y, off + i) \notin {EOT, BEL} => g[off + i] = off + i
    BY <1>g, <2>0, Zenon DEF FirstRules
  <2>3. i < n => At(y, off + i) = At(x, i) /\ r = Shifted(off, note)
    <3>1. i < n => i \in 0 .. (n - 1)
      BY <1>0, <2>0
    <3>2. i < n => r = Shifted(off, note)
      BY <1>0, <1>s, <2>0, NoteShifts
    <3> QED
      BY <1>0, <3>1, <3>2
  <2> HIDE DEF note, r
  <2>4. CASE i = n
    BY <2>0, <2>1, <2>2, <2>4
  <2>5. CASE i < n /\ At(x, i) = EOT
    <3>1. i + 1 \in D /\ measure[i + 1] < measure[i]
      BY <1>0, <2>0, <2>5
    <3>2. i + 1 \in T
      BY <1>1, <3>1
    <3> QED
      BY <2>0, <2>1, <2>2, <2>3, <2>5, <3>2
  <2>6. CASE i < n /\ At(x, i) = BEL /\ note # Malformed
    <3>1. note \in (i + 2) .. n
      BY <2>1, <2>6
    <3>2. note \in D /\ measure[note] < measure[i]
      BY <1>0, <2>0, <3>1
    <3>3. note \in T
      BY <1>1, <3>2
    <3>4. r = off + note /\ r # Malformed
      <4>1. off + note # Malformed
        BY <1>0, <2>0, <3>1 DEF Malformed
      <4> QED
        BY <2>3, <2>6, <4>1 DEF Shifted
    <3>5. g[off + i] = g[off + note] /\ f[i] = f[note]
      BY <2>0, <2>1, <2>2, <2>3, <2>6, <3>4
    <3> QED
      BY <3>3, <3>5
  <2>7. CASE i < n /\ At(x, i) = BEL /\ note = Malformed
    BY <2>0, <2>1, <2>2, <2>3, <2>7 DEF Shifted
  <2>8. CASE i < n /\ At(x, i) \notin {EOT, BEL}
    BY <2>0, <2>1, <2>2, <2>3, <2>8
  <2>9. i = n \/ i < n
    BY <1>0, <2>0
  <2> QED
    BY <2>4, <2>5, <2>6, <2>7, <2>8, <2>9
<1>2. ASSUME NEW i \in D, \A j \in D : measure[j] < measure[i] => j \in T
      PROVE  i \in T
  BY <1>1, <1>2
<1>3. D \subseteq T
  <2>1. measure \in [D -> Nat]
    BY <1>0
  <2> HIDE DEF D, T, measure
  <2> QED
    BY <1>2, <2>1, MeasureInduct
<1> QED
  BY <1>3 DEF y, off, n, f, g

(* Notes before a block do not change its data. *)
LEMMA DataBehindNotes ==
  ASSUME NEW t \in Seq(Byte), NEW x \in Seq(Byte), BeginsWithCode(x), Data(t) = <<>>
  PROVE  Data(t \o x) = Data(x)
<1> DEFINE y == t \o x
           off == Len(t)
           n == Len(x)
           i == First(x)[0]
<1>0. y \in Seq(Byte) /\ Len(y) = off + n /\ off \in Nat /\ n \in Nat
  BY AtConcat
<1>1. 0 \in 0 .. off /\ 0 \in 0 .. n /\ off + 0 = off
  BY <1>0
<1>2. First(y)[0] = First(y)[off]
  BY <1>1, DataIs, FirstExtends
<1>3. First(y)[off + 0] = off + i
  BY <1>1, FirstShifts
<1>4. i \in 0 .. n /\ Data(x) = Slice(x, i, n)
  BY <1>1, FirstUnfolds
<1>5. Data(y) = Slice(y, First(y)[0], Len(y))
  <2> HIDE DEF y
  <2> QED
    BY <1>0, FirstUnfolds
<1> HIDE DEF i
<1>6. Slice(y, off + i, off + n) = Slice(x, i, n)
  BY <1>0, <1>4 DEF Slice
<1> QED
  BY <1>0, <1>1, <1>2, <1>3, <1>4, <1>5, <1>6

(* tornTail passes notes too. *)
LEMMA TornPassesNotes ==
  ASSUME NEW t \in Seq(Byte), NEW x \in Seq(Byte), BeginsWithCode(x), Data(t) = <<>>
  PROVE  TornTail(t \o x, 0) <=> TornTail(x, 0)
<1> DEFINE y == t \o x
           n == Len(t)
           N == Len(y)
           f == First(t)
           g == TornEnd(y)
           D == 0 .. n
           T == {i \in D : f[i] = n => g[i] = g[n]}
           measure == [i \in D |-> n - i]
<1>0. /\ y \in Seq(Byte) /\ n \in Nat /\ N \in Nat /\ n <= N
      /\ \A i \in 0 .. (n - 1) : At(y, i) = At(t, i)
  BY AtConcat
<1>s. SameAt(t, n, y, 0)
  <2>1. \A i \in 0 .. (n - 1) : 0 + i = i
    OBVIOUS
  <2> QED
    BY <1>0, <2>1 DEF SameAt
<1>b. n = N \/ ~IsPlainByte(At(y, n))
  <2>1. CASE x = <<>>
    BY <2>1, AtConcat
  <2>2. CASE x # <<>>
    <3>1. 0 \in 0 .. (Len(x) - 1) /\ n + 0 = n
      BY <2>2
    <3>2. At(y, n + 0) = At(x, 0)
      BY <3>1, AtConcat
    <3> QED
      BY <2>2, <3>1, <3>2 DEF BeginsWithCode
  <2> QED
    BY <2>1, <2>2
<1>f. \A i \in D : FirstRules(f, t, i, n)
  BY FirstUnfolds
<1>g. \A i \in 0 .. N : TornRules(g, y, i, N)
  <2> HIDE DEF y
  <2> QED
    BY <1>0, TornUnfolds
<1>e. f[0] = n
  BY DataIs
<1>x. g[n + 0] = TornEnd(x)[0]
  <2>1. 0 \in 0 .. Len(x)
    OBVIOUS
  <2> QED
    BY <2>1, TornShifts
<1>t. (TornTail(y, 0) <=> g[0] = "torn") /\ (TornTail(x, 0) <=> TornEnd(x)[0] = "torn")
  <2> HIDE DEF y
  <2> QED
    BY <1>0, TornUnfolds
<1> HIDE DEF y, n, N, f, g
<1>c. ~IsLayout(EOT) /\ ~IsLayout(BEL) /\ EOT # BEL
  BY DEF EOT, BEL, IsLayout, Layout, SP, HT, LF, CR
<1>1. ASSUME NEW i \in D, \A j \in D : measure[j] < measure[i] => j \in T,
             f[i] = n
      PROVE  g[i] = g[n]
  <2> DEFINE note == ScanNote(t, i, n)
  <2>0. i \in Nat /\ i <= n /\ i \in 0 .. N
    BY <1>0
  <2>1. /\ i < n => note \in {Malformed} \cup (i + 2) .. n
        /\ i < n /\ At(t, i) = EOT => f[i] = f[i + 1]
        /\ i < n /\ At(t, i) = BEL /\ note # Malformed => f[i] = f[note]
        /\ i < n /\ At(t, i) = BEL /\ note = Malformed => f[i] = i
        /\ i < n /\ At(t, i) \notin {EOT, BEL} => f[i] = i
    BY <1>f, Zenon DEF FirstRules
  <2>2. i < n /\ ~IsLayout(At(t, i)) => ScanLayout(y, i, N) = i
    <3>1. SUFFICES ASSUME i < n, ~IsLayout(At(t, i)) PROVE ScanLayout(y, i, N) = i
      OBVIOUS
    <3>2. ~IsLayout(At(y, i)) /\ i \in i .. N
      BY <1>0, <2>0, <3>1
    <3>3. \A q \in i .. (i - 1) : IsLayout(At(y, q))
      BY <2>0
    <3> QED
      BY <1>0, <2>0, <3>2, <3>3, ScanLayoutIs
  <2>3. CASE i = n
    BY <2>3
  <2>4. CASE i < n /\ At(t, i) = EOT
    <3>1. At(y, i) = EOT /\ i < N
      BY <1>0, <2>0, <2>4
    <3>2. g[i] = g[i + 1]
      <4>1. TornRules(g, y, i, N) /\ ScanLayout(y, i, N) = i
        BY <1>c, <1>g, <2>0, <2>2, <2>4
      <4> QED
        BY <3>1, <4>1 DEF TornRules
    <3>3. i + 1 \in D /\ measure[i + 1] < measure[i]
      BY <1>0, <2>0, <2>4
    <3>4. i + 1 \in T
      BY <1>1, <3>3
    <3> QED
      BY <1>1, <2>1, <2>4, <3>2, <3>4
  <2>5. CASE i < n /\ At(t, i) = BEL /\ note # Malformed
    <3>1. At(y, i) = BEL /\ i < N
      BY <1>0, <2>0, <2>5
    <3>2. ScanNote(y, i, N) = note
      BY <1>0, <1>s, <1>b, <2>0, <2>5, NoteExtends
    <3> HIDE DEF note
    <3>3. g[i] = g[note]
      <4>1. TornRules(g, y, i, N) /\ ScanLayout(y, i, N) = i
        BY <1>c, <1>g, <2>0, <2>2, <2>5
      <4> QED
        BY <2>5, <3>1, <3>2, <4>1 DEF TornRules
    <3>4. note \in (i + 2) .. n
      BY <2>1, <2>5
    <3>5. note \in D /\ measure[note] < measure[i]
      BY <1>0, <2>0, <3>4
    <3>6. note \in T
      BY <1>1, <3>5
    <3> QED
      BY <1>1, <2>1, <2>5, <3>3, <3>6
  <2>6. CASE i < n /\ At(t, i) # EOT /\ ~(At(t, i) = BEL /\ note # Malformed)
    <3>1. f[i] = i
      BY <2>1, <2>6
    <3> QED
      BY <1>1, <2>6, <3>1
  <2>7. i = n \/ i < n
    BY <1>0, <2>0
  <2> QED
    BY <2>3, <2>4, <2>5, <2>6, <2>7
<1>2. ASSUME NEW i \in D, \A j \in D : measure[j] < measure[i] => j \in T
      PROVE  i \in T
  BY <1>1, <1>2
<1>3. D \subseteq T
  <2>1. measure \in [D -> Nat]
    BY <1>0
  <2> HIDE DEF D, T, measure
  <2> QED
    BY <1>2, <2>1, MeasureInduct
<1>4. g[0] = g[n]
  <2>1. 0 \in D
    BY <1>0
  <2> QED
    BY <1>3, <1>e, <2>1
<1>5. g[0] = TornEnd(x)[0]
  BY <1>0, <1>4, <1>x
<1> QED
  BY <1>5, <1>t DEF y

(* The tail of a log with notes and x behind its commit is as torn as x. *)
LEMMA TornBehindNotes ==
  ASSUME NEW log \in Seq(Byte), NEW t \in Seq(Byte), NEW x \in Seq(Byte),
         BeginsWithCode(x), Data(t) = <<>>
  PROVE  TornTail(log \o (t \o x), Len(log)) <=> TornTail(x, 0)
<1> DEFINE w == t \o x
<1>1. w \in Seq(Byte) /\ log \o w \in Seq(Byte) /\ 0 \in 0 .. Len(w) /\ Len(log) + 0 = Len(log)
  BY AtConcat
<1>2. TornTail(w, 0) <=> TornTail(x, 0)
  BY TornPassesNotes
<1> HIDE DEF w
<1>3. TornEnd(log \o w)[Len(log) + 0] = TornEnd(w)[0]
  BY <1>1, TornShifts
<1>4. /\ TornTail(w, 0) <=> TornEnd(w)[0] = "torn"
      /\ TornTail(log \o w, Len(log)) <=> TornEnd(log \o w)[Len(log)] = "torn"
  BY <1>1, TornUnfolds
<1> QED
  BY <1>1, <1>2, <1>3, <1>4 DEF w

(* The scan of nothing but notes comes to rest at their end. *)
LEMMA NotesRest ==
  ASSUME NEW u \in Seq(Byte), Data(u) = <<>>
  PROVE  Scan(u) = MovedTo(NewScan, Len(u), FALSE)
<1> DEFINE n == Len(u)
           f == First(u)
           End(i) == ScanEnd(u)[MovedTo(NewScan, i, FALSE)]
           D == 0 .. n
           T == {i \in D : f[i] = n => End(i) = End(n)}
           measure == [i \in D |-> n - i]
           codes == {STX, DLE, CAN, ETB, SYN}
<1>0. n \in Nat /\ NewScan \in ScanType
  BY ScanEndUnfolds
<1>f. \A i \in D : FirstRules(f, u, i, n)
  BY FirstUnfolds
<1>c. EOT \notin codes
  BY DEF EOT, STX, DLE, CAN, ETB, SYN
<1> HIDE DEF f
<1>1. ASSUME NEW i \in D, \A j \in D : measure[j] < measure[i] => j \in T,
             f[i] = n
      PROVE  End(i) = End(n)
  <2> DEFINE note == ScanNote(u, i, n)
  <2>0. i \in Nat /\ i <= n
    BY <1>0
  <2>1. /\ i < n => note \in {Malformed} \cup (i + 2) .. n
        /\ i < n /\ At(u, i) = EOT => f[i] = f[i + 1]
        /\ i < n /\ At(u, i) = BEL /\ note # Malformed => f[i] = f[note]
        /\ i < n /\ At(u, i) = BEL /\ note = Malformed => f[i] = i
        /\ i < n /\ At(u, i) \notin {EOT, BEL} => f[i] = i
    BY <1>f, Zenon DEF FirstRules
  <2>3. CASE i = n
    BY <2>3
  <2>4. CASE i < n /\ At(u, i) = EOT
    <3>1. End(i) = End(i + 1)
      <4>1. \A q \in i .. ((i + 1) - 1) : At(u, q) \notin codes
        <5> TAKE q \in i .. ((i + 1) - 1)
        <5>1. q = i
          BY <2>0
        <5> HIDE DEF codes
        <5> QED
          BY <1>c, <2>4, <5>1
      <4>2. i + 1 \in Nat /\ i <= i + 1 /\ i + 1 <= Len(u)
        BY <2>0, <2>4
      <4> QED
        BY <1>0, <2>0, <4>1, <4>2, ScanPasses
    <3>3. i + 1 \in D /\ measure[i + 1] < measure[i]
      BY <1>0, <2>0, <2>4
    <3> HIDE DEF D, measure, End
    <3>4. i + 1 \in T
      BY <1>1, <3>3
    <3> QED
      BY <1>1, <2>1, <2>4, <3>1, <3>4
  <2>5. CASE i < n /\ At(u, i) = BEL /\ note # Malformed
    <3>1. End(i) = End(note)
      BY <1>0, <2>0, <2>5, NotePasses
    <3> HIDE DEF note
    <3>4. note \in (i + 2) .. n
      BY <2>1, <2>5
    <3>5. note \in D /\ measure[note] < measure[i]
      BY <1>0, <2>0, <3>4
    <3> HIDE DEF D, measure, End
    <3>6. note \in T
      BY <1>1, <3>5
    <3> QED
      BY <1>1, <2>1, <2>5, <3>1, <3>6
  <2>6. CASE i < n /\ At(u, i) # EOT /\ ~(At(u, i) = BEL /\ note # Malformed)
    <3>1. f[i] = i
      BY <2>1, <2>6
    <3> QED
      BY <1>1, <2>6, <3>1
  <2>7. i = n \/ i < n
    BY <1>0, <2>0
  <2> QED
    BY <2>3, <2>4, <2>5, <2>6, <2>7
<1>2. ASSUME NEW i \in D, \A j \in D : measure[j] < measure[i] => j \in T
      PROVE  i \in T
  <2> HIDE DEF End, measure
  <2> QED
    BY <1>1, <1>2
<1>3. D \subseteq T
  <2>1. measure \in [D -> Nat]
    BY <1>0
  <2> HIDE DEF D, T, measure
  <2> QED
    BY <1>2, <2>1, MeasureInduct
<1>4. 0 \in T /\ f[0] = n
  <2>1. 0 \in D /\ f[0] = n
    BY <1>0, DataIs DEF f
  <2> HIDE DEF D, T
  <2> QED
    BY <1>3, <2>1
<1>5. End(0) = End(n)
  BY <1>4
<1>6. MovedTo(NewScan, 0, FALSE) = NewScan
  BY DEF MovedTo, NewScan
<1>7. End(n) = MovedTo(NewScan, n, FALSE)
  <2> DEFINE t == MovedTo(NewScan, n, FALSE)
  <2>1. t \in ScanType /\ t.pos = n
    BY <1>0, MovedOutside
  <2> HIDE DEF t
  <2>2. ~(t.pos < Len(u))
    BY <1>0, <2>1
  <2> QED
    BY <2>1, <2>2, ScanEndUnfolds DEF t
<1>8. Scan(u) = ScanEnd(u)[NewScan]
  BY ScanEndUnfolds
<1> QED
  BY <1>5, <1>6, <1>7, <1>8
-----------------------------------------------------------------------------
(***************************************************************************)
(* The entries of a log none of whose blocks is damaged.                   *)
(***************************************************************************)
AllBlocks(log, i) == [j \in 1 .. i |-> BlockBytes(log, Scan(log).blocks[j])]

LEMMA AllBlocksGrow ==
  ASSUME NEW log \in Seq(Byte), NEW i \in Nat, i > 0
  PROVE  AllBlocks(log, i) = Append(AllBlocks(log, i - 1), BlockBytes(log, Scan(log).blocks[i]))
<1> DEFINE S == {BlockBytes(log, Scan(log).blocks[j]) : j \in Nat}
           Block(j) == BlockBytes(log, Scan(log).blocks[j])
<1>0. \A j \in Nat : Block(j) \in S
  OBVIOUS
<1>1. AllBlocks(log, i) = [j \in 1 .. i |-> Block(j)]
      /\ AllBlocks(log, i - 1) = [j \in 1 .. (i - 1) |-> Block(j)]
  BY Zenon DEF AllBlocks
<1> HIDE DEF Block, S
<1>2. [j \in 1 .. i |-> Block(j)] \in Seq(S) /\ [j \in 1 .. (i - 1) |-> Block(j)] \in Seq(S)
  BY <1>0
<1>3. [j \in 1 .. i |-> Block(j)] = Append([j \in 1 .. (i - 1) |-> Block(j)], Block(i))
  BY <1>0, <1>2
<1> QED
  BY <1>1, <1>3 DEF Block

LEMMA UndamagedIs ==
  ASSUME NEW log \in Seq(Byte), Scan(log).damaged = {}
  PROVE  UndamagedBlocks(log) = AllBlocks(log, Len(Scan(log).blocks))
<1> DEFINE s == Scan(log)
           n == Len(s.blocks)
           Body(f, i) == CASE i = 0 -> <<>>
                           [] i > 0 /\ i \in s.damaged -> f[i - 1]
                           [] OTHER -> Append(f[i - 1], BlockBytes(log, s.blocks[i]))
           w == [i \in 0 .. n |-> AllBlocks(log, i)]
           upTo == CHOOSE f : f = [i \in 0 .. n |-> Body(f, i)]
<1>n. n \in Nat
  <2>1. s \in ScanType
    BY ScanEndUnfolds, ScanEndType
  <2> QED
    BY <2>1 DEF ScanType
<1>1. UndamagedBlocks(log) = upTo[n]
  BY DEF UndamagedBlocks
<1>d. s.damaged = {}
  OBVIOUS
<1> HIDE DEF s, n
<1>2. \A f : \A i \in Nat : Body(f, i) = IF i = 0 THEN <<>>
                              ELSE Append(f[i - 1], BlockBytes(log, s.blocks[i]))
  BY <1>d
<1>e. AllBlocks(log, 0) = <<>>
  BY DEF AllBlocks
<1>g. \A i \in Nat : i > 0 =>
        AllBlocks(log, i) = Append(AllBlocks(log, i - 1), BlockBytes(log, s.blocks[i]))
  BY AllBlocksGrow DEF s
<1>3. w = [i \in 0 .. n |-> Body(w, i)]
  <2>1. ASSUME NEW i \in 0 .. n PROVE AllBlocks(log, i) = Body(w, i)
    <3>1. i \in Nat /\ (i > 0 => i - 1 \in 0 .. n)
      BY <1>n
    <3>2. i > 0 => w[i - 1] = AllBlocks(log, i - 1)
      BY <3>1
    <3> HIDE DEF w, Body
    <3>3. Body(w, i) = IF i = 0 THEN <<>> ELSE Append(w[i - 1], BlockBytes(log, s.blocks[i]))
      BY <1>2, <3>1, Zenon
    <3>4. CASE i = 0
      BY <1>e, <3>3, <3>4, Zenon
    <3>5. CASE i # 0
      <4>1. i > 0
        BY <3>1, <3>5
      <4>2. Body(w, i) = Append(AllBlocks(log, i - 1), BlockBytes(log, s.blocks[i]))
        BY <3>2, <3>3, <3>5, <4>1
      <4> QED
        BY <1>g, <3>1, <4>1, <4>2
    <3> QED
      BY <3>4, <3>5
  <2> HIDE DEF Body
  <2> QED
    BY <2>1
<1>4. upTo = [i \in 0 .. n |-> Body(upTo, i)]
  <2> HIDE DEF w, Body
  <2> QED
    BY <1>3
<1> HIDE DEF upTo, w
<1> DEFINE T == {i \in Nat : i <= n => upTo[i] = AllBlocks(log, i)}
<1>5. 0 \in T
  <2>1. 0 \in 0 .. n
    BY <1>n
  <2>2. upTo[0] = Body(upTo, 0)
    BY <1>4, <2>1
  <2> HIDE DEF Body
  <2> QED
    BY <1>2, <1>e, <2>2
<1>6. ASSUME NEW i \in Nat, i \in T PROVE i + 1 \in T
  <2>1. SUFFICES ASSUME i + 1 <= n PROVE upTo[i + 1] = AllBlocks(log, i + 1)
    OBVIOUS
  <2>2. i + 1 \in 0 .. n /\ i <= n /\ (i + 1) - 1 = i /\ i + 1 # 0 /\ i + 1 \in Nat
    BY <1>n, <2>1
  <2>3. upTo[i + 1] = Body(upTo, i + 1)
    BY <1>4, <2>2
  <2>4. upTo[i] = AllBlocks(log, i)
    BY <1>6, <2>2
  <2> HIDE DEF Body
  <2>5. Body(upTo, i + 1) = IF i + 1 = 0 THEN <<>>
                            ELSE Append(upTo[(i + 1) - 1], BlockBytes(log, s.blocks[i + 1]))
    BY <1>2, <2>2, Zenon
  <2>6. Body(upTo, i + 1) = Append(AllBlocks(log, i), BlockBytes(log, s.blocks[i + 1]))
    BY <2>2, <2>4, <2>5
  <2>7. i + 1 > 0
    OBVIOUS
  <2>8. AllBlocks(log, i + 1) = Append(AllBlocks(log, (i + 1) - 1), BlockBytes(log, s.blocks[i + 1]))
    BY <1>g, <2>2, <2>7, Zenon
  <2> QED
    BY <2>2, <2>3, <2>6, <2>8
<1>7. n \in T
  <2> HIDE DEF T
  <2> QED
    BY <1>n, <1>5, <1>6, NatInduct
<1> QED
  BY <1>1, <1>7, <1>n DEF n, s

LEMMA EntriesAre ==
  ASSUME NEW log \in Seq(Byte), Scan(log).damaged = {}
  PROVE  Entries(log) = [i \in 1 .. Len(Scan(log).blocks) |->
                           Data(BlockBytes(log, Scan(log).blocks[i]))]
<1> DEFINE n == Len(Scan(log).blocks)
           u == UndamagedBlocks(log)
<1>1. u = AllBlocks(log, n)
  BY UndamagedIs
<1>2. DOMAIN u = 1 .. n /\ \A i \in 1 .. n : u[i] = BlockBytes(log, Scan(log).blocks[i])
  BY <1>1 DEF AllBlocks
<1>3. Entries(log) = [i \in DOMAIN u |-> Data(u[i])]
  BY Zenon DEF Entries
<1> HIDE DEF u, n
<1> QED
  BY <1>2, <1>3 DEF n
-----------------------------------------------------------------------------
(* Parts of sequences. *)
LEMMA SameSeq ==
  ASSUME NEW S, NEW s \in Seq(S), NEW t \in Seq(S), Len(s) = Len(t),
         \A q \in 1 .. Len(s) : s[q] = t[q]
  PROVE  s = t
OBVIOUS

LEMMA ConcatIs ==
  ASSUME NEW s \in Seq(Byte), NEW t \in Seq(Byte)
  PROVE  /\ s \o t \in Seq(Byte) /\ Len(s \o t) = Len(s) + Len(t)
         /\ \A q \in 1 .. Len(s) : (s \o t)[q] = s[q]
         /\ \A q \in 1 .. Len(t) : (s \o t)[Len(s) + q] = t[q]
OBVIOUS

LEMMA PartIs ==
  ASSUME NEW s \in Seq(Byte), NEW i \in Nat, NEW j \in Nat, i <= j, j <= Len(s)
  PROVE  /\ Slice(s, i, j) \in Seq(Byte) /\ Len(Slice(s, i, j)) = j - i
         /\ \A q \in 1 .. (j - i) : Slice(s, i, j)[q] = s[i + q]
BY DEF Slice

LEMMA SliceInside ==
  ASSUME NEW l \in Seq(Byte), NEW w \in Seq(Byte), NEW i \in Nat, NEW j \in Nat,
         j <= Len(l)
  PROVE  Slice(l \o w, i, j) = Slice(l, i, j)
<1>1. \A q \in 1 .. Len(l) : (l \o w)[q] = l[q]
  OBVIOUS
<1>2. l \o w \in Seq(Byte) /\ Len(l \o w) = Len(l) + Len(w)
  OBVIOUS
<1> QED
  BY <1>1, <1>2 DEF Slice

LEMMA SliceAcross ==
  ASSUME NEW l \in Seq(Byte), NEW w \in Seq(Byte), NEW i \in Nat, NEW j \in Nat,
         i <= Len(l), j <= Len(w)
  PROVE  Slice(l \o w, i, Len(l) + j) = Slice(l, i, Len(l)) \o Slice(w, 0, j)
<1> DEFINE n == Len(l)
           e == n + j
           m == n - i
           y == l \o w
           a == Slice(y, i, e)
           c == Slice(l, i, n)
           d == Slice(w, 0, j)
<1>0. /\ n \in Nat /\ Len(w) \in Nat /\ y \in Seq(Byte) /\ Len(y) = n + Len(w)
      /\ \A q \in 1 .. n : y[q] = l[q]
      /\ \A q \in 1 .. Len(w) : y[n + q] = w[q]
  OBVIOUS
<1>1. c \in Seq(Byte) /\ Len(c) = m /\ \A q \in 1 .. m : c[q] = l[i + q]
  BY DEF Slice
<1>2. d \in Seq(Byte) /\ Len(d) = j /\ \A q \in 1 .. j : d[q] = w[q]
  BY DEF Slice
<1>i. i <= n
  OBVIOUS
<1>m. m \in Nat /\ n = i + m /\ e = i + (m + j) /\ e \in Nat /\ e - i = m + j
  BY <1>0, <1>i
<1>e. e <= Len(y) /\ i <= e
  BY <1>0, <1>m
<1> HIDE DEF y, n, m, e
<1>3. /\ a \in Seq(Byte) /\ Len(a) = e - i
      /\ \A q \in 1 .. (e - i) : a[q] = y[i + q]
  <2>1. e \in Nat /\ i <= e /\ e <= Len(y) /\ y \in Seq(Byte)
    BY <1>0, <1>m, <1>e
  <2> QED
    BY <2>1, PartIs, Zenon
<1> HIDE DEF a, c, d
<1>4. /\ c \o d \in Seq(Byte) /\ Len(c \o d) = m + j
      /\ \A q \in 1 .. m : (c \o d)[q] = c[q]
      /\ \A q \in 1 .. j : (c \o d)[m + q] = d[q]
  <2>1. m \in Nat /\ m = Len(c) /\ j = Len(d) /\ c \in Seq(Byte) /\ d \in Seq(Byte)
    BY <1>1, <1>2, <1>m
  <2>2. /\ c \o d \in Seq(Byte) /\ Len(c \o d) = Len(c) + Len(d)
        /\ \A q \in 1 .. Len(c) : (c \o d)[q] = c[q]
        /\ \A q \in 1 .. Len(d) : (c \o d)[Len(c) + q] = d[q]
    BY <2>1, ConcatIs
  <2> QED
    BY <2>1, <2>2
<1>5. ASSUME NEW q \in 1 .. (m + j) PROVE a[q] = (c \o d)[q]
  <2>0. a[q] = y[i + q]
    BY <1>3, <1>m
  <2>1. CASE q <= m
    <3>1. q \in 1 .. m /\ i + q \in 1 .. n
      BY <1>m, <2>1
    <3> QED
      BY <1>0, <1>1, <1>4, <2>0, <3>1
  <2>2. CASE q > m
    <3> DEFINE r == q - m
    <3>1. r \in 1 .. j /\ q = m + r /\ i + q = n + r /\ r \in 1 .. Len(w)
      BY <1>0, <1>m, <2>2
    <3> HIDE DEF r
    <3>2. y[n + r] = w[r] /\ (c \o d)[m + r] = d[r] /\ d[r] = w[r]
      BY <1>0, <1>2, <1>4, <3>1
    <3> QED
      BY <2>0, <3>1, <3>2
  <2>3. q <= m \/ q > m
    BY <1>m
  <2> QED
    BY <2>1, <2>2, <2>3
<1>6. a = c \o d
  BY <1>3, <1>4, <1>5, <1>m, SameSeq
<1> QED
  BY <1>6 DEF a, c, d, n, y, e

LEMMA SliceBehind ==
  ASSUME NEW l \in Seq(Byte), NEW w \in Seq(Byte), NEW j \in Nat, j <= Len(w)
  PROVE  Slice(l \o w, Len(l), Len(l) + j) = Slice(w, 0, j)
<1>1. \A q \in 1 .. Len(w) : (l \o w)[Len(l) + q] = w[q]
  OBVIOUS
<1> QED
  BY <1>1 DEF Slice

LEMMA SliceWhole ==
  ASSUME NEW l \in Seq(Byte)
  PROVE  Slice(l, 0, Len(l)) = l
BY DEF Slice

LEMMA SliceSplits ==
  ASSUME NEW l \in Seq(Byte), NEW k \in Nat, k <= Len(l)
  PROVE  l = Slice(l, 0, k) \o Slice(l, k, Len(l))
<1> DEFINE n == Len(l)
           m == n - k
           c == Slice(l, 0, k)
           d == Slice(l, k, n)
<1>0. n \in Nat /\ m \in Nat /\ n = k + m /\ n = Len(l)
  OBVIOUS
<1>1. c \in Seq(Byte) /\ Len(c) = k /\ \A q \in 1 .. k : c[q] = l[q]
  BY DEF Slice
<1>2. d \in Seq(Byte) /\ Len(d) = m /\ \A q \in 1 .. m : d[q] = l[k + q]
  BY DEF Slice
<1> HIDE DEF c, d, n, m
<1>4. /\ c \o d \in Seq(Byte) /\ Len(c \o d) = k + m
      /\ \A q \in 1 .. k : (c \o d)[q] = c[q]
      /\ \A q \in 1 .. m : (c \o d)[k + q] = d[q]
  <2>1. m \in Nat /\ k = Len(c) /\ m = Len(d) /\ c \in Seq(Byte) /\ d \in Seq(Byte)
    BY <1>0, <1>1, <1>2
  <2>2. /\ c \o d \in Seq(Byte) /\ Len(c \o d) = Len(c) + Len(d)
        /\ \A q \in 1 .. Len(c) : (c \o d)[q] = c[q]
        /\ \A q \in 1 .. Len(d) : (c \o d)[Len(c) + q] = d[q]
    BY <2>1, ConcatIs
  <2> QED
    BY <2>1, <2>2
<1>5. ASSUME NEW q \in 1 .. n PROVE l[q] = (c \o d)[q]
  <2>1. CASE q <= k
    BY <1>0, <1>1, <1>4, <2>1
  <2>2. CASE q > k
    <3> DEFINE r == q - k
    <3>1. r \in 1 .. m /\ q = k + r
      BY <1>0, <2>2
    <3> HIDE DEF r
    <3> QED
      BY <1>2, <1>4, <3>1
  <2>3. q <= k \/ q > k
    BY <1>0
  <2> QED
    BY <2>1, <2>2, <2>3
<1>7. l = c \o d
  BY <1>0, <1>4, <1>5, SameSeq
<1> QED
  BY <1>7 DEF c, d, n

LEMMA SliceOfPrefix ==
  ASSUME NEW l \in Seq(Byte), NEW k \in Nat, k <= Len(l), NEW j \in Nat, j <= k
  PROVE  Slice(Slice(l, 0, k), 0, j) = Slice(l, 0, j)
BY DEF Slice
-----------------------------------------------------------------------------
(***************************************************************************)
(* The logs one writer leaves.  A clean log is one that the next batch may *)
(* be appended to: its scan is at rest, and behind its last commit there   *)
(* is nothing but notes.  Every log is fine: a repair leaves it clean and  *)
(* takes no entry from it; a good log is fine wherever it is cut, and no   *)
(* cut has an entry that the whole has not.                                *)
(***************************************************************************)
Value == {BatchData(b) : b \in Batches}

CommittedEnd(log) == Scan(log).committedEnd

Prefix(log, k) == Slice(log, 0, k)

Clean(log) ==
  LET s == Scan(log) IN
  /\ log \in Seq(Byte)
  /\ Rests(s) /\ s.damaged = {} /\ s.pos = Len(log)
  /\ \A i \in DOMAIN s.blocks : s.blocks[i].stop <= Len(log)
  /\ s.committedEnd <= Len(log) /\ s.blockStart = s.committedEnd
  /\ Data(Slice(log, s.committedEnd, Len(log))) = <<>>

Fine(log) ==
  LET end == CommittedEnd(log)
      kept == Prefix(log, end)
  IN
  /\ log \in Seq(Byte) /\ end \in 0 .. Len(log)
  /\ Entries(log) \in Seq(Value)
  /\ Clean(kept) /\ CommittedEnd(kept) = end /\ Entries(kept) = Entries(log)
  /\ Clean(log) \/ TornTail(log, end)

Begins(old, new) ==
  /\ CommittedEnd(old) <= CommittedEnd(new)
  /\ Len(Entries(old)) <= Len(Entries(new))
  /\ \A i \in 1 .. Len(Entries(old)) : Entries(new)[i] = Entries(old)[i]

Good(log) ==
  /\ log \in Seq(Byte)
  /\ \A k \in 0 .. Len(log) : Fine(Prefix(log, k))
  /\ \A k \in 0 .. Len(log) : \A j \in 0 .. k : Begins(Prefix(log, j), Prefix(log, k))
-----------------------------------------------------------------------------
(* What the scans below need to know of a batch and of a scan. *)
LEMMA BatchFacts ==
  ASSUME NEW b \in Batches
  PROVE  /\ b \in Seq(Byte) /\ Len(b) \in Nat /\ Len(b) > 0
         /\ IsBatch(b)
         /\ \A k \in 0 .. Len(b) :
              /\ Prefix(b, k) \in Seq(Byte) /\ Len(Prefix(b, k)) = k
              /\ BeginsWithCode(Prefix(b, k))
         /\ \A k \in 0 .. (Len(b) - 1) :
              /\ Scan(Prefix(b, k)).blocks = <<>>
              /\ TornTail(Prefix(b, k), 0) \/ Data(Prefix(b, k)) = <<>>
         /\ Prefix(b, Len(b)) = b
<1>1. /\ b \in Seq(Byte) /\ IsBatch(b)
      /\ ~IsPlainByte(At(b, 0)) /\ ~IsLayout(At(b, 0))
      /\ \A k \in 0 .. (Len(b) - 1) : TornTail(Prefix(b, k), 0) \/ Data(Prefix(b, k)) = <<>>
  BY BatchesAssumption, Zenon DEF IsBatch, Prefix
<1>2. Len(b) \in Nat /\ Len(b) > 0
  <2>1. Len(b) \in Nat
    BY <1>1
  <2>2. Len(b) > 0
    BY <1>1, BatchIs
  <2> QED
    BY <2>1, <2>2
<1>3. ASSUME NEW k \in 0 .. Len(b)
      PROVE  /\ Prefix(b, k) \in Seq(Byte) /\ Len(Prefix(b, k)) = k
             /\ BeginsWithCode(Prefix(b, k))
  <2>1. k \in Nat /\ k <= Len(b)
    BY <1>2
  <2>2. /\ Prefix(b, k) \in Seq(Byte) /\ Len(Prefix(b, k)) = k
        /\ \A p \in 0 .. (k - 1) : At(Prefix(b, k), p) = At(b, p)
    BY <1>1, <2>1, PrefixIs, Zenon DEF Prefix
  <2>3. CASE k = 0
    BY <2>2, <2>3 DEF BeginsWithCode
  <2>4. CASE k # 0
    <3>1. 0 \in 0 .. (k - 1)
      BY <2>1, <2>4
    <3> QED
      BY <1>1, <2>2, <3>1 DEF BeginsWithCode
  <2> QED
    BY <2>2, <2>3, <2>4
<1>4. \A k \in 0 .. (Len(b) - 1) : Scan(Prefix(b, k)).blocks = <<>>
  BY <1>1, CutScans DEF Prefix
<1>5. Prefix(b, Len(b)) = b
  BY <1>1, SliceWhole DEF Prefix
<1> QED
  BY <1>1, <1>2, <1>3, <1>4, <1>5

LEMMA ScanTyped ==
  ASSUME NEW log \in Seq(Byte)
  PROVE  /\ Scan(log) \in ScanType
         /\ Len(Scan(log).blocks) \in Nat
         /\ DOMAIN Scan(log).blocks = 1 .. Len(Scan(log).blocks)
         /\ \A i \in 1 .. Len(Scan(log).blocks) :
              /\ Scan(log).blocks[i].start \in Nat /\ Scan(log).blocks[i].stop \in Nat
         /\ CommittedEnd(log) \in Nat
<1>1. Scan(log) \in ScanType
  BY ScanEndUnfolds, ScanEndType
<1> DEFINE s == Scan(log)
<1> HIDE DEF s
<1>2. s.blocks \in Seq(BlockType) /\ s.committedEnd \in Nat
  BY <1>1 DEF ScanType, s
<1>3. \A i \in 1 .. Len(s.blocks) : s.blocks[i] \in BlockType
  BY <1>2
<1> QED
  BY <1>1, <1>2, <1>3 DEF BlockType, CommittedEnd, s

LEMMA CleanFacts ==
  ASSUME NEW log, Clean(log)
  PROVE  LET s == Scan(log) IN
         /\ log \in Seq(Byte) /\ Len(log) \in Nat
         /\ Rests(s) /\ s.damaged = {} /\ s.pos = Len(log)
         /\ \A i \in 1 .. Len(s.blocks) : s.blocks[i].stop <= Len(log)
         /\ CommittedEnd(log) \in 0 .. Len(log) /\ s.blockStart = CommittedEnd(log)
         /\ Data(Slice(log, CommittedEnd(log), Len(log))) = <<>>
         /\ s.committedEnd = CommittedEnd(log)
<1>1. log \in Seq(Byte) /\ Len(log) \in Nat
  BY DEF Clean
<1>2. CommittedEnd(log) \in Nat /\ DOMAIN Scan(log).blocks = 1 .. Len(Scan(log).blocks)
  BY <1>1, ScanTyped
<1>3. CommittedEnd(log) <= Len(log)
  BY Zenon DEF Clean, CommittedEnd
<1>4. CommittedEnd(log) \in 0 .. Len(log)
  BY <1>1, <1>2, <1>3
<1> QED
  BY <1>1, <1>2, <1>4, Zenon DEF Clean, CommittedEnd

(* The blocks of a log keep their bytes when it is appended to. *)
LEMMA BlocksKept ==
  ASSUME NEW log, Clean(log), NEW w \in Seq(Byte),
         NEW i \in 1 .. Len(Scan(log).blocks)
  PROVE  BlockBytes(log \o w, Scan(log).blocks[i]) = BlockBytes(log, Scan(log).blocks[i])
<1> DEFINE block == Scan(log).blocks[i]
<1>1. log \in Seq(Byte) /\ block.stop <= Len(log)
  BY CleanFacts
<1>2. block.start \in Nat /\ block.stop \in Nat
  BY <1>1, ScanTyped
<1> HIDE DEF block
<1>3. Slice(log \o w, block.start, block.stop) = Slice(log, block.start, block.stop)
  BY <1>1, <1>2, SliceInside
<1> QED
  BY <1>3 DEF BlockBytes, block

(***************************************************************************)
(* A part of a batch behind a clean log commits nothing.                   *)
(***************************************************************************)
LEMMA CutLeaves ==
  ASSUME NEW log, Clean(log), NEW b \in Batches, NEW k \in 0 .. (Len(b) - 1)
  PROVE  LET u == Prefix(b, k)
             y == log \o u
         IN  /\ Tracks(u, Scan(u), Scan(y), Len(log), Scan(log))
             /\ Scan(y).blocks = Scan(log).blocks /\ Scan(y).damaged = {}
             /\ CommittedEnd(y) = CommittedEnd(log)
             /\ Entries(y) = Entries(log)
<1> DEFINE u == Prefix(b, k)
           y == log \o u
<1>1. log \in Seq(Byte) /\ Rests(Scan(log)) /\ Scan(log).pos = Len(log) /\ Scan(log).damaged = {}
  BY CleanFacts
<1>2. k \in 0 .. Len(b)
  BY BatchFacts
<1>3. u \in Seq(Byte) /\ BeginsWithCode(u) /\ Scan(u).blocks = <<>>
  BY <1>2, BatchFacts
<1> HIDE DEF u
<1>4. Tracks(u, Scan(u), Scan(y), Len(log), Scan(log))
  BY <1>1, <1>3, CutAppends
<1>5. /\ Scan(y).blocks = Scan(log).blocks /\ Scan(y).damaged = {}
      /\ Scan(y).committedEnd = Scan(log).committedEnd
  BY <1>1, <1>4 DEF Tracks
<1>6. y \in Seq(Byte)
  BY <1>1, <1>3
<1>7. \A i \in 1 .. Len(Scan(log).blocks) :
        BlockBytes(y, Scan(log).blocks[i]) = BlockBytes(log, Scan(log).blocks[i])
  BY <1>3, BlocksKept
<1> HIDE DEF y
<1>8. Entries(y) = [i \in 1 .. Len(Scan(y).blocks) |-> Data(BlockBytes(y, Scan(y).blocks[i]))]
  BY <1>5, <1>6, EntriesAre
<1>9. Entries(log) = [i \in 1 .. Len(Scan(log).blocks) |-> Data(BlockBytes(log, Scan(log).blocks[i]))]
  BY <1>1, EntriesAre
<1>10. Entries(y) = Entries(log)
  BY <1>5, <1>7, <1>8, <1>9
<1> QED
  BY <1>4, <1>5, <1>10 DEF CommittedEnd, y, u

(* It leaves notes, and the log clean, or a tail that a repair cuts off. *)
LEMMA CutStays ==
  ASSUME NEW log, Clean(log), NEW b \in Batches, NEW k \in 0 .. (Len(b) - 1), k > 0
  PROVE  LET y == log \o Prefix(b, k) IN
         Clean(y) \/ TornTail(y, CommittedEnd(log))
<1> DEFINE u == Prefix(b, k)
           y == log \o u
           end == CommittedEnd(log)
           n == Len(log)
           c == Slice(log, 0, end)
           t == Slice(log, end, n)
<1>1. /\ log \in Seq(Byte) /\ n \in Nat
      /\ Rests(Scan(log)) /\ Scan(log).damaged = {} /\ Scan(log).pos = n
      /\ \A i \in 1 .. Len(Scan(log).blocks) : Scan(log).blocks[i].stop <= n
      /\ end \in Nat /\ end <= n /\ Scan(log).blockStart = end
      /\ Data(t) = <<>>
  BY CleanFacts
<1>2. k \in 0 .. Len(b) /\ k \in Nat
  BY BatchFacts
<1>3. /\ u \in Seq(Byte) /\ Len(u) = k /\ BeginsWithCode(u)
      /\ TornTail(u, 0) \/ Data(u) = <<>>
  BY <1>2, BatchFacts
<1>4. /\ Tracks(u, Scan(u), Scan(y), n, Scan(log))
      /\ Scan(y).blocks = Scan(log).blocks /\ Scan(y).damaged = {}
      /\ CommittedEnd(y) = end
  BY CutLeaves
<1>5. c \in Seq(Byte) /\ Len(c) = end /\ t \in Seq(Byte)
  BY <1>1, SliceIs
<1>6. log = c \o t
  BY <1>1, SliceSplits
<1>7. y \in Seq(Byte) /\ Len(y) = n + k
  BY <1>1, <1>3
<1> HIDE DEF u, c, t, end
<1>8. CASE TornTail(u, 0)
  <2>1. TornTail(c \o (t \o u), Len(c)) <=> TornTail(u, 0)
    BY <1>1, <1>3, <1>5, TornBehindNotes
  <2>2. c \o (t \o u) = log \o u
    BY SMTT(60), <1>3, <1>5, <1>6
  <2> QED
    BY <1>5, <1>8, <2>1, <2>2 DEF u, end
<1>9. CASE Data(u) = <<>>
  <2>1. Scan(u) = MovedTo(NewScan, k, FALSE)
    BY <1>3, <1>9, NotesRest
  <2>2. /\ Scan(u).pos = k /\ ~Scan(u).inText /\ Scan(u).depth = 0 /\ Scan(u).blockStart = 0
    BY <2>1 DEF MovedTo, NewScan
  <2>3. At(u, 0) # SYN
    <3>1. FirstRules(First(u), u, 0, k) /\ First(u)[0] = k
      <4>1. First(u)[0] = Len(u)
        BY <1>3, <1>9, DataIs
      <4>2. 0 \in 0 .. Len(u)
        BY <1>2, <1>3
      <4>3. FirstRules(First(u), u, 0, Len(u))
        BY <1>3, <4>2, FirstUnfolds
      <4> QED
        BY <1>3, <4>1, <4>3
    <3>2. k # 0 /\ 0 < k
      BY <1>2
    <3>3. At(u, 0) \in {EOT, BEL}
      BY <3>1, <3>2 DEF FirstRules
    <3> QED
      BY <3>3 DEF EOT, BEL, SYN
  <2>4. /\ Scan(y).pos = n + k /\ ~Scan(y).inText /\ Scan(y).depth = 0
        /\ Scan(y).blockStart = end
    BY <1>1, <1>4, <2>2, <2>3 DEF Tracks
  <2>5. Slice(y, end, n + k) = t \o u
    <3>1. Slice(log \o u, end, n + k) = Slice(log, end, n) \o Slice(u, 0, k)
      <4>1. /\ k <= Len(u) /\ k \in Nat /\ end \in Nat /\ end <= Len(log) /\ n = Len(log)
            /\ log \in Seq(Byte) /\ u \in Seq(Byte)
        BY <1>1, <1>2, <1>3
      <4> QED
        BY ONLY <4>1, SliceAcross
    <3>2. Slice(u, 0, k) = u
      BY <1>3, SliceWhole
    <3> QED
      BY <3>1, <3>2 DEF t
  <2>6. Data(t \o u) = <<>>
    BY <1>1, <1>3, <1>5, <1>9, DataBehindNotes
  <2>7. \A i \in DOMAIN Scan(y).blocks : Scan(y).blocks[i].stop <= Len(y)
    <3>1. DOMAIN Scan(log).blocks = 1 .. Len(Scan(log).blocks)
      BY <1>1, ScanTyped
    <3>2. ASSUME NEW i \in 1 .. Len(Scan(log).blocks)
          PROVE  Scan(log).blocks[i].stop <= n + k
      <4>1. Scan(log).blocks[i].stop \in Nat /\ Scan(log).blocks[i].stop <= n
        BY <1>1, ScanTyped
      <4> QED
        BY <1>1, <1>2, <4>1
    <3> QED
      BY <1>4, <1>7, <3>1, <3>2
  <2>8. Scan(y).committedEnd = end /\ end <= Len(y)
    BY <1>1, <1>2, <1>4, <1>7 DEF CommittedEnd
  <2> HIDE DEF y, n
  <2>9. Clean(y)
    BY <1>4, <1>7, <2>4, <2>5, <2>6, <2>7, <2>8 DEF Clean, Rests
  <2> QED
    BY <2>9 DEF y, u
<1> QED
  BY <1>3, <1>8, <1>9

LEMMA FineFacts ==
  ASSUME NEW log, Fine(log)
  PROVE  LET end == CommittedEnd(log) IN
         /\ log \in Seq(Byte) /\ end \in 0 .. Len(log)
         /\ Entries(log) \in Seq(Value)
         /\ Clean(Prefix(log, end)) /\ CommittedEnd(Prefix(log, end)) = end
         /\ Entries(Prefix(log, end)) = Entries(log)
         /\ Clean(log) \/ TornTail(log, end)
BY Zenon DEF Fine

LEMMA CutFine ==
  ASSUME NEW log, Clean(log), Fine(log), NEW b \in Batches, NEW k \in 0 .. (Len(b) - 1)
  PROVE  Fine(log \o Prefix(b, k))
<1> DEFINE u == Prefix(b, k)
           y == log \o u
           end == CommittedEnd(log)
<1>0. k \in 0 .. Len(b) /\ k \in Nat
  BY BatchFacts
<1>1. u \in Seq(Byte) /\ Len(u) = k
  BY <1>0, BatchFacts
<1>2. /\ log \in Seq(Byte) /\ end \in Nat /\ end <= Len(log) /\ Len(log) \in Nat
      /\ Entries(log) \in Seq(Value)
      /\ Clean(Prefix(log, end)) /\ CommittedEnd(Prefix(log, end)) = end
      /\ Entries(Prefix(log, end)) = Entries(log)
  BY FineFacts
<1>3. CASE k = 0
  <2>1. u = <<>>
    BY <1>1, <1>3
  <2>2. log \o <<>> = log
    BY <1>2
  <2> QED
    BY <2>1, <2>2
<1>4. CASE k > 0
  <2>1. CommittedEnd(y) = end /\ Entries(y) = Entries(log)
    BY CutLeaves
  <2>2. Clean(y) \/ TornTail(y, end)
    BY <1>4, CutStays
  <2>3. y \in Seq(Byte) /\ Len(y) = Len(log) + k
    BY <1>1, <1>2
  <2>4. Prefix(y, end) = Prefix(log, end)
    BY <1>1, <1>2, SliceInside DEF Prefix
  <2>5. end \in 0 .. Len(y)
    BY <1>0, <1>2, <2>3
  <2> HIDE DEF y, end
  <2>6. Fine(y)
    BY <1>2, <2>1, <2>2, <2>3, <2>4, <2>5, Zenon DEF Fine
  <2> QED
    BY <2>6 DEF y
<1> QED
  BY <1>0, <1>3, <1>4

(***************************************************************************)
(* A whole batch behind a clean log becomes one entry, and leaves it clean.*)
(***************************************************************************)
LEMMA BatchLeaves ==
  ASSUME NEW log, Clean(log), NEW b \in Batches
  PROVE  LET y == log \o b IN
         /\ Clean(y) /\ CommittedEnd(y) = Len(y)
         /\ Entries(y) = Append(Entries(log), BatchData(b))
<1> DEFINE y == log \o b
           s == Scan(log)
           start == CommittedEnd(log)
           n == Len(log)
           k == Len(b)
           m == Len(s.blocks)
           t == Slice(log, start, n)
           u == Prefix(b, k - 1)
<1>1. /\ log \in Seq(Byte) /\ n \in Nat
      /\ Rests(s) /\ s.damaged = {} /\ s.pos = n
      /\ \A i \in 1 .. m : s.blocks[i].stop <= n
      /\ start \in Nat /\ start <= n /\ s.blockStart = start
      /\ Data(t) = <<>>
  BY CleanFacts
<1>2. /\ s \in ScanType /\ m \in Nat
      /\ \A i \in 1 .. m : s.blocks[i].stop \in Nat
  BY <1>1, ScanTyped
<1>3. b \in Seq(Byte) /\ k \in Nat /\ k > 0 /\ IsBatch(b) /\ BeginsWithCode(b)
  <2>1. b \in Seq(Byte) /\ k \in Nat /\ k > 0 /\ IsBatch(b) /\ Prefix(b, k) = b
    BY BatchFacts
  <2>2. k \in 0 .. k
    BY <2>1
  <2> HIDE DEF k
  <2>3. BeginsWithCode(Prefix(b, k))
    BY <2>2, BatchFacts DEF k
  <2> QED
    BY <2>1, <2>3
<1>4. u \in Seq(Byte) /\ Len(u) = k - 1 /\ BeginsWithCode(u)
  <2>1. k - 1 \in 0 .. Len(b)
    BY <1>3
  <2> QED
    BY <2>1, BatchFacts
<1>5. PICK i \in BlockStarts(b, n, s) : Scan(y) = Committed(s, i, n + k)
  BY <1>1, <1>3, BatchAppends
<1>6. i = start \/ i = n
  BY <1>1, <1>5 DEF BlockStarts
<1>7. t \in Seq(Byte) /\ y \in Seq(Byte) /\ Len(y) = n + k
  BY <1>1, <1>3, SliceIs
<1>8. BatchData(b) = Data(u)
  BY DEF BatchData, Prefix
<1> DEFINE last == [start |-> i, stop |-> (n + k) - 1]
<1>9. /\ Scan(y).pos = n + k /\ Scan(y).blockStart = n + k /\ ~Scan(y).inText
      /\ Scan(y).depth = 0 /\ Scan(y).damaged = {} /\ Scan(y).committedEnd = n + k
      /\ Scan(y).blocks = Append(s.blocks, last)
  BY <1>1, <1>5 DEF Committed
<1>10. /\ Len(Scan(y).blocks) = m + 1 /\ DOMAIN Scan(y).blocks = 1 .. (m + 1)
       /\ \A j \in 1 .. m : Scan(y).blocks[j] = s.blocks[j]
       /\ Scan(y).blocks[m + 1] = last
  <2>1. s.blocks \in Seq(BlockType)
    BY <1>2 DEF ScanType
  <2> HIDE DEF s, last, y
  <2> QED
    BY <1>9, <2>1
<1>11. Data(BlockBytes(y, last)) = BatchData(b)
  <2>1. BlockBytes(y, last) = Slice(y, i, n + (k - 1))
    <3>1. (n + k) - 1 = n + (k - 1)
      BY <1>1, <1>3
    <3>2. last.start = i /\ last.stop = (n + k) - 1
      OBVIOUS
    <3> HIDE DEF last
    <3> QED
      BY <3>1, <3>2 DEF BlockBytes
  <2>2. k - 1 \in Nat /\ k - 1 <= Len(b)
    BY <1>3
  <2>3. CASE i = start
    <3>1. Slice(log \o b, start, n + (k - 1)) = t \o u
      <4> DEFINE j == k - 1
      <4>1. start \in Nat /\ start <= Len(log) /\ j \in Nat /\ j <= Len(b) /\ log \in Seq(Byte) /\ b \in Seq(Byte)
        BY <1>1, <1>3, <2>2
      <4> HIDE DEF j
      <4>2. Slice(log \o b, start, Len(log) + j) = Slice(log, start, Len(log)) \o Slice(b, 0, j)
        BY ONLY <4>1, SliceAcross
      <4> QED
        BY <4>2 DEF j, Prefix
    <3>2. Data(t \o u) = Data(u)
      BY <1>1, <1>4, <1>7, DataBehindNotes
    <3> QED
      BY <1>8, <2>1, <2>3, <3>1, <3>2
  <2>4. CASE i = n
    <3>1. Slice(log \o b, n, n + (k - 1)) = u
      BY <1>1, <1>3, <2>2, SliceBehind DEF Prefix
    <3> QED
      BY <1>8, <2>1, <2>4, <3>1
  <2> QED
    BY <1>6, <2>3, <2>4
<1>12. \A j \in 1 .. m : BlockBytes(y, s.blocks[j]) = BlockBytes(log, s.blocks[j])
  BY <1>3, BlocksKept
<1>13. Entries(y) = [j \in 1 .. (m + 1) |-> Data(BlockBytes(y, Scan(y).blocks[j]))]
  <2> HIDE DEF y
  <2> QED
    BY <1>7, <1>9, <1>10, EntriesAre
<1>14. Entries(log) = [j \in 1 .. m |-> Data(BlockBytes(log, s.blocks[j]))]
  BY <1>1, EntriesAre
<1>15. Entries(y) = Append(Entries(log), BatchData(b))
  <2> DEFINE e == Entries(log)
             f == Entries(y)
  <2>1. /\ e = [j \in 1 .. m |-> e[j]] /\ f = [j \in 1 .. (m + 1) |-> f[j]]
        /\ \A j \in 1 .. m : f[j] = e[j]
        /\ f[m + 1] = BatchData(b)
    <3>1. e = [j \in 1 .. m |-> e[j]] /\ f = [j \in 1 .. (m + 1) |-> f[j]]
      BY <1>13, <1>14
    <3>2. ASSUME NEW j \in 1 .. m PROVE f[j] = e[j]
      <4>1. j \in 1 .. (m + 1)
        BY <1>2
      <4>2. f[j] = Data(BlockBytes(y, Scan(y).blocks[j])) /\ e[j] = Data(BlockBytes(log, s.blocks[j]))
        BY <1>13, <1>14, <4>1
      <4> HIDE DEF e, f, y, s
      <4> QED
        BY <1>10, <1>12, <4>2
    <3>3. f[m + 1] = BatchData(b)
      <4>1. m + 1 \in 1 .. (m + 1)
        BY <1>2
      <4>2. f[m + 1] = Data(BlockBytes(y, Scan(y).blocks[m + 1]))
        BY <1>13, <4>1
      <4> HIDE DEF e, f, y, s, last
      <4> QED
        BY <1>10, <1>11, <4>2
    <3> QED
      BY <3>1, <3>2, <3>3
  <2> DEFINE A == {e[j] : j \in 1 .. m} \cup {BatchData(b)}
  <2>2. e \in Seq(A) /\ Len(e) = m
    <3> HIDE DEF e, f, m
    <3>1. \A j \in 1 .. m : e[j] \in A
      OBVIOUS
    <3> HIDE DEF A
    <3> QED
      BY <1>2, <2>1, <3>1
  <2> HIDE DEF e, f, m, A
  <2>3. f = Append(e, BatchData(b))
    <3>1. BatchData(b) \in A
      BY DEF A
    <3>2. \A j \in 1 .. (m + 1) : j \in 1 .. m \/ j = m + 1
      BY <1>2
    <3>3. \A j \in 1 .. m : e[j] \in A
      BY DEF A
    <3>4. \A j \in 1 .. (m + 1) : f[j] \in A
      BY <2>1, <3>1, <3>2, <3>3
    <3>5. m + 1 \in Nat
      BY <1>2
    <3>6. f \in Seq(A) /\ Len(f) = m + 1
      BY <2>1, <3>4, <3>5
    <3>7. /\ Append(e, BatchData(b)) \in Seq(A) /\ Len(Append(e, BatchData(b))) = m + 1
          /\ \A j \in 1 .. m : Append(e, BatchData(b))[j] = e[j]
          /\ Append(e, BatchData(b))[m + 1] = BatchData(b)
      BY <2>2, <3>1
    <3>8. \A j \in 1 .. (m + 1) : f[j] = Append(e, BatchData(b))[j]
      BY <2>1, <3>2, <3>7
    <3> QED
      BY <3>6, <3>7, <3>8, SameSeq
  <2> QED
    BY <2>3 DEF e, f
<1>16. Clean(y)
  <2>1. Data(Slice(y, n + k, n + k)) = <<>>
    <3> DEFINE none == Slice(y, n + k, n + k)
    <3>1. none = <<>>
      BY <1>1, <1>3, <1>7 DEF Slice
    <3>2. <<>> \in Seq(Byte) /\ Len(<<>>) = 0 /\ 0 \in 0 .. 0
      OBVIOUS
    <3> HIDE DEF none
    <3>3. First(none)[0] \in 0 .. 0 /\ Data(none) = Slice(none, First(none)[0], 0)
      BY <3>1, <3>2, FirstUnfolds
    <3>4. First(none)[0] = 0
      BY <3>3
    <3>5. Data(none) = Slice(<<>>, 0, 0)
      BY <3>1, <3>3, <3>4
    <3>6. Slice(<<>>, 0, 0) = <<>>
      BY DEF Slice
    <3> QED
      BY <3>5, <3>6 DEF none
  <2>2. \A j \in DOMAIN Scan(y).blocks : Scan(y).blocks[j].stop <= n + k
    <3>1. \A j \in 1 .. m : s.blocks[j].stop <= n + k
      BY <1>1, <1>2, <1>3
    <3>2. last.stop <= n + k
      BY <1>1, <1>3
    <3> HIDE DEF y, s, last
    <3>3. \A j \in 1 .. (m + 1) : j \in 1 .. m \/ j = m + 1
      BY <1>2
    <3> QED
      BY <1>10, <3>1, <3>2, <3>3
  <2>3. n + k <= n + k
    BY <1>1, <1>3
  <2> HIDE DEF y, n, k
  <2> QED
    BY <1>7, <1>9, <2>1, <2>2, <2>3 DEF Clean, Rests
<1> QED
  BY <1>7, <1>9, <1>15, <1>16 DEF CommittedEnd

LEMMA BatchFine ==
  ASSUME NEW log, Clean(log), Fine(log), NEW b \in Batches
  PROVE  Fine(log \o b)
<1> DEFINE y == log \o b
           n == Len(y)
<1>1. log \in Seq(Byte) /\ Entries(log) \in Seq(Value)
  BY FineFacts
<1>2. b \in Seq(Byte)
  BY BatchFacts
<1>3. y \in Seq(Byte) /\ n \in Nat
  BY <1>1, <1>2
<1>4. Clean(y) /\ CommittedEnd(y) = n /\ Entries(y) = Append(Entries(log), BatchData(b))
  BY BatchLeaves
<1>5. Entries(y) \in Seq(Value)
  <2>1. BatchData(b) \in Value
    BY DEF Value
  <2> HIDE DEF y
  <2> QED
    BY <1>1, <1>4, <2>1
<1>6. Prefix(y, n) = y
  BY <1>3, SliceWhole DEF Prefix
<1>7. n \in 0 .. n
  BY <1>3
<1> HIDE DEF y
<1>8. Fine(y)
  BY <1>3, <1>4, <1>5, <1>6, <1>7 DEF Fine
<1> QED
  BY <1>8 DEF y
-----------------------------------------------------------------------------
(***************************************************************************)
(* Good logs: the empty one, their prefixes, and what a write appends.     *)
(***************************************************************************)
LEMMA PrefixFacts ==
  ASSUME NEW log \in Seq(Byte), NEW k \in 0 .. Len(log)
  PROVE  /\ Prefix(log, k) \in Seq(Byte) /\ Len(Prefix(log, k)) = k
         /\ \A j \in 0 .. k : Prefix(Prefix(log, k), j) = Prefix(log, j)
         /\ k \in Nat /\ k <= Len(log)
<1>1. k \in Nat /\ k <= Len(log)
  OBVIOUS
<1>2. \A j \in 0 .. k : Prefix(Prefix(log, k), j) = Prefix(log, j)
  <2> TAKE j \in 0 .. k
  <2>1. j \in Nat /\ j <= k
    BY <1>1
  <2> QED
    BY <1>1, <2>1, SliceOfPrefix, Zenon DEF Prefix
<1>3. Prefix(log, k) \in Seq(Byte) /\ Len(Prefix(log, k)) = k
  BY <1>1, PrefixIs, Zenon DEF Prefix
<1> QED
  BY <1>1, <1>2, <1>3

LEMMA FineTyped ==
  ASSUME NEW log, Fine(log)
  PROVE  /\ CommittedEnd(log) \in Nat /\ CommittedEnd(log) <= Len(log)
         /\ Entries(log) \in Seq(Value) /\ Len(Entries(log)) \in Nat
<1>1. log \in Seq(Byte) /\ CommittedEnd(log) \in 0 .. Len(log) /\ Entries(log) \in Seq(Value)
  BY FineFacts
<1>2. Len(log) \in Nat
  BY <1>1
<1> QED
  BY <1>1, <1>2

LEMMA BeginsTransitive ==
  ASSUME NEW r, NEW s, NEW t, Fine(r), Fine(s), Fine(t), Begins(r, s), Begins(s, t)
  PROVE  Begins(r, t)
<1>1. /\ CommittedEnd(r) \in Nat /\ CommittedEnd(s) \in Nat /\ CommittedEnd(t) \in Nat
      /\ Len(Entries(r)) \in Nat /\ Len(Entries(s)) \in Nat /\ Len(Entries(t)) \in Nat
  BY FineTyped
<1>2. \A i \in 1 .. Len(Entries(r)) : i \in 1 .. Len(Entries(s))
  BY <1>1 DEF Begins
<1>3. \A i \in 1 .. Len(Entries(r)) : Entries(t)[i] = Entries(r)[i]
  BY <1>2 DEF Begins
<1> QED
  BY <1>1, <1>3 DEF Begins

LEMMA GoodFacts ==
  ASSUME NEW log, Good(log)
  PROVE  /\ log \in Seq(Byte) /\ Len(log) \in Nat /\ Fine(log)
         /\ Prefix(log, Len(log)) = log
         /\ \A k \in 0 .. Len(log) :
              Fine(Prefix(log, k)) /\ Begins(Prefix(log, k), log)
<1>1. log \in Seq(Byte) /\ Len(log) \in Nat
  BY DEF Good
<1>2. Prefix(log, Len(log)) = log
  BY <1>1, SliceWhole DEF Prefix
<1>3. Len(log) \in 0 .. Len(log)
  BY <1>1
<1>4. \A k \in 0 .. Len(log) : Fine(Prefix(log, k))
  BY DEF Good
<1>5. \A k \in 0 .. Len(log) : Begins(Prefix(log, k), Prefix(log, Len(log)))
  BY <1>3 DEF Good
<1> QED
  BY <1>1, <1>2, <1>3, <1>4, <1>5

LEMMA GoodPrefix ==
  ASSUME NEW log, Good(log), NEW k \in 0 .. Len(log)
  PROVE  Good(Prefix(log, k))
<1> DEFINE c == Prefix(log, k)
<1>1. log \in Seq(Byte)
  BY GoodFacts
<1>2. /\ c \in Seq(Byte) /\ Len(c) = k /\ k \in Nat /\ k <= Len(log)
      /\ \A j \in 0 .. k : Prefix(c, j) = Prefix(log, j)
  BY <1>1, PrefixFacts
<1>3. \A j \in 0 .. k : j \in 0 .. Len(log)
  BY <1>1, <1>2
<1> HIDE DEF c
<1>4. \A j \in 0 .. k : Fine(Prefix(c, j))
  BY <1>2, <1>3 DEF Good
<1>5. ASSUME NEW j \in 0 .. k, NEW i \in 0 .. j
      PROVE  Begins(Prefix(c, i), Prefix(c, j))
  <2>1. i \in 0 .. k /\ j \in 0 .. Len(log)
    BY <1>2, <1>3
  <2>2. Begins(Prefix(log, i), Prefix(log, j))
    BY <2>1 DEF Good
  <2> QED
    BY <1>2, <2>1, <2>2
<1>6. Good(c)
  BY <1>2, <1>4, <1>5 DEF Good
<1> QED
  BY <1>6 DEF c

LEMMA EmptyIsGood ==
  /\ Good(<<>>) /\ Clean(<<>>)
  /\ Entries(<<>>) = <<>> /\ CommittedEnd(<<>>) = 0
<1> DEFINE e == <<>>
<1>1. e \in Seq(Byte) /\ Len(e) = 0
  OBVIOUS
<1> HIDE DEF e
<1>2. Scan(e) = NewScan
  <2>1. NewScan \in ScanType /\ Scan(e) = ScanEnd(e)[NewScan]
    BY <1>1, ScanEndUnfolds
  <2>2. NewScan.pos = 0
    BY DEF NewScan
  <2>3. ~(NewScan.pos < Len(e))
    BY <1>1, <2>2
  <2> QED
    BY <1>1, <2>1, <2>3, ScanEndUnfolds
<1>3. /\ ~Scan(e).inText /\ Scan(e).depth = 0 /\ Scan(e).damaged = {} /\ Scan(e).pos = 0
      /\ Scan(e).blocks = <<>> /\ Scan(e).committedEnd = 0 /\ Scan(e).blockStart = 0
  BY <1>2 DEF NewScan
<1>4. Slice(e, 0, 0) = e
  BY <1>1 DEF Slice, e
<1>5. Data(e) = e
  <2>1. First(e)[0] \in 0 .. 0 /\ Data(e) = Slice(e, First(e)[0], 0)
    <3>1. 0 \in 0 .. 0
      OBVIOUS
    <3> QED
      BY <1>1, <3>1, FirstUnfolds
  <2>2. First(e)[0] = 0
    BY <2>1
  <2> QED
    BY <1>4, <2>1, <2>2
<1>6. Clean(e)
  <2>1. Data(Slice(e, 0, 0)) = <<>>
    BY <1>4, <1>5 DEF e
  <2>2. DOMAIN Scan(e).blocks = {}
    BY <1>3
  <2> QED
    BY <1>1, <1>3, <2>1, <2>2 DEF Clean, Rests
<1>7. Entries(e) = <<>>
  <2>1. Entries(e) = [i \in 1 .. Len(Scan(e).blocks) |-> Data(BlockBytes(e, Scan(e).blocks[i]))]
    BY <1>1, <1>3, EntriesAre
  <2>2. Len(Scan(e).blocks) = 0
    BY <1>3
  <2> DEFINE f == [i \in 1 .. 0 |-> Data(BlockBytes(e, Scan(e).blocks[i]))]
  <2>3. f = <<>>
    OBVIOUS
  <2> QED
    BY <2>1, <2>2, <2>3
<1>8. CommittedEnd(e) = 0
  BY <1>3 DEF CommittedEnd
<1>9. \A k \in 0 .. 0 : Prefix(e, k) = e
  BY <1>4 DEF Prefix
<1>10. Fine(e)
  <2>1. Entries(e) \in Seq(Value)
    BY <1>7
  <2>2. 0 \in 0 .. 0
    OBVIOUS
  <2> QED
    BY <1>1, <1>6, <1>8, <1>9, <2>1, <2>2 DEF Fine
<1>11. Begins(e, e)
  BY <1>7, <1>8 DEF Begins
<1>12. Good(e)
  <2>1. \A k \in 0 .. 0 : Fine(Prefix(e, k))
    BY <1>9, <1>10
  <2>2. \A k \in 0 .. 0 : \A j \in 0 .. k : Begins(Prefix(e, j), Prefix(e, k))
    <3>1. \A k \in 0 .. 0 : \A j \in 0 .. k : j \in 0 .. 0
      OBVIOUS
    <3> QED
      BY <1>9, <1>11, <3>1
  <2> QED
    BY <1>1, <2>1, <2>2 DEF Good
<1> QED
  BY <1>6, <1>7, <1>8, <1>12 DEF e

LEMMA BatchAppended ==
  ASSUME NEW log, Good(log), Clean(log), NEW b \in Batches, NEW k \in 0 .. Len(b)
  PROVE  LET y == log \o Prefix(b, k) IN
         /\ Fine(y) /\ Begins(log, y)
         /\ k < Len(b) => /\ CommittedEnd(y) = CommittedEnd(log)
                          /\ Entries(y) = Entries(log)
         /\ k = Len(b) => /\ Clean(y) /\ CommittedEnd(y) = Len(log) + Len(b)
                          /\ Entries(y) = Append(Entries(log), BatchData(b))
<1> DEFINE y == log \o Prefix(b, k)
<1>1. log \in Seq(Byte) /\ Len(log) \in Nat /\ Fine(log)
  BY GoodFacts
<1>2. b \in Seq(Byte) /\ Len(b) \in Nat /\ Prefix(b, Len(b)) = b
  BY BatchFacts
<1>3. /\ CommittedEnd(log) \in Nat /\ CommittedEnd(log) <= Len(log)
      /\ Entries(log) \in Seq(Value) /\ Len(Entries(log)) \in Nat
  BY <1>1, FineTyped
<1>4. CASE k < Len(b)
  <2>1. k \in 0 .. (Len(b) - 1)
    BY <1>2, <1>4
  <2>2. Fine(y)
    BY <1>1, <2>1, CutFine
  <2>3. CommittedEnd(y) = CommittedEnd(log) /\ Entries(y) = Entries(log)
    BY <2>1, CutLeaves
  <2>4. ~(k = Len(b))
    BY <1>2, <1>4
  <2> HIDE DEF y
  <2>5. Begins(log, y)
    BY <1>3, <2>3 DEF Begins
  <2> QED
    BY <1>4, <2>2, <2>3, <2>4, <2>5 DEF y
<1>5. CASE k = Len(b)
  <2>1. y = log \o b
    BY <1>2, <1>5
  <2>2. Len(log \o b) = Len(log) + Len(b)
    BY <1>1, <1>2
  <2>3. Fine(y)
    BY <1>1, <2>1, BatchFine
  <2>4. Clean(y) /\ CommittedEnd(y) = Len(log) + Len(b) /\ Entries(y) = Append(Entries(log), BatchData(b))
    BY <2>1, <2>2, BatchLeaves
  <2>5. ~(k < Len(b))
    BY <1>2, <1>5
  <2> HIDE DEF y
  <2>6. /\ Len(Entries(y)) = Len(Entries(log)) + 1
        /\ \A i \in 1 .. Len(Entries(log)) : Entries(y)[i] = Entries(log)[i]
    <3>1. BatchData(b) \in Value
      BY DEF Value
    <3> QED
      BY <1>3, <2>4, <3>1
  <2>7. Begins(log, y)
    BY <1>2, <1>1, <1>3, <2>4, <2>6 DEF Begins
  <2> QED
    BY <1>5, <2>3, <2>4, <2>5, <2>7 DEF y
<1>6. k < Len(b) \/ k = Len(b)
  BY <1>2
<1> QED
  BY <1>4, <1>5, <1>6

(* What more of the batch is written begins with what was. *)
LEMMA WritesBegin ==
  ASSUME NEW log, Good(log), Clean(log), NEW b \in Batches,
         NEW k \in 0 .. Len(b), NEW j \in 0 .. k
  PROVE  Begins(log \o Prefix(b, j), log \o Prefix(b, k))
<1> DEFINE y == log \o Prefix(b, k)
           x == log \o Prefix(b, j)
<1>0. Len(b) \in Nat
  BY BatchFacts
<1>1. j \in 0 .. Len(b)
  BY <1>0
<1>2. CASE j < Len(b)
  <2>1. CommittedEnd(x) = CommittedEnd(log) /\ Entries(x) = Entries(log)
    BY <1>1, <1>2, BatchAppended
  <2>2. Begins(log, y)
    BY BatchAppended
  <2> HIDE DEF x, y
  <2>3. Begins(x, y)
    BY <2>1, <2>2, Zenon DEF Begins
  <2> QED
    BY <2>3 DEF x, y
<1>3. CASE j = Len(b)
  <2>1. x = y
    BY <1>0, <1>3
  <2>2. Fine(y)
    BY BatchAppended
  <2> HIDE DEF x, y
  <2>3. CommittedEnd(y) \in Nat /\ Len(Entries(y)) \in Nat
    BY <2>2, FineTyped
  <2>4. Begins(x, y)
    BY <2>1, <2>3 DEF Begins
  <2> QED
    BY <2>4 DEF x, y
<1> QED
  BY <1>0, <1>1, <1>2, <1>3

LEMMA GoodExtends ==
  ASSUME NEW log, Good(log), Clean(log), NEW b \in Batches, NEW k \in 0 .. Len(b)
  PROVE  Good(log \o Prefix(b, k))
<1> DEFINE n == Len(log)
           y == log \o Prefix(b, k)
           X(m) == log \o Prefix(b, m)
<1>1. log \in Seq(Byte) /\ n \in Nat /\ Fine(log) /\ Prefix(log, n) = log
  BY GoodFacts
<1>2. b \in Seq(Byte) /\ Len(b) \in Nat /\ k \in Nat /\ k <= Len(b)
  BY BatchFacts
<1>3. Prefix(b, k) \in Seq(Byte) /\ Len(Prefix(b, k)) = k
  BY BatchFacts
<1>4. y \in Seq(Byte) /\ Len(y) = n + k
  BY <1>1, <1>3
<1>5. ASSUME NEW j \in 0 .. n
      PROVE  Prefix(y, j) = Prefix(log, j)
  <2>1. j \in Nat /\ j <= Len(log) /\ 0 \in Nat
    BY <1>1
  <2> QED
    BY <1>1, <1>3, <2>1, SliceInside DEF Prefix
<1>6. ASSUME NEW m \in 0 .. k
      PROVE  Prefix(y, n + m) = X(m)
  <2>1. m \in Nat /\ m <= Len(Prefix(b, k)) /\ 0 \in Nat /\ 0 <= Len(log)
    BY <1>1, <1>2, <1>3
  <2>2. Slice(y, 0, n + m) = Slice(log, 0, n) \o Slice(Prefix(b, k), 0, m)
    BY <1>1, <1>3, <2>1, SliceAcross
  <2>3. Prefix(Prefix(b, k), m) = Prefix(b, m)
    BY <1>2, PrefixFacts
  <2> HIDE DEF y
  <2>4. Prefix(y, n + m) = Prefix(log, n) \o Prefix(b, m)
    BY <2>2, <2>3, Zenon DEF Prefix
  <2> QED
    BY <1>1, <2>4
<1>7. \A j \in 0 .. (n + k) : j \in 0 .. n \/ (\E m \in 0 .. k : j = n + m)
  <2> TAKE j \in 0 .. (n + k)
  <2>1. CASE j <= n
    BY <1>1, <2>1
  <2>2. CASE j > n
    <3>1. j - n \in 0 .. k /\ j = n + (j - n)
      BY <1>1, <1>2, <2>2
    <3> QED
      BY <3>1
  <2> QED
    BY <1>1, <1>2, <2>1, <2>2
<1>8. \A m \in 0 .. k : m \in 0 .. Len(b)
  BY <1>2
<1>9. \A m \in 0 .. k : Fine(X(m)) /\ Begins(log, X(m))
  BY <1>8, BatchAppended
<1>10. \A i \in 0 .. n : Fine(Prefix(log, i)) /\ Begins(Prefix(log, i), log)
  BY GoodFacts
<1>11. \A m \in 0 .. k : \A l \in 0 .. m : Begins(X(l), X(m))
  BY <1>8, WritesBegin
<1> HIDE DEF y, n, X
<1>12. \A j \in 0 .. (n + k) : Fine(Prefix(y, j))
  <2> TAKE j \in 0 .. (n + k)
  <2>1. CASE j \in 0 .. n
    BY <1>5, <1>10, <2>1
  <2>2. CASE \E m \in 0 .. k : j = n + m
    BY <1>6, <1>9, <2>2
  <2> QED
    BY <1>7, <2>1, <2>2
<1>13. ASSUME NEW j \in 0 .. (n + k), NEW i \in 0 .. j
       PROVE  Begins(Prefix(y, i), Prefix(y, j))
  <2>0. i \in 0 .. (n + k)
    BY <1>1, <1>2
  <2>1. CASE j \in 0 .. n
    <3>1. i \in 0 .. n
      BY <1>1, <2>1
    <3>2. Prefix(y, i) = Prefix(log, i) /\ Prefix(y, j) = Prefix(log, j)
      BY <1>5, <2>1, <3>1
    <3>3. Begins(Prefix(log, i), Prefix(log, j))
      BY <2>1 DEF Good, n
    <3> QED
      BY <3>2, <3>3
  <2>2. CASE i \in 0 .. n /\ \E m \in 0 .. k : j = n + m
    <3>1. PICK m \in 0 .. k : j = n + m
      BY <2>2
    <3>2. Prefix(y, j) = X(m) /\ Prefix(y, i) = Prefix(log, i)
      BY <1>5, <1>6, <2>2, <3>1
    <3>3. Fine(X(m)) /\ Begins(log, X(m)) /\ Fine(Prefix(log, i)) /\ Begins(Prefix(log, i), log)
      BY <1>9, <1>10, <2>2, <3>1
    <3> QED
      BY <1>1, <3>2, <3>3, BeginsTransitive
  <2>3. CASE (\E l \in 0 .. k : i = n + l) /\ \E m \in 0 .. k : j = n + m
    <3>1. PICK l \in 0 .. k : i = n + l
      BY <2>3
    <3>2. PICK m \in 0 .. k : j = n + m
      BY <2>3
    <3>3. l \in 0 .. m
      BY <1>1, <3>1, <3>2
    <3>4. Prefix(y, i) = X(l) /\ Prefix(y, j) = X(m)
      BY <1>6, <3>1, <3>2
    <3> QED
      BY <1>11, <3>3, <3>4
  <2> QED
    BY <1>7, <2>0, <2>1, <2>2, <2>3
<1>14. Good(y)
  BY <1>4, <1>12, <1>13 DEF Good
<1> QED
  BY <1>14 DEF y, X
-----------------------------------------------------------------------------
(***************************************************************************)
(* The inductive invariant.  What the file and the disk hold is good, what *)
(* is committed on the disk is in the file, and each handle knows what its *)
(* next call relies on: a batch goes behind a clean log, and what is       *)
(* written of it is all that is behind that log.                           *)
(***************************************************************************)
OneWriter == StopAfterError /\ \A p, q \in Procs : p = q

Kept(kept, log) ==
  LET end == CommittedEnd(kept) IN
  end <= Len(log) /\ Prefix(log, end) = Prefix(kept, end)

Writing(log, batch, rest) ==
  \E k \in 0 .. Len(log), n \in 0 .. (Len(batch) - 1) :
    /\ Good(Prefix(log, k)) /\ Clean(Prefix(log, k))
    /\ log = Prefix(log, k) \o Prefix(batch, n)
    /\ rest = Slice(batch, n, Len(batch))

Knows(h, log, list) ==
  /\ h.pc = "repairing" => h.snap = log
  /\ h.pc = "ready" => Clean(log)
  /\ h.pc = "writing" => h.batch \in Batches /\ Writing(log, h.batch, h.rest)
  /\ h.pc = "written" => /\ h.batch \in Batches /\ Clean(log)
                         /\ h.at \in 1 .. Len(list) /\ list[h.at] = BatchData(h.batch)

HandleType == [pc : {"closed", "repairing", "ready", "writing", "written", "given up"},
               snap : Seq(Byte), batch : {<<>>} \cup Batches, rest : Seq(Byte),
               at : Nat, sync : BOOLEAN]

AckType == [at : Nat \ {0}, batch : Value, synced : BOOLEAN]

Contents ==
  /\ Good(file) /\ entries = Entries(file)
  /\ Good(disk) /\ stable = Len(Entries(disk))
  /\ Kept(disk, file)

Handles ==
  /\ handle \in [Procs -> HandleType]
  /\ \A p \in Procs : Knows(handle[p], file, entries)

Counters ==
  /\ acked \subseteq AckType
  /\ begun \in 0 .. MaxBatches /\ crashes \in 0 .. MaxCrashes

IInv == Contents /\ Handles /\ Counters

(* A log whose file holds what the disk has committed has its entries. *)
LEMMA KeptEntries ==
  ASSUME NEW kept, NEW log, Good(kept), Good(log), Kept(kept, log)
  PROVE  /\ CommittedEnd(kept) <= CommittedEnd(log)
         /\ Len(Entries(kept)) <= Len(Entries(log))
         /\ \A i \in 1 .. Len(Entries(kept)) : Entries(log)[i] = Entries(kept)[i]
<1> DEFINE end == CommittedEnd(kept)
           c == Prefix(kept, end)
<1>1. Fine(kept)
  BY GoodFacts
<1>2. CommittedEnd(c) = end /\ Entries(c) = Entries(kept) /\ end \in Nat
  BY <1>1, FineFacts, FineTyped
<1>3. end <= Len(log) /\ Prefix(log, end) = c
  BY Zenon DEF Kept
<1>4. Len(log) \in Nat
  BY GoodFacts
<1>5. end \in 0 .. Len(log)
  BY <1>2, <1>3, <1>4
<1> HIDE DEF c, end
<1>6. Begins(c, log)
  BY <1>3, <1>5, GoodFacts
<1> QED
  BY <1>2, <1>6 DEF Begins, end

(* The two keep their agreement when the log is cut behind it, or grows. *)
LEMMA KeptCut ==
  ASSUME NEW kept, NEW log, Good(kept), Good(log), Kept(kept, log),
         NEW k \in CommittedEnd(kept) .. Len(log)
  PROVE  Kept(kept, Prefix(log, k))
<1> DEFINE end == CommittedEnd(kept)
<1>1. Fine(kept) /\ log \in Seq(Byte) /\ Len(log) \in Nat
  BY GoodFacts
<1>2. end \in Nat
  BY <1>1, FineTyped
<1>3. k \in 0 .. Len(log) /\ end \in 0 .. k /\ end <= k
  BY <1>1, <1>2
<1>4. Len(Prefix(log, k)) = k /\ Prefix(Prefix(log, k), end) = Prefix(log, end)
  BY <1>1, <1>3, PrefixFacts
<1> QED
  BY <1>3, <1>4 DEF Kept

LEMMA KeptGrows ==
  ASSUME NEW kept, NEW log, Good(kept), Good(log), Kept(kept, log), NEW w \in Seq(Byte)
  PROVE  Kept(kept, log \o w)
<1> DEFINE end == CommittedEnd(kept)
<1>1. Fine(kept) /\ log \in Seq(Byte) /\ Len(log) \in Nat
  BY GoodFacts
<1>2. end \in Nat /\ end <= Len(log)
  BY <1>1, FineTyped DEF Kept
<1>3. Len(log \o w) = Len(log) + Len(w) /\ Len(w) \in Nat
  BY <1>1
<1>4. Prefix(log \o w, end) = Prefix(log, end)
  BY <1>1, <1>2, SliceInside DEF Prefix
<1> QED
  BY <1>1, <1>2, <1>3, <1>4 DEF Kept

LEMMA KeptItself ==
  ASSUME NEW log, Good(log)
  PROVE  Kept(log, log)
<1>1. Fine(log)
  BY GoodFacts
<1> QED
  BY <1>1, FineTyped DEF Kept

(* What a crash may leave of the file is behind what the disk has. *)
LEMMA SharedIs ==
  ASSUME Good(file), Good(disk), Kept(disk, file)
  PROVE  Shared \in CommittedEnd(disk) .. Len(file)
<1> DEFINE d == CommittedEnd(disk)
           n == Len(file)
           m == Len(disk)
           Same(k) == /\ k <= m /\ SubSeq(disk, 1, k) = SubSeq(file, 1, k)
           T == {k \in 0 .. n : Same(k)}
           Differs(k) == /\ k <= m /\ SubSeq(disk, 1, k) = SubSeq(file, 1, k)
                         /\ k < n /\ k < m => disk[k + 1] # file[k + 1]
<1>1. file \in Seq(Byte) /\ disk \in Seq(Byte) /\ n \in Nat /\ m \in Nat /\ Fine(disk)
  BY GoodFacts
<1>2. d \in Nat /\ d <= m /\ d <= n
  BY <1>1, FineTyped DEF Kept
<1>3. \A i \in 1 .. d : disk[i] = file[i]
  <2>1. SubSeq(file, 1, d) = SubSeq(disk, 1, d)
    <3>1. Prefix(file, d) = Prefix(disk, d)
      BY Zenon DEF Kept
    <3> HIDE DEF d
    <3>2. SubSeq(file, 0 + 1, d) = SubSeq(disk, 0 + 1, d)
      BY <3>1, Zenon DEF Prefix, Slice
    <3>3. 0 + 1 = 1
      OBVIOUS
    <3> QED
      BY <3>2, <3>3
  <2>2. \A i \in 1 .. d : SubSeq(file, 1, d)[i] = file[i] /\ SubSeq(disk, 1, d)[i] = disk[i]
    <3> HIDE DEF d
    <3> QED
      BY <1>1, <1>2
  <2> QED
    BY <2>1, <2>2
<1>4. \E k \in 0 .. n : Differs(k)
  <2>1. 0 \in T
    BY <1>1
  <2>2. T \subseteq Nat /\ \A k \in T : k <= n
    BY <1>1
  <2>3. PICK k \in T : \A j \in T : j <= k
    <3> HIDE DEF T, n
    <3>1. T # {}
      BY <2>1
    <3>2. Max(T) \in T /\ \A j \in T : j <= Max(T)
      BY <1>1, <2>2, <3>1, MaxNat
    <3> QED
      BY <3>2
  <2>4. k \in Nat /\ k <= n /\ k <= m /\ SubSeq(disk, 1, k) = SubSeq(file, 1, k)
    BY <1>1, <2>3
  <2>5. ASSUME k < n, k < m, disk[k + 1] = file[k + 1] PROVE FALSE
    <3>1. \A i \in 1 .. k : disk[i] = file[i]
      <4>1. \A i \in 1 .. k : SubSeq(disk, 1, k)[i] = disk[i] /\ SubSeq(file, 1, k)[i] = file[i]
        BY <1>1, <2>4
      <4> QED
        BY <2>4, <4>1
    <3>2. \A i \in 1 .. (k + 1) : disk[i] = file[i]
      BY <2>4, <2>5, <3>1
    <3>3. SubSeq(disk, 1, k + 1) = SubSeq(file, 1, k + 1)
      <4>1. /\ SubSeq(disk, 1, k + 1) \in Seq(Byte) /\ Len(SubSeq(disk, 1, k + 1)) = k + 1
            /\ SubSeq(file, 1, k + 1) \in Seq(Byte) /\ Len(SubSeq(file, 1, k + 1)) = k + 1
        BY <1>1, <2>4, <2>5
      <4>2. \A i \in 1 .. (k + 1) : /\ SubSeq(disk, 1, k + 1)[i] = disk[i]
                                    /\ SubSeq(file, 1, k + 1)[i] = file[i]
        BY <1>1, <2>4, <2>5
      <4> QED
        BY <3>2, <4>1, <4>2, SameSeq
    <3>4. k + 1 \in T
      BY <1>1, <2>4, <2>5, <3>3
    <3>5. k + 1 <= k
      BY <2>3, <3>4
    <3> QED
      BY <2>4, <3>5
  <2> QED
    BY <1>1, <2>4, <2>5
<1>5. Shared \in 0 .. n /\ Differs(Shared)
  <2>1. Shared = CHOOSE k \in 0 .. n : Differs(k)
    BY Zenon DEF Shared
  <2> HIDE DEF Differs, n
  <2> QED
    BY <1>4, <2>1
<1> DEFINE k == Shared
<1>6. k \in 0 .. n /\ Differs(k)
  BY <1>5
<1> HIDE DEF k
<1>7. ~(k < d)
  <2> SUFFICES ASSUME k < d PROVE FALSE
    OBVIOUS
  <2>1. k + 1 \in 1 .. d /\ k < n /\ k < m
    BY <1>1, <1>2, <1>6
  <2>2. disk[k + 1] # file[k + 1]
    BY <1>6, <2>1
  <2>3. disk[k + 1] = file[k + 1]
    <3> HIDE DEF d
    <3> QED
      BY <1>3, <2>1
  <2> QED
    BY <2>2, <2>3
<1>8. k \in d .. n
  BY <1>1, <1>2, <1>6, <1>7
<1> QED
  BY <1>8 DEF k
-----------------------------------------------------------------------------
(***************************************************************************)
(* Every step keeps the invariant, and is one of AtomicLog or none of it.  *)
(***************************************************************************)
Stutters == UNCHANGED <<entries, stable, acked>>

Implements == Promise!Next \/ Stutters

LEMMA ClosedIs ==
  /\ Closed \in HandleType /\ Closed.pc = "closed" /\ Closed.sync = FALSE
  /\ \A log, list : Knows(Closed, log, list)
<1>1. <<>> \in Seq(Byte) /\ 0 \in Nat
  OBVIOUS
<1>2. Closed \in HandleType /\ Closed.pc = "closed" /\ Closed.sync = FALSE
  BY <1>1 DEF Closed, HandleType
<1> QED
  BY <1>2 DEF Knows

LEMMA OpenedIs ==
  ASSUME NEW h, h.sync \in BOOLEAN
  PROVE  /\ Opened(h) \in HandleType /\ Opened(h).pc = "ready"
         /\ \A log, list : Clean(log) => Knows(Opened(h), log, list)
<1>1. <<>> \in Seq(Byte) /\ 0 \in Nat
  OBVIOUS
<1>2. Opened(h) \in HandleType /\ Opened(h).pc = "ready"
  BY <1>1 DEF Opened, Closed, HandleType
<1> QED
  BY <1>2 DEF Knows

LEMMA AfterErrorIs ==
  ASSUME NEW h, h.sync \in BOOLEAN, OneWriter
  PROVE  /\ AfterError(h) \in HandleType
         /\ \A log, list : Knows(AfterError(h), log, list)
<1>1. <<>> \in Seq(Byte) /\ 0 \in Nat
  OBVIOUS
<1>2. AfterError(h) \in HandleType /\ AfterError(h).pc = "given up"
  BY <1>1 DEF AfterError, Closed, HandleType, OneWriter
<1> QED
  BY <1>2 DEF Knows

(* The handles after a step of one process that leaves it with handle h. *)
LEMMA HandlesNext ==
  ASSUME OneWriter, handle \in [Procs -> HandleType],
         NEW p \in Procs, NEW h \in HandleType,
         handle' = [handle EXCEPT ![p] = h], Knows(h, file', entries')
  PROVE  Handles'
<1>1. handle' \in [Procs -> HandleType]
  OBVIOUS
<1>2. \A q \in Procs : q = p
  BY DEF OneWriter
<1>3. \A q \in Procs : handle'[q] = h
  BY <1>2
<1>4. \A q \in Procs : Knows(handle'[q], file', entries')
  BY <1>3, Zenon
<1> QED
  BY <1>1, <1>4 DEF Handles

(* What a handle keeps, in each state. *)
LEMMA HandleFacts ==
  ASSUME IInv, NEW p \in Procs
  PROVE  /\ handle \in [Procs -> HandleType]
         /\ handle[p] \in HandleType /\ handle[p].sync \in BOOLEAN
         /\ Knows(handle[p], file, entries)
         /\ Contents /\ Counters
<1>1. handle \in [Procs -> HandleType] /\ Knows(handle[p], file, entries) /\ Contents /\ Counters
  BY DEF IInv, Handles
<1>2. handle[p] \in HandleType
  BY <1>1
<1> QED
  BY <1>1, <1>2 DEF HandleType

LEMMA OpenReadStep ==
  ASSUME IInv, OneWriter, NEW p \in Procs, NEW sync \in BOOLEAN, OpenRead(p, sync)
  PROVE  IInv' /\ Implements
<1> DEFINE h == [Closed EXCEPT !.pc = "repairing", !.snap = file, !.sync = sync]
<1>1. /\ handle' = [handle EXCEPT ![p] = h]
      /\ UNCHANGED <<onFile, onDisk, acked, begun, crashes>>
  BY DEF OpenRead
<1>2. UNCHANGED <<file, entries, disk, stable, acked, begun, crashes>>
  BY <1>1 DEF onFile, onDisk
<1>3. file \in Seq(Byte)
  BY HandleFacts, GoodFacts DEF Contents
<1>4. h \in HandleType /\ h.pc = "repairing" /\ h.snap = file
  BY <1>3, ClosedIs DEF Closed, HandleType
<1> HIDE DEF h
<1>5. Knows(h, file', entries')
  BY <1>2, <1>4 DEF Knows
<1>6. Handles'
  BY <1>1, <1>4, <1>5, HandleFacts, HandlesNext
<1>7. Contents' /\ Counters'
  BY <1>2, HandleFacts DEF Contents, Counters
<1> QED
  BY <1>2, <1>6, <1>7 DEF IInv, Implements, Stutters

(* A repair leaves the file clean, with the entries it had. *)
LEMMA RepairLeaves ==
  ASSUME NEW log, Good(log)
  PROVE  LET end == CommittedEnd(log)
             kept == Prefix(log, end)
         IN  /\ end \in Nat /\ end <= Len(log) /\ Truncated(log, end) = kept
             /\ Good(kept) /\ Clean(kept) /\ Entries(kept) = Entries(log)
<1> DEFINE end == CommittedEnd(log)
<1>1. Fine(log) /\ log \in Seq(Byte)
  BY GoodFacts
<1>2. end \in Nat /\ end <= Len(log)
  BY <1>1, FineTyped
<1>3. Clean(Prefix(log, end)) /\ Entries(Prefix(log, end)) = Entries(log) /\ end \in 0 .. Len(log)
  BY <1>1, FineFacts
<1> HIDE DEF end
<1>4. Good(Prefix(log, end))
  BY <1>3, GoodPrefix
<1>5. Truncated(log, end) = Prefix(log, end)
  BY <1>2, Zenon DEF Truncated, Prefix
<1> QED
  BY <1>2, <1>3, <1>4, <1>5 DEF end

LEMMA OpenRepairStep ==
  ASSUME IInv, OneWriter, NEW p \in Procs, OpenRepair(p)
  PROVE  IInv' /\ Implements
<1> DEFINE h == Opened(handle[p])
           end == CommittedEnd(file)
<1>1. /\ handle[p].pc = "repairing"
      /\ IF TornTail(handle[p].snap, Scan(handle[p].snap).committedEnd)
         THEN SetFile(Truncated(file, Scan(handle[p].snap).committedEnd))
         ELSE UNCHANGED onFile
      /\ handle' = [handle EXCEPT ![p] = h]
      /\ UNCHANGED <<onDisk, acked, begun, crashes>>
  BY DEF OpenRepair
<1>2. handle[p].snap = file
  BY <1>1, HandleFacts DEF Knows
<1>3. UNCHANGED <<disk, stable, acked, begun, crashes>>
  BY <1>1 DEF onDisk
<1>4. /\ Good(file) /\ entries = Entries(file) /\ Good(disk) /\ stable = Len(Entries(disk))
      /\ Kept(disk, file)
  BY HandleFacts DEF Contents
<1>5. /\ Good(file') /\ Clean(file') /\ entries' = Entries(file') /\ entries' = entries
      /\ Kept(disk, file')
  <2>1. CASE TornTail(file, end)
    <3>1. file' = Truncated(file, end) /\ entries' = Entries(Truncated(file, end))
      BY <1>1, <1>2, <2>1 DEF SetFile, CommittedEnd
    <3>2. /\ Truncated(file, end) = Prefix(file, end) /\ Good(Prefix(file, end))
          /\ Clean(Prefix(file, end)) /\ Entries(Prefix(file, end)) = Entries(file)
          /\ end \in Nat /\ end <= Len(file)
      BY <1>4, RepairLeaves
    <3>3. Kept(disk, Prefix(file, end))
      <4>1. CommittedEnd(disk) <= end
        BY <1>4, KeptEntries
      <4>2. CommittedEnd(disk) \in Nat /\ Len(file) \in Nat
        BY <1>4, GoodFacts, FineTyped
      <4>3. end \in CommittedEnd(disk) .. Len(file)
        BY <3>2, <4>1, <4>2
      <4> QED
        BY <1>4, <4>3, KeptCut
    <3> QED
      BY <1>4, <3>1, <3>2, <3>3
  <2>2. CASE ~TornTail(file, end)
    <3>1. file' = file /\ entries' = entries
      BY <1>1, <1>2, <2>2 DEF onFile, CommittedEnd
    <3>2. Clean(file)
      BY <1>4, <2>2, GoodFacts, FineFacts
    <3> QED
      BY <1>4, <3>1, <3>2
  <2> QED
    BY <2>1, <2>2
<1>6. h \in HandleType /\ Knows(h, file', entries')
  BY <1>5, HandleFacts, OpenedIs
<1> HIDE DEF h
<1>7. Handles'
  BY <1>1, <1>6, HandleFacts, HandlesNext
<1>8. Contents' /\ Counters'
  BY <1>3, <1>4, <1>5, HandleFacts DEF Contents, Counters
<1> QED
  BY <1>3, <1>5, <1>7, <1>8 DEF IInv, Implements, Stutters

(* The steps that only leave the process with another handle. *)
LEMMA HandleStep ==
  ASSUME IInv, OneWriter, NEW p \in Procs, NEW h \in HandleType,
         handle' = [handle EXCEPT ![p] = h], Knows(h, file, entries),
         UNCHANGED <<onFile, onDisk, acked>>,
         begun' \in 0 .. MaxBatches, crashes' \in 0 .. MaxCrashes
  PROVE  IInv' /\ Implements
<1>1. UNCHANGED <<file, entries, disk, stable, acked>>
  BY DEF onFile, onDisk
<1>2. Knows(h, file', entries')
  BY <1>1
<1>3. Handles'
  BY <1>2, HandleFacts, HandlesNext
<1>4. Contents' /\ Counters'
  BY <1>1, HandleFacts DEF Contents, Counters
<1> QED
  BY <1>1, <1>3, <1>4 DEF IInv, Implements, Stutters

LEMMA CountersTyped ==
  ASSUME IInv
  PROVE  begun \in 0 .. MaxBatches /\ crashes \in 0 .. MaxCrashes
BY DEF IInv, Counters

LEMMA OpenFailsStep ==
  ASSUME IInv, OneWriter, NEW p \in Procs, OpenFails(p)
  PROVE  IInv' /\ Implements
BY HandleStep, ClosedIs, CountersTyped DEF OpenFails

LEMMA CloseStep ==
  ASSUME IInv, OneWriter, NEW p \in Procs, Close(p)
  PROVE  IInv' /\ Implements
BY HandleStep, ClosedIs, CountersTyped DEF Close

LEMMA KillStep ==
  ASSUME IInv, OneWriter, NEW p \in Procs, Kill(p)
  PROVE  IInv' /\ Implements
<1>1. crashes' \in 0 .. MaxCrashes
  BY CountersTyped, BoundsAssumption DEF Kill
<1> QED
  BY <1>1, HandleStep, ClosedIs, CountersTyped DEF Kill

LEMMA OpenWriterStep ==
  ASSUME IInv, OneWriter, NEW p \in Procs, OpenWriter(p)
  PROVE  IInv' /\ Implements
<1>1. Clean(file)
  <2>1. ~TornTail(file, CommittedEnd(file))
    BY DEF OpenWriter, CommittedEnd
  <2>2. Good(file)
    BY HandleFacts DEF Contents
  <2> QED
    BY <2>1, <2>2, GoodFacts, FineFacts
<1>2. Opened(Closed) \in HandleType /\ Knows(Opened(Closed), file, entries)
  <2>1. Closed.sync \in BOOLEAN
    BY ClosedIs
  <2> QED
    BY <1>1, <2>1, OpenedIs
<1> QED
  BY <1>2, HandleStep, CountersTyped DEF OpenWriter

LEMMA WriteFailsStep ==
  ASSUME IInv, OneWriter, NEW p \in Procs, WriteFails(p)
  PROVE  IInv' /\ Implements
<1>1. AfterError(handle[p]) \in HandleType /\ Knows(AfterError(handle[p]), file, entries)
  BY HandleFacts, AfterErrorIs
<1> QED
  BY <1>1, HandleStep, CountersTyped DEF WriteFails

LEMMA SyncFailsStep ==
  ASSUME IInv, OneWriter, NEW p \in Procs, SyncFails(p)
  PROVE  IInv' /\ Implements
<1>1. AfterError(handle[p]) \in HandleType /\ Knows(AfterError(handle[p]), file, entries)
  BY HandleFacts, AfterErrorIs
<1> QED
  BY <1>1, HandleStep, CountersTyped DEF SyncFails

LEMMA BatchStep ==
  ASSUME IInv, OneWriter, NEW p \in Procs, NEW b \in Batches, Batch(p, b)
  PROVE  IInv' /\ Implements
<1> DEFINE h == [handle[p] EXCEPT !.pc = "writing", !.batch = b, !.rest = b]
<1>1. /\ handle[p].pc = "ready" /\ begun < MaxBatches /\ begun' = begun + 1
      /\ handle' = [handle EXCEPT ![p] = h]
      /\ UNCHANGED <<onFile, onDisk, acked, crashes>>
  BY HandleFacts DEF Batch
<1>2. b \in Seq(Byte) /\ Len(b) \in Nat /\ Len(b) > 0
  BY BatchFacts
<1>3. h \in HandleType /\ h.pc = "writing" /\ h.batch = b /\ h.rest = b
  <2>1. handle[p] \in HandleType
    BY HandleFacts
  <2> QED
    BY <1>2, <2>1 DEF HandleType
<1>4. begun' \in 0 .. MaxBatches /\ crashes' \in 0 .. MaxCrashes
  BY <1>1, CountersTyped, BoundsAssumption
<1>5. Writing(file, b, b)
  <2>1. Clean(file) /\ Good(file)
    BY <1>1, HandleFacts DEF Knows, Contents
  <2>2. file \in Seq(Byte) /\ Prefix(file, Len(file)) = file /\ Len(file) \in Nat
    BY <2>1, GoodFacts
  <2>3. Prefix(b, 0) = <<>>
    BY <1>2 DEF Prefix, Slice
  <2>4. file = file \o <<>>
    BY <2>2
  <2>5. Slice(b, 0, Len(b)) = b
    BY <1>2, SliceWhole
  <2>6. 0 \in 0 .. (Len(b) - 1) /\ Len(file) \in 0 .. Len(file)
    BY <1>2, <2>2
  <2> QED
    BY <2>1, <2>2, <2>3, <2>4, <2>5, <2>6 DEF Writing
<1> HIDE DEF h
<1>6. Knows(h, file, entries)
  BY <1>3, <1>5 DEF Knows
<1> QED
  BY <1>1, <1>3, <1>4, <1>6, HandleStep

(* What a system call writes is the next part of the batch. *)
LEMMA NextPart ==
  ASSUME NEW b \in Seq(Byte), NEW m \in 0 .. Len(b), NEW n \in 1 .. (Len(b) - m)
  PROVE  LET rest == Slice(b, m, Len(b)) IN
         /\ Len(rest) = Len(b) - m
         /\ SubSeq(rest, 1, n) \in Seq(Byte)
         /\ Prefix(b, m) \o SubSeq(rest, 1, n) = Prefix(b, m + n)
         /\ SubSeq(rest, n + 1, Len(rest)) = Slice(b, m + n, Len(b))
<1> DEFINE k == Len(b)
           rest == Slice(b, m, k)
           c == Prefix(b, m + n)
           written == SubSeq(rest, 1, n)
           left == SubSeq(rest, n + 1, k - m)
<1>0. /\ k \in Nat /\ m \in Nat /\ n \in Nat /\ n > 0 /\ m <= k /\ m + n \in Nat /\ m + n <= k
      /\ k - m \in Nat /\ n <= k - m /\ (m + n) - m = n /\ (k - m) - n = k - (m + n)
      /\ k - (m + n) \in Nat
  OBVIOUS
<1>1. /\ rest \in Seq(Byte) /\ Len(rest) = k - m
      /\ \A q \in 1 .. (k - m) : rest[q] = b[m + q]
  <2>1. m <= k /\ k <= Len(b) /\ m \in Nat /\ k \in Nat
    BY <1>0
  <2> QED
    BY <2>1, PartIs
<1>2. /\ c \in Seq(Byte) /\ Len(c) = m + n
      /\ \A q \in 1 .. (m + n) : c[q] = b[q]
  <2>1. 0 \in Nat /\ 0 <= m + n /\ m + n <= Len(b) /\ m + n \in Nat
    BY <1>0
  <2>2. /\ Slice(b, 0, m + n) \in Seq(Byte) /\ Len(Slice(b, 0, m + n)) = (m + n) - 0
        /\ \A q \in 1 .. ((m + n) - 0) : Slice(b, 0, m + n)[q] = b[0 + q]
    BY <2>1, PartIs
  <2>3. (m + n) - 0 = m + n /\ \A q \in 1 .. (m + n) : 0 + q = q
    BY <1>0
  <2> QED
    BY <2>2, <2>3 DEF Prefix
<1>3. c = Slice(c, 0, m) \o Slice(c, m, m + n)
  <2>1. m <= Len(c)
    BY <1>0, <1>2
  <2> HIDE DEF c
  <2> QED
    BY <1>0, <1>2, <2>1, SliceSplits
<1>4. Slice(c, 0, m) = Prefix(b, m)
  <2>1. m + n \in Nat /\ m + n <= Len(b) /\ m \in Nat /\ m <= m + n
    BY <1>0
  <2>2. Slice(Slice(b, 0, m + n), 0, m) = Slice(b, 0, m)
    BY <2>1, SliceOfPrefix
  <2> QED
    BY <2>2 DEF Prefix
<1> HIDE DEF k, rest, c
<1>5. /\ written \in Seq(Byte) /\ Len(written) = n
      /\ \A q \in 1 .. n : written[q] = rest[q]
  BY <1>0, <1>1
<1> HIDE DEF written
<1>6. Slice(c, m, m + n) = written
  <2>1. m <= m + n /\ m + n <= Len(c)
    BY <1>0, <1>2
  <2>2. /\ Slice(c, m, m + n) \in Seq(Byte) /\ Len(Slice(c, m, m + n)) = (m + n) - m
        /\ \A q \in 1 .. ((m + n) - m) : Slice(c, m, m + n)[q] = c[m + q]
    BY <1>0, <1>2, <2>1, PartIs, Zenon
  <2> DEFINE d == Slice(c, m, m + n)
  <2>3. d \in Seq(Byte) /\ Len(d) = n /\ \A q \in 1 .. n : d[q] = c[m + q]
    BY <1>0, <2>2
  <2> HIDE DEF d
  <2>4. \A q \in 1 .. n : d[q] = written[q]
    <3> TAKE q \in 1 .. n
    <3>1. m + q \in 1 .. (m + n) /\ q \in 1 .. (k - m)
      BY <1>0
    <3> QED
      BY <1>1, <1>2, <1>5, <2>3, <3>1
  <2>5. d = written
    BY <1>5, <2>3, <2>4, SameSeq
  <2> QED
    BY <2>5 DEF d
<1>7. left = Slice(b, m + n, k)
  <2>1. /\ left \in Seq(Byte) /\ Len(left) = (k - m) - n
        /\ \A q \in 1 .. ((k - m) - n) : left[q] = rest[n + q]
    BY <1>0, <1>1
  <2>2. m + n <= k /\ k <= Len(b)
    BY <1>0 DEF k
  <2>3. /\ Slice(b, m + n, k) \in Seq(Byte) /\ Len(Slice(b, m + n, k)) = k - (m + n)
        /\ \A q \in 1 .. (k - (m + n)) : Slice(b, m + n, k)[q] = b[(m + n) + q]
    BY <1>0, <2>2, PartIs, Zenon
  <2> DEFINE d == Slice(b, m + n, k)
  <2> HIDE DEF d, left
  <2>4. \A q \in 1 .. (k - (m + n)) : left[q] = d[q]
    <3> TAKE q \in 1 .. (k - (m + n))
    <3>1. n + q \in 1 .. (k - m) /\ m + (n + q) = (m + n) + q /\ q \in 1 .. ((k - m) - n)
      BY <1>0
    <3>2. d[q] = b[(m + n) + q]
      BY <2>3 DEF d
    <3> QED
      BY <1>1, <2>1, <3>1, <3>2
  <2>5. d \in Seq(Byte) /\ Len(d) = k - (m + n)
    BY <2>3 DEF d
  <2>6. left = d
    BY <1>0, <2>1, <2>4, <2>5, SameSeq
  <2> QED
    BY <2>6 DEF d, left
<1> QED
  BY <1>1, <1>3, <1>4, <1>5, <1>6, <1>7 DEF written, c, rest, k

LEMMA ConcatAssociates ==
  ASSUME NEW r \in Seq(Byte), NEW s \in Seq(Byte), NEW t \in Seq(Byte)
  PROVE  (r \o s) \o t = r \o (s \o t)
OBVIOUS

(* The file and the entries after a write. *)
LEMMA WriteLeaves ==
  ASSUME NEW log, Good(log), NEW b \in Batches, NEW rest, Writing(log, b, rest),
         NEW n \in 1 .. Len(rest)
  PROVE  LET now == log \o SubSeq(rest, 1, n)
             left == SubSeq(rest, n + 1, Len(rest))
         IN  /\ SubSeq(rest, 1, n) \in Seq(Byte) /\ left \in Seq(Byte)
             /\ Good(now)
             /\ n < Len(rest) => Entries(now) = Entries(log) /\ Writing(now, b, left)
             /\ n = Len(rest) => /\ Clean(now)
                                 /\ Entries(now) = Append(Entries(log), BatchData(b))
<1>1. PICK k \in 0 .. Len(log), m \in 0 .. (Len(b) - 1) :
        /\ Good(Prefix(log, k)) /\ Clean(Prefix(log, k))
        /\ log = Prefix(log, k) \o Prefix(b, m)
        /\ rest = Slice(b, m, Len(b))
  BY DEF Writing
<1> DEFINE base == Prefix(log, k)
           written == SubSeq(rest, 1, n)
           left == SubSeq(rest, n + 1, Len(rest))
           now == log \o written
<1>2. b \in Seq(Byte) /\ Len(b) \in Nat /\ Len(b) > 0 /\ Prefix(b, Len(b)) = b
  BY BatchFacts
<1>3. log \in Seq(Byte) /\ Len(log) \in Nat
  BY GoodFacts
<1>4. base \in Seq(Byte) /\ Len(base) = k /\ k \in Nat /\ Prefix(base, k) = base
  <2>1. base \in Seq(Byte) /\ Len(base) = k
    BY <1>3, PrefixFacts
  <2> HIDE DEF base
  <2> QED
    BY <2>1, SliceWhole DEF Prefix
<1>5. m \in Nat /\ m < Len(b) /\ m \in 0 .. Len(b)
  BY <1>2
<1>6. Len(rest) = Len(b) - m /\ n \in 1 .. (Len(b) - m) /\ n \in Nat
  <2>1. 1 \in 1 .. (Len(b) - m)
    BY <1>2, <1>5
  <2>2. Len(rest) = Len(b) - m
    BY <1>1, <1>2, <1>5, <2>1, NextPart
  <2> QED
    BY <2>2
<1>7. /\ written \in Seq(Byte)
      /\ Prefix(b, m) \o written = Prefix(b, m + n)
      /\ left = Slice(b, m + n, Len(b))
  BY <1>1, <1>2, <1>5, <1>6, NextPart
<1>8. Prefix(b, m) \in Seq(Byte)
  BY <1>5, BatchFacts
<1> HIDE DEF base, written, left
<1>9. now = base \o Prefix(b, m + n)
  <2>1. log = base \o Prefix(b, m)
    BY <1>1 DEF base
  <2>2. (base \o Prefix(b, m)) \o written = base \o (Prefix(b, m) \o written)
    BY <1>4, <1>7, <1>8, ConcatAssociates
  <2> QED
    BY <1>7, <2>1, <2>2
<1>10. m + n \in 0 .. Len(b) /\ (n < Len(rest) <=> m + n < Len(b)) /\ (n = Len(rest) <=> m + n = Len(b))
  BY <1>2, <1>5, <1>6
<1>11. Good(base) /\ Clean(base)
  BY <1>1 DEF base
<1>12. left \in Seq(Byte)
  <2> DEFINE from == m + n
  <2>1. b \in Seq(Byte) /\ Len(b) \in Nat /\ from \in Nat /\ from <= Len(b)
    BY <1>2, <1>10, BatchFacts
  <2> HIDE DEF from
  <2>2. Slice(b, from, Len(b)) \in Seq(Byte)
    BY SMTT(60), <2>1, PartIs
  <2> QED
    BY <1>7, <2>2 DEF from
<1>13. Good(now)
  BY <1>9, <1>10, <1>11, GoodExtends
<1>14. Entries(log) = Entries(base)
  <2>1. log = base \o Prefix(b, m)
    BY <1>1 DEF base
  <2>2. Entries(base \o Prefix(b, m)) = Entries(base)
    BY <1>5, <1>11, BatchAppended
  <2> QED
    BY <2>1, <2>2
<1>15. CASE m + n < Len(b)
  <2>1. Entries(now) = Entries(base)
    BY <1>9, <1>10, <1>11, <1>15, BatchAppended
  <2>2. Prefix(now, k) = base
    <3>1. Prefix(base \o Prefix(b, m + n), k) = Prefix(base, k)
      <4>1. Prefix(b, m + n) \in Seq(Byte)
        BY <1>10, BatchFacts
      <4>2. 0 \in Nat /\ k <= Len(base)
        BY <1>4
      <4> QED
        BY <1>4, <4>1, <4>2, SliceInside DEF Prefix
    <3> QED
      BY <1>4, <1>9, <3>1
  <2>3. k \in 0 .. Len(now)
    <3>1. Len(now) = Len(log) + Len(written) /\ Len(written) \in Nat
      BY <1>3, <1>7
    <3> QED
      BY <1>3, <3>1
  <2>4. m + n \in 0 .. (Len(b) - 1)
    BY <1>2, <1>10, <1>15
  <2> HIDE DEF now
  <2>5. Writing(now, b, left)
    BY <1>7, <1>9, <1>11, <2>2, <2>3, <2>4 DEF Writing
  <2>6. ~(m + n = Len(b))
    BY <1>2, <1>15
  <2> QED
    BY <1>7, <1>10, <1>12, <1>13, <1>14, <1>15, <2>1, <2>5, <2>6 DEF now, written, left
<1>16. CASE m + n = Len(b)
  <2>1. Clean(now) /\ Entries(now) = Append(Entries(base), BatchData(b))
    BY <1>9, <1>10, <1>11, <1>16, BatchAppended
  <2>2. ~(m + n < Len(b))
    BY <1>2, <1>16
  <2> HIDE DEF now
  <2> QED
    BY <1>7, <1>10, <1>12, <1>13, <1>14, <1>16, <2>1, <2>2 DEF now, written, left
<1>17. m + n < Len(b) \/ m + n = Len(b)
  BY <1>2, <1>10
<1> QED
  BY <1>15, <1>16, <1>17

LEMMA CommitIsNext ==
  ASSUME NEW b \in Batches, entries' = Append(entries, BatchData(b)), stable' = stable, acked' = acked
  PROVE  Promise!Next
<1>1. BatchData(b) \in {BatchData(a) : a \in Batches}
  OBVIOUS
<1>2. Promise!Commit(BatchData(b))
  BY DEF Promise!Commit
<1> QED
  BY <1>1, <1>2 DEF Promise!Next

LEMMA WriteStep ==
  ASSUME IInv, OneWriter, NEW p \in Procs, NEW n \in 1 .. Len(handle[p].rest), Write(p, n)
  PROVE  IInv' /\ Implements
<1> DEFINE b == handle[p].batch
           rest == handle[p].rest
           now == file \o SubSeq(rest, 1, n)
           left == SubSeq(rest, n + 1, Len(rest))
           pc == IF n = Len(rest) THEN "written" ELSE "writing"
           at == IF n = Len(rest) THEN Len(Entries(now)) ELSE 0
           h == [handle[p] EXCEPT !.rest = left, !.pc = pc, !.at = at]
<1>1. /\ handle[p].pc = "writing"
      /\ file' = now /\ entries' = Entries(now)
      /\ handle' = [handle EXCEPT ![p] = h]
      /\ UNCHANGED <<disk, stable, acked, begun, crashes>>
  BY HandleFacts DEF Write, CanWrite, SetFile, onDisk
<1>2. /\ Good(file) /\ entries = Entries(file) /\ Good(disk) /\ stable = Len(Entries(disk))
      /\ Kept(disk, file)
  BY HandleFacts DEF Contents
<1>3. b \in Batches /\ Writing(file, b, rest)
  BY <1>1, HandleFacts DEF Knows
<1>4. handle[p] \in HandleType
  BY HandleFacts
<1>5. rest \in Seq(Byte) /\ Len(rest) \in Nat
  <2>1. rest \in Seq(Byte)
    BY <1>4 DEF HandleType
  <2> HIDE DEF rest
  <2> QED
    BY <2>1
<1> HIDE DEF b, rest
<1>6. n \in 1 .. Len(rest)
  BY DEF rest
<1>7. /\ SubSeq(rest, 1, n) \in Seq(Byte) /\ left \in Seq(Byte)
      /\ Good(now)
      /\ n < Len(rest) => Entries(now) = Entries(file) /\ Writing(now, b, left)
      /\ n = Len(rest) => /\ Clean(now)
                          /\ Entries(now) = Append(Entries(file), BatchData(b))
  BY <1>2, <1>3, <1>6, WriteLeaves
<1>8. Kept(disk, now)
  BY <1>2, <1>7, KeptGrows
<1>9. Contents'
  <2> HIDE DEF now
  <2> QED
    BY <1>1, <1>2, <1>7, <1>8 DEF Contents
<1>10. Entries(file) \in Seq(Value) /\ Len(Entries(file)) \in Nat
  BY <1>2, GoodFacts, FineTyped
<1>11. BatchData(b) \in Value
  BY <1>3 DEF Value
<1>12. n = Len(rest) \/ (n < Len(rest) /\ n # Len(rest))
  BY <1>5, <1>6
<1>13. at \in Nat
  <2>1. Fine(now)
    BY <1>7, GoodFacts
  <2> HIDE DEF now
  <2>2. Len(Entries(now)) \in Nat
    BY <2>1, FineTyped
  <2> QED
    BY <2>2
<1> HIDE DEF now, left
<1>14. /\ h \in HandleType /\ h.batch = b /\ h.rest = left /\ h.pc = pc /\ h.at = at
  <2>1. pc \in {"closed", "repairing", "ready", "writing", "written", "given up"}
    OBVIOUS
  <2> HIDE DEF at, pc
  <2> QED
    BY <1>4, <1>7, <1>13, <2>1 DEF HandleType, b
<1>15. Knows(h, now, Entries(now))
  <2>1. CASE n < Len(rest) /\ n # Len(rest)
    <3>1. h.pc = "writing"
      BY <1>14, <2>1
    <3> HIDE DEF h
    <3> QED
      BY <1>3, <1>7, <1>14, <2>1, <3>1 DEF Knows
  <2>2. CASE n = Len(rest)
    <3>1. h.pc = "written" /\ h.at = Len(Entries(now))
      BY <1>14, <2>2
    <3>2. /\ Len(Entries(now)) \in 1 .. Len(Entries(now))
          /\ Entries(now)[Len(Entries(now))] = BatchData(b)
      BY <1>7, <1>10, <1>11, <2>2
    <3> HIDE DEF h
    <3> QED
      BY <1>3, <1>7, <1>14, <2>2, <3>1, <3>2 DEF Knows
  <2> QED
    BY <1>12, <2>1, <2>2
<1> HIDE DEF h
<1>16. Handles'
  BY <1>1, <1>14, <1>15, HandleFacts, HandlesNext
<1>17. Counters'
  BY <1>1, HandleFacts DEF Counters
<1>18. Implements
  <2>1. CASE n < Len(rest)
    BY <1>1, <1>2, <1>7, <2>1 DEF Implements, Stutters
  <2>2. CASE n = Len(rest)
    <3>1. entries' = Append(entries, BatchData(b))
      BY <1>1, <1>2, <1>7, <2>2
    <3> QED
      BY <1>1, <1>3, <3>1, CommitIsNext DEF Implements
  <2> QED
    BY <1>12, <2>1, <2>2
<1> QED
  BY <1>9, <1>16, <1>17, <1>18 DEF IInv

LEMMA ReturnStep ==
  ASSUME IInv, OneWriter, NEW p \in Procs, Return(p)
  PROVE  IInv' /\ Implements
<1> DEFINE g == handle[p]
           h == Opened(g)
           ack == [at |-> g.at, batch |-> BatchData(g.batch), synced |-> g.sync]
<1>1. /\ g.pc = "written"
      /\ IF g.sync THEN disk' = file /\ stable' = Len(Entries(file))
                   ELSE UNCHANGED <<disk, stable>>
      /\ acked' = acked \cup {ack}
      /\ handle' = [handle EXCEPT ![p] = h]
      /\ UNCHANGED <<file, entries, begun, crashes>>
  BY DEF Return, SetDisk, onDisk, onFile, Acks
<1>2. /\ Good(file) /\ entries = Entries(file) /\ Good(disk) /\ stable = Len(Entries(disk))
      /\ Kept(disk, file)
  BY HandleFacts DEF Contents
<1>3. /\ g.batch \in Batches /\ Clean(file)
      /\ g.at \in 1 .. Len(entries) /\ entries[g.at] = BatchData(g.batch)
  BY <1>1, HandleFacts DEF Knows
<1>4. g.sync \in BOOLEAN
  BY HandleFacts
<1>5. entries \in Seq(Value) /\ Len(entries) \in Nat
  BY <1>2, GoodFacts, FineTyped
<1>6. Handles'
  <2>1. h \in HandleType /\ Knows(h, file, entries)
    BY <1>3, <1>4, OpenedIs
  <2>2. Knows(h, file', entries')
    BY <1>1, <2>1
  <2> HIDE DEF h
  <2> QED
    BY <1>1, <2>1, <2>2, HandleFacts, HandlesNext
<1>7. Contents'
  <2>1. CASE g.sync
    <3>1. disk' = file /\ stable' = Len(Entries(file)) /\ file' = file /\ entries' = entries
      BY <1>1, <2>1
    <3>2. Kept(file, file)
      BY <1>2, KeptItself
    <3> QED
      BY <1>2, <3>1, <3>2 DEF Contents
  <2>2. CASE ~g.sync
    <3>1. UNCHANGED <<disk, stable, file, entries>>
      BY <1>1, <2>2
    <3> QED
      BY <1>2, <3>1 DEF Contents
  <2> QED
    BY <2>1, <2>2
<1>8. Counters'
  <2>1. ack \in AckType
    <3>1. g.at \in Nat \ {0}
      BY <1>3, <1>5
    <3>2. BatchData(g.batch) \in Value
      BY <1>3 DEF Value
    <3> HIDE DEF g
    <3> QED
      BY <1>4, <3>1, <3>2 DEF AckType
  <2> HIDE DEF ack
  <2> QED
    BY <1>1, <2>1, HandleFacts DEF Counters
<1>9. Promise!Next
  <2>1. stable' \in {stable, Len(entries)} /\ (g.sync => stable' = Len(entries))
    BY <1>1, <1>2
  <2>2. g.at \in DOMAIN entries
    BY <1>3, <1>5
  <2>3. g.sync => g.at <= stable'
    BY <1>3, <1>5, <2>1
  <2>4. acked' = acked \cup {[at |-> g.at, batch |-> entries[g.at], synced |-> g.sync]}
    BY <1>1, <1>3
  <2>5. entries' = entries
    BY <1>1
  <2> HIDE DEF g
  <2>6. Promise!Acknowledge(g.at, g.sync)
    BY <2>1, <2>3, <2>4, <2>5 DEF Promise!Acknowledge
  <2> QED
    BY <1>4, <2>2, <2>6 DEF Promise!Next
<1> QED
  BY <1>6, <1>7, <1>8, <1>9 DEF IInv, Implements

(* The machine stops: what is left has all that was stable, and nothing    *)
(* that was not an entry.                                                  *)
LEMMA SurvivorIs ==
  ASSUME Contents, NEW log \in Survivors
  PROVE  /\ Good(log) /\ Kept(log, log)
         /\ stable <= Len(Entries(log)) /\ Len(Entries(log)) <= Len(entries)
         /\ Entries(log) = SubSeq(entries, 1, Len(Entries(log)))
<1>1. /\ Good(file) /\ entries = Entries(file) /\ Good(disk) /\ stable = Len(Entries(disk))
      /\ Kept(disk, file)
  BY DEF Contents
<1>2. /\ Good(log) /\ stable <= Len(Entries(log)) /\ Len(Entries(log)) <= Len(entries)
      /\ \A i \in 1 .. Len(Entries(log)) : entries[i] = Entries(log)[i]
  <2>1. CASE log = disk
    <3>1. Len(Entries(disk)) \in Nat
      BY <1>1, GoodFacts, FineTyped
    <3> QED
      BY <1>1, <2>1, <3>1, KeptEntries
  <2>2. CASE \E k \in Shared .. Len(file) : log = Slice(file, 0, k)
    <3>1. PICK k \in Shared .. Len(file) : log = Prefix(file, k)
      BY <2>2 DEF Prefix
    <3>2. Shared \in CommittedEnd(disk) .. Len(file)
      BY <1>1, SharedIs
    <3>3. CommittedEnd(disk) \in Nat /\ Len(file) \in Nat
      BY <1>1, GoodFacts, FineTyped
    <3>4. k \in CommittedEnd(disk) .. Len(file) /\ k \in 0 .. Len(file)
      <4> DEFINE sh == Shared
      <4>1. sh \in CommittedEnd(disk) .. Len(file) /\ k \in sh .. Len(file)
        BY <3>1, <3>2
      <4> HIDE DEF sh
      <4> QED
        BY <3>3, <4>1
    <3>5. Good(log) /\ Begins(log, file)
      BY <1>1, <3>1, <3>4, GoodPrefix, GoodFacts
    <3>6. Kept(disk, log)
      BY <1>1, <3>1, <3>4, KeptCut
    <3>7. Len(Entries(disk)) <= Len(Entries(log))
      BY <1>1, <3>5, <3>6, KeptEntries
    <3> QED
      BY <1>1, <3>5, <3>7 DEF Begins
  <2> QED
    BY <2>1, <2>2 DEF Survivors
<1>3. Entries(log) \in Seq(Value) /\ entries \in Seq(Value)
  BY <1>1, <1>2, GoodFacts, FineTyped
<1>4. Entries(log) = SubSeq(entries, 1, Len(Entries(log)))
  <2> DEFINE e == Entries(log)
             m == Len(e)
             f == SubSeq(entries, 1, m)
  <2>1. e \in Seq(Value) /\ m \in Nat /\ m <= Len(entries) /\ m = Len(e)
    BY <1>2, <1>3
  <2> HIDE DEF e, m
  <2>2. f \in Seq(Value) /\ Len(f) = m /\ \A i \in 1 .. m : f[i] = entries[i]
    BY <1>3, <2>1
  <2>3. \A i \in 1 .. m : f[i] = e[i]
    BY <1>2, <2>2 DEF e, m
  <2> HIDE DEF f
  <2>4. e = f
    BY <2>1, <2>2, <2>3, SameSeq
  <2> QED
    BY <2>4 DEF e, f, m
<1> QED
  BY <1>2, <1>4, KeptItself

LEMMA CrashStep ==
  ASSUME IInv, OneWriter, Crash
  PROVE  IInv' /\ Implements
<1>1. Contents /\ Counters
  BY DEF IInv
<1>2. PICK log \in Survivors :
        /\ file' = log /\ entries' = Entries(log)
        /\ disk' = log /\ stable' = Len(Entries(log))
        /\ acked' = {a \in acked : a.synced \/ a.at <= Len(Entries(log))}
  BY DEF Crash, SetFile, SetDisk
<1>3. /\ crashes < MaxCrashes /\ crashes' = crashes + 1 /\ begun' = begun
      /\ handle' = [q \in Procs |-> Closed]
  BY DEF Crash
<1>4. /\ Good(log) /\ Kept(log, log)
      /\ stable <= Len(Entries(log)) /\ Len(Entries(log)) <= Len(entries)
      /\ Entries(log) = SubSeq(entries, 1, Len(Entries(log)))
  BY <1>1, SurvivorIs
<1>5. Contents'
  BY <1>2, <1>4 DEF Contents
<1>6. Handles'
  BY <1>3, ClosedIs DEF Handles
<1>7. Counters'
  <2>1. acked' \subseteq AckType
    BY <1>1, <1>2 DEF Counters
  <2>2. crashes' \in 0 .. MaxCrashes
    BY <1>1, <1>3, BoundsAssumption DEF Counters
  <2> QED
    BY <1>1, <1>3, <2>1, <2>2 DEF Counters
<1>8. Promise!Next
  <2> DEFINE k == Len(Entries(log))
  <2>1. k \in Nat
    BY <1>4, GoodFacts, FineTyped
  <2>2. Len(entries) \in Nat
    BY <1>1, GoodFacts, FineTyped DEF Contents
  <2>3. k \in 0 .. Len(entries)
    BY <1>4, <2>1, <2>2
  <2>4. /\ stable <= k /\ entries' = SubSeq(entries, 1, k) /\ stable' = k
        /\ acked' = {a \in acked : a.synced \/ a.at <= k}
    BY <1>2, <1>4
  <2> HIDE DEF k
  <2>5. Promise!Crash(k)
    BY <2>4 DEF Promise!Crash
  <2> QED
    BY <2>3, <2>5 DEF Promise!Next
<1> QED
  BY <1>5, <1>6, <1>7, <1>8 DEF IInv, Implements

LEMMA NextStep ==
  ASSUME IInv, OneWriter, [Next]_vars
  PROVE  IInv' /\ Implements
<1>1. CASE UNCHANGED vars
  <2>1. UNCHANGED <<file, entries, disk, stable, handle, acked, begun, crashes>>
    BY <1>1 DEF vars
  <2>2. Contents' /\ Counters'
    BY <2>1 DEF IInv, Contents, Counters
  <2>3. Handles'
    BY <2>1 DEF IInv, Handles
  <2> QED
    BY <2>1, <2>2, <2>3 DEF IInv, Implements, Stutters
<1>2. ASSUME NEW p \in Procs,
             \/ \E sync \in BOOLEAN : OpenRead(p, sync)
             \/ OpenRepair(p) \/ OpenFails(p) \/ OpenWriter(p)
             \/ \E b \in Batches : Batch(p, b)
             \/ \E n \in 1 .. Len(handle[p].rest) : Write(p, n)
             \/ WriteFails(p) \/ Return(p) \/ SyncFails(p) \/ Close(p) \/ Kill(p)
      PROVE  IInv' /\ Implements
  BY <1>2, OpenReadStep, OpenRepairStep, OpenFailsStep, OpenWriterStep, BatchStep, WriteStep,
     WriteFailsStep, ReturnStep, SyncFailsStep, CloseStep, KillStep
<1>3. CASE Crash
  BY <1>3, CrashStep
<1> QED
  BY <1>1, <1>2, <1>3 DEF Next

LEMMA InitHolds ==
  Init => IInv /\ Promise!Init
<1> SUFFICES ASSUME Init PROVE IInv /\ Promise!Init
  OBVIOUS
<1>1. /\ file = <<>> /\ entries = <<>> /\ disk = <<>> /\ stable = 0
      /\ handle = [p \in Procs |-> Closed] /\ acked = {} /\ begun = 0 /\ crashes = 0
  BY DEF Init
<1>2. Contents
  <2>1. Kept(<<>>, <<>>)
    BY EmptyIsGood, KeptItself
  <2> QED
    BY <1>1, <2>1, EmptyIsGood DEF Contents
<1>3. Handles
  BY <1>1, ClosedIs DEF Handles
<1>4. Counters
  BY <1>1, BoundsAssumption DEF Counters
<1> QED
  BY <1>1, <1>2, <1>3, <1>4 DEF IInv, Promise!Init
-----------------------------------------------------------------------------
LEMMA InvariantHolds ==
  ASSUME OneWriter
  PROVE  Spec => []IInv
<1>1. Init => IInv
  BY InitHolds
<1>2. IInv /\ [Next]_vars => IInv'
  BY NextStep
<1> QED
  BY <1>1, <1>2, PTL DEF Spec

(* One writer at a time: the file, the disk, the handles and the           *)
(* acknowledgements have their types, and no counter passes its bound.     *)
THEOREM TypeCorrect ==
  ASSUME OneWriter
  PROVE  Spec => []TypeOK
<1>1. IInv => TypeOK
  <2> SUFFICES ASSUME IInv PROVE TypeOK
    OBVIOUS
  <2>1. Contents /\ Handles /\ Counters
    BY DEF IInv
  <2>2. file \in Seq(Byte) /\ disk \in Seq(Byte) /\ entries \in Seq(Value) /\ stable \in Nat
    BY <2>1, GoodFacts, FineTyped DEF Contents
  <2>3. \A v \in Value : v \in Seq(Byte)
    <3> SUFFICES ASSUME NEW b \in Batches PROVE BatchData(b) \in Seq(Byte)
      BY DEF Value
    <3>1. Len(b) \in Nat /\ Len(b) > 0
      BY BatchFacts
    <3>2. Len(b) - 1 \in 0 .. Len(b)
      BY <3>1
    <3>3. Prefix(b, Len(b) - 1) \in Seq(Byte)
      BY <3>2, BatchFacts
    <3>4. Slice(b, 0, Len(b) - 1) \in Seq(Byte)
      BY <3>3 DEF Prefix
    <3> QED
      BY <3>4, DataIs DEF BatchData
  <2>4. entries \in Seq(Seq(Byte))
    BY <2>2, <2>3
  <2> QED
    BY <2>1, <2>2, <2>4 DEF TypeOK, Handles, Counters, HandleType, AckType, Value
<1> QED
  BY <1>1, InvariantHolds, PTL

(* One writer at a time: whatever it writes, wherever a write stops, an    *)
(* error occurs or the machine crashes, and however often the log is       *)
(* opened again, a FileLog is the log of atomic batches that AtomicLog     *)
(* describes.                                                              *)
THEOREM Refines ==
  ASSUME OneWriter
  PROVE  Spec => ImplementsAtomicLog
<1>1. Init => Promise!Init
  BY InitHolds
<1>2. IInv /\ [Next]_vars => [Promise!Next]_(Promise!logVars)
  BY NextStep DEF Implements, Stutters, Promise!logVars
<1> QED
  BY <1>1, <1>2, InvariantHolds, PTL DEF Spec, ImplementsAtomicLog, Promise!Spec

(* One writer at a time: a reader never gets a part of a batch, or parts   *)
(* of two, as an entry.  (With two writers it may: the run of two openers.)*)
THEOREM Atomic ==
  ASSUME OneWriter
  PROVE  Spec => []BatchesAreAtomic
<1>1. IInv => BatchesAreAtomic
  <2> SUFFICES ASSUME IInv PROVE BatchesAreAtomic
    OBVIOUS
  <2>1. entries \in Seq(Value)
    BY GoodFacts, FineTyped DEF IInv, Contents
  <2> QED
    BY <2>1 DEF BatchesAreAtomic, Value
<1> QED
  BY <1>1, InvariantHolds, PTL

(***************************************************************************)
(* What AtomicLog promises follows from it: the acknowledged batches are   *)
(* entries, the synced ones stable.  FileLog implements AtomicLog, and so  *)
(* promises the same of the entries that it shows.                         *)
(***************************************************************************)
(* The two that are inductive together: which entries a crash leaves       *)
(* depends on stable, which acknowledgements do on where they are.         *)
PromiseInv == Promise!TypeOK /\ Promise!AckedKept /\ Promise!AckedStable

LEMMA PromiseInitInv == Promise!Init => PromiseInv
  BY DEF Promise!Init, PromiseInv, Promise!TypeOK, Promise!AckedKept, Promise!AckedStable

LEMMA PromiseNextInv == PromiseInv /\ [Promise!Next]_(Promise!logVars) => PromiseInv'
<1> SUFFICES ASSUME PromiseInv, [Promise!Next]_(Promise!logVars) PROVE PromiseInv'
  OBVIOUS
<1> USE DEF Value, PromiseInv, Promise!TypeOK, Promise!AckedKept, Promise!AckedStable
<1>1. ASSUME NEW v \in Value, Promise!Commit(v) PROVE PromiseInv'
  <2>1. Promise!TypeOK'
    BY <1>1 DEF Promise!Commit
  <2>2. \A i \in DOMAIN entries : i \in DOMAIN entries' /\ entries'[i] = entries[i]
    BY <1>1 DEF Promise!Commit
  <2>3. Promise!AckedKept' /\ Promise!AckedStable'
    BY <1>1, <2>2 DEF Promise!Commit
  <2> QED BY <2>1, <2>3
<1>2. ASSUME Promise!Flush PROVE PromiseInv'
  BY <1>2 DEF Promise!Flush
<1>3. ASSUME NEW i \in DOMAIN entries, NEW synced \in BOOLEAN, Promise!Acknowledge(i, synced)
      PROVE  PromiseInv'
  <2>1. entries' = entries /\ entries[i] \in Value /\ i \in 1 .. Len(entries)
    BY <1>3 DEF Promise!Acknowledge
  <2>2. stable' \in 0 .. Len(entries) /\ stable <= stable'
    BY <1>3 DEF Promise!Acknowledge
  <2>3. acked' = acked \cup {[at |-> i, batch |-> entries[i], synced |-> synced]}
    BY <1>3 DEF Promise!Acknowledge
  <2>4. synced => i <= stable'
    BY <1>3 DEF Promise!Acknowledge
  <2>5. Promise!TypeOK' /\ Promise!AckedKept'
    BY <2>1, <2>2, <2>3
  <2>6. Promise!AckedStable'
    BY <2>2, <2>3, <2>4
  <2> QED BY <2>5, <2>6
<1>4. ASSUME NEW k \in 0 .. Len(entries), Promise!Crash(k) PROVE PromiseInv'
  <2>1. entries' = SubSeq(entries, 1, k) /\ Len(entries') = k
    BY <1>4 DEF Promise!Crash
  <2>2. \A i \in 1 .. k : entries'[i] = entries[i]
    BY <2>1
  <2>3. acked' = {a \in acked : a.synced \/ a.at <= k} /\ stable' = k
    BY <1>4 DEF Promise!Crash
  <2>4. Promise!TypeOK'
    BY <2>1, <2>2, <2>3
  <2>5. ASSUME NEW a \in acked' PROVE a \in acked /\ a.at \in 1 .. k
    <3>1. a \in acked /\ (a.synced \/ a.at <= k)
      BY <2>3
    <3>2. a.at \in 1 .. Len(entries) /\ (a.synced => a.at <= stable)
      BY <3>1
    <3>3. stable \in Nat /\ stable <= k
      BY <1>4 DEF Promise!Crash
    <3> QED BY <3>1, <3>2, <3>3
  <2>6. Promise!AckedKept'
    BY <2>1, <2>2, <2>5
  <2>7. Promise!AckedStable'
    BY <2>3, <2>5
  <2> QED BY <2>4, <2>6, <2>7
<1>5. CASE UNCHANGED Promise!logVars
  BY <1>5 DEF Promise!logVars
<1> QED BY <1>1, <1>2, <1>3, <1>4, <1>5 DEF Promise!Next, Value

LEMMA PromiseNextKeeps ==
  PromiseInv /\ [Promise!Next]_(Promise!logVars) =>
    [/\ SubSeq(entries', 1, stable) = SubSeq(entries, 1, stable)
     /\ Promise!Synced \subseteq acked']_(Promise!logVars)
<1> SUFFICES ASSUME PromiseInv, [Promise!Next]_(Promise!logVars)
             PROVE  /\ SubSeq(entries', 1, stable) = SubSeq(entries, 1, stable)
                    /\ Promise!Synced \subseteq acked'
  OBVIOUS
<1> USE DEF Value, PromiseInv, Promise!TypeOK, Promise!AckedKept, Promise!AckedStable, Promise!Synced
<1>1. ASSUME NEW v \in Value, Promise!Commit(v)
      PROVE  SubSeq(entries', 1, stable) = SubSeq(entries, 1, stable) /\ acked' = acked
  <2>1. \A i \in 1 .. stable : entries'[i] = entries[i]
    BY <1>1 DEF Promise!Commit
  <2> QED BY <1>1, <2>1 DEF Promise!Commit
<1>2. ASSUME NEW k \in 0 .. Len(entries), Promise!Crash(k)
      PROVE  /\ SubSeq(entries', 1, stable) = SubSeq(entries, 1, stable)
             /\ Promise!Synced \subseteq acked'
  <2>1. stable \in 0 .. k /\ entries' = SubSeq(entries, 1, k)
    BY <1>2 DEF Promise!Crash
  <2>2. SubSeq(entries', 1, stable) = SubSeq(entries, 1, stable)
    BY <2>1
  <2>3. \A a \in Promise!Synced : a.at <= k
    BY <2>1
  <2> QED BY <1>2, <2>2, <2>3 DEF Promise!Crash
<1>3. CASE Promise!Flush
  BY <1>3 DEF Promise!Flush
<1>4. ASSUME NEW i \in DOMAIN entries, NEW synced \in BOOLEAN, Promise!Acknowledge(i, synced)
      PROVE  entries' = entries /\ acked \subseteq acked'
  BY <1>4 DEF Promise!Acknowledge
<1>5. CASE UNCHANGED Promise!logVars
  BY <1>5 DEF Promise!logVars
<1> QED BY <1>1, <1>2, <1>3, <1>4, <1>5 DEF Promise!Next, Value

(* One writer at a time: AtomicLog's invariant, of a FileLog. *)
LEMMA PromiseHolds ==
  ASSUME OneWriter
  PROVE  Spec => []PromiseInv
<1>1. Init => PromiseInv
  BY InitHolds, PromiseInitInv
<1>2. IInv /\ [Next]_vars /\ PromiseInv => PromiseInv'
  <2>1. Implements => [Promise!Next]_(Promise!logVars)
    BY DEF Implements, Stutters, Promise!logVars
  <2> QED
    BY <2>1, NextStep, PromiseNextInv
<1> QED
  BY <1>1, <1>2, InvariantHolds, PTL DEF Spec

(* One writer at a time: a batch whose Batch returned nil is in the log,   *)
(* whole and in its place, whatever errors, crashes and repairs came after *)
(* it; a crash takes back only the word for batches that were not synced.  *)
THEOREM AckedSafe ==
  ASSUME OneWriter
  PROVE  Spec => []AckedKept
<1>1. PromiseInv => AckedKept
  BY DEF PromiseInv, AckedKept
<1> QED
  BY <1>1, PromiseHolds, PTL

(* One writer at a time: no step, a crash or a repair least of all,        *)
(* changes an entry that is on stable storage, and none takes back the     *)
(* acknowledgement of a synced batch.                                      *)
THEOREM CrashSafe ==
  ASSUME OneWriter
  PROVE  Spec => Promise!StableStays /\ Promise!AckedForever
<1>1. PromiseInv /\ [Promise!Next]_(Promise!logVars) =>
        [SubSeq(entries', 1, stable) = SubSeq(entries, 1, stable)]_(Promise!logVars)
  BY PromiseNextKeeps
<1>2. PromiseInv /\ [Promise!Next]_(Promise!logVars) =>
        [Promise!Synced \subseteq acked']_(Promise!logVars)
  BY PromiseNextKeeps
<1> QED
  BY <1>1, <1>2, PromiseHolds, Refines, PTL
  DEF ImplementsAtomicLog, Promise!Spec, Promise!StableStays, Promise!AckedForever
-----------------------------------------------------------------------------
(***************************************************************************)
(* The backward scan.  On any log its marks are among the ETBs that end a  *)
(* block, and on a log without damage they are the same; it stops behind   *)
(* the last one where the forward scan does if what follows is a code.     *)
(***************************************************************************)
Coded(log) ==
  \A p \in CommitMarks(log) :
    p + 1 < Len(log) => ~IsPlainByte(At(log, p + 1)) /\ ~IsLayout(At(log, p + 1))

MarksCoded == Coded(file) /\ Coded(disk)

(* Whether an ETB is a mark is decided by the bytes before it. *)
LEMMA MarksOfPrefix ==
  ASSUME NEW r \in Seq(Byte), NEW s \in Seq(Byte), NEW n \in Nat, n <= Len(r), n <= Len(s),
         \A i \in 0 .. (n - 1) : At(s, i) = At(r, i),
         NEW p \in CommitMarks(s), p < n
  PROVE  p \in CommitMarks(r)
<1>1. p \in 0 .. (Len(s) - 1) /\ At(s, p) = ETB /\ EvenRun(s, p)
  BY DEF CommitMarks
<1>2. p \in Nat /\ p \in 0 .. (n - 1) /\ p \in 0 .. (Len(r) - 1)
  BY <1>1
<1>3. PICK k \in 0 .. p : /\ k % 2 = 0
                          /\ \A i \in (p - k) .. (p - 1) : At(s, i) = DLE
                          /\ p - k = 0 \/ At(s, p - k - 1) # DLE
  BY <1>1 DEF EvenRun
<1>4. \A i \in (p - k) .. (p - 1) : At(r, i) = DLE
  <2> TAKE i \in (p - k) .. (p - 1)
  <2>1. i \in 0 .. (n - 1)
    BY <1>2
  <2> QED
    BY <1>3, <2>1
<1>5. p - k = 0 \/ At(r, p - k - 1) # DLE
  <2>1. p - k # 0 => p - k - 1 \in 0 .. (n - 1)
    BY <1>2
  <2> QED
    BY <1>3, <2>1
<1>6. EvenRun(r, p)
  BY <1>3, <1>4, <1>5 DEF EvenRun
<1> QED
  BY <1>1, <1>2, <1>6 DEF CommitMarks

LEMMA CodedPrefix ==
  ASSUME NEW log \in Seq(Byte), Coded(log), NEW k \in 0 .. Len(log)
  PROVE  Coded(Prefix(log, k))
<1> DEFINE c == Prefix(log, k)
<1>1. k \in Nat /\ k <= Len(log) /\ Len(log) \in Nat
  OBVIOUS
<1>2. /\ c \in Seq(Byte) /\ Len(c) = k
      /\ \A i \in 0 .. (k - 1) : At(c, i) = At(log, i)
  BY <1>1, PrefixIs, Zenon DEF Prefix
<1> HIDE DEF c
<1> SUFFICES ASSUME NEW p \in CommitMarks(c), p + 1 < k
             PROVE  ~IsPlainByte(At(c, p + 1)) /\ ~IsLayout(At(c, p + 1))
  BY <1>2 DEF Coded, c
<1>3. p \in Nat /\ p < k /\ p + 1 \in 0 .. (k - 1)
  BY <1>1 DEF CommitMarks
<1>4. p \in CommitMarks(log)
  BY <1>1, <1>2, <1>3, MarksOfPrefix
<1>5. p + 1 < Len(log)
  BY <1>1, <1>3
<1> QED
  BY <1>2, <1>3, <1>4, <1>5 DEF Coded

(* A batch begins with a code, and its only mark is its last byte. *)
LEMMA CodedAppended ==
  ASSUME NEW log, Good(log), Clean(log), Coded(log), NEW b \in Batches, NEW k \in 0 .. Len(b)
  PROVE  Coded(log \o Prefix(b, k))
<1> DEFINE u == Prefix(b, k)
           y == log \o u
           n == Len(log)
<1>1. /\ log \in Seq(Byte) /\ n \in Nat /\ Rests(Scan(log)) /\ Scan(log).pos = n
      /\ CommittedEnd(log) <= n /\ CommittedEnd(log) \in Nat
  BY CleanFacts
<1>2. /\ b \in Seq(Byte) /\ Len(b) \in Nat /\ IsBatch(b) /\ Prefix(b, Len(b)) = b
      /\ u \in Seq(Byte) /\ Len(u) = k /\ BeginsWithCode(u) /\ k \in Nat /\ k <= Len(b)
  BY BatchFacts
<1>3. /\ y \in Seq(Byte) /\ Len(y) = n + k
      /\ \A i \in 0 .. (n - 1) : At(y, i) = At(log, i)
      /\ \A i \in 0 .. (k - 1) : At(y, n + i) = At(u, i)
  BY <1>1, <1>2, AtConcat
<1> SUFFICES ASSUME NEW p \in CommitMarks(y), p + 1 < n + k
             PROVE  ~IsPlainByte(At(y, p + 1)) /\ ~IsLayout(At(y, p + 1))
  <2> HIDE DEF y
  <2> QED
    BY <1>3, Zenon DEF Coded, y
<1>4. p \in Nat
  BY DEF CommitMarks
<1>5. PICK i \in 1 .. Len(Scan(y).blocks) :
        Scan(y).blocks[i].stop = p /\ p < CommittedEnd(y)
  <2>1. Marked(y, Scan(y)) /\ Len(y) <= Scan(y).pos
    BY <1>3, ScanMarks
  <2>2. Scan(y).pos \in Nat
    <3>1. Scan(y) \in ScanType
      BY <1>3, ScanTyped
    <3> QED
      BY <3>1 DEF ScanType
  <2> HIDE DEF y
  <2>3. p < Scan(y).pos
    BY <1>1, <1>2, <1>3, <1>4, <2>1, <2>2
  <2> QED
    BY <2>1, <2>3 DEF Marked, CommittedEnd
<1>6. p < n
  <2>1. CASE k < Len(b)
    <3>1. CommittedEnd(y) = CommittedEnd(log)
      BY <2>1, BatchAppended
    <3> QED
      BY <1>1, <1>4, <1>5, <3>1
  <2>2. CASE k = Len(b)
    <3>1. u = b /\ y = log \o b
      BY <1>2, <2>2
    <3>2. BeginsWithCode(b)
      BY <1>2, <3>1
    <3>3. PICK j \in BlockStarts(b, n, Scan(log)) : Scan(y) = Committed(Scan(log), j, n + Len(b))
      BY <1>1, <1>2, <3>1, <3>2, BatchAppends
    <3> DEFINE m == Len(Scan(log).blocks)
               block == [start |-> j, stop |-> n + Len(b) - 1]
               blocks == Scan(log).blocks
    <3>4. Scan(y).blocks = Append(blocks, block)
      BY <3>3 DEF Committed
    <3>5. blocks \in Seq(BlockType) /\ block \in BlockType
      <4>1. n + Len(b) - 1 \in Nat
        BY <1>1, <1>2, <1>4, <2>2
      <4>2. Scan(log) \in ScanType /\ j \in Nat
        BY <1>1, ScanTyped DEF BlockStarts
      <4> QED
        BY <4>1, <4>2 DEF ScanType, BlockType
    <3> HIDE DEF blocks, block, y
    <3>6. i = m + 1 \/ (i \in 1 .. m /\ Scan(y).blocks[i] = blocks[i])
      BY <1>5, <3>4, <3>5 DEF blocks
    <3>7. CASE i = m + 1
      <4>1. Scan(y).blocks[m + 1] = block
        BY <3>4, <3>5 DEF blocks
      <4>2. p = n + Len(b) - 1
        BY <1>5, <3>7, <4>1 DEF block
      <4> QED
        BY <1>1, <1>2, <1>4, <2>2, <4>2
    <3>8. CASE i \in 1 .. m /\ Scan(y).blocks[i] = blocks[i]
      <4>1. Marked(log, Scan(log))
        BY <1>1, ScanMarks
      <4>2. blocks[i].stop < CommittedEnd(log)
        BY <3>8, <4>1 DEF Marked, CommittedEnd, blocks
      <4>3. p < CommittedEnd(log)
        BY <1>5, <3>8, <4>2
      <4> QED
        BY <1>1, <1>4, <4>3
    <3> QED
      BY <3>6, <3>7, <3>8
  <2> QED
    BY <1>2, <2>1, <2>2
<1> HIDE DEF y, u
<1>7. CASE p + 1 < n
  <2>1. p \in CommitMarks(log)
    <3>1. n <= Len(log) /\ n <= Len(y)
      BY <1>1, <1>2, <1>3
    <3> QED
      BY <1>1, <1>3, <1>6, <3>1, MarksOfPrefix
  <2>2. p + 1 \in 0 .. (n - 1)
    BY <1>1, <1>4, <1>7
  <2> QED
    BY <1>3, <1>7, <2>1, <2>2 DEF Coded
<1>8. CASE p + 1 = n
  <2>1. 0 \in 0 .. (k - 1) /\ n + 0 = p + 1 /\ u # <<>>
    BY <1>1, <1>2, <1>4, <1>8
  <2>2. At(y, p + 1) = At(u, 0)
    BY <1>3, <2>1
  <2> QED
    BY <1>2, <2>1, <2>2 DEF BeginsWithCode
<1> QED
  BY <1>1, <1>4, <1>6, <1>7, <1>8

LEMMA CodedWritten ==
  ASSUME NEW log, Good(log), Coded(log), NEW b \in Batches, NEW rest, Writing(log, b, rest),
         NEW n \in 1 .. Len(rest)
  PROVE  Coded(log \o SubSeq(rest, 1, n))
<1>1. PICK k \in 0 .. Len(log), m \in 0 .. (Len(b) - 1) :
        /\ Good(Prefix(log, k)) /\ Clean(Prefix(log, k))
        /\ log = Prefix(log, k) \o Prefix(b, m)
        /\ rest = Slice(b, m, Len(b))
  BY DEF Writing
<1> DEFINE base == Prefix(log, k)
           written == SubSeq(rest, 1, n)
<1>2. b \in Seq(Byte) /\ Len(b) \in Nat /\ m \in Nat /\ m < Len(b) /\ m \in 0 .. Len(b)
  BY BatchFacts
<1>3. Len(rest) = Len(b) - m /\ n \in 1 .. (Len(b) - m) /\ n \in Nat
  <2>1. 1 \in 1 .. (Len(b) - m)
    BY <1>2
  <2>2. Len(rest) = Len(b) - m
    BY <1>1, <1>2, <2>1, NextPart
  <2> QED
    BY <2>2
<1>4. written \in Seq(Byte) /\ Prefix(b, m) \o written = Prefix(b, m + n)
  BY <1>1, <1>2, <1>3, NextPart
<1>5. log \in Seq(Byte) /\ base \in Seq(Byte) /\ Prefix(b, m) \in Seq(Byte)
  BY <1>2, GoodFacts, PrefixFacts, BatchFacts
<1>6. Coded(base)
  BY <1>5, CodedPrefix
<1>7. m + n \in 0 .. Len(b)
  BY <1>2, <1>3
<1>8. Coded(base \o Prefix(b, m + n))
  BY <1>1, <1>6, <1>7, CodedAppended
<1> HIDE DEF base, written
<1>9. log = base \o Prefix(b, m)
  BY <1>1 DEF base
<1>10. (base \o Prefix(b, m)) \o written = base \o (Prefix(b, m) \o written)
  BY <1>4, <1>5, ConcatAssociates
<1>11. log \o written = base \o Prefix(b, m + n)
  BY <1>4, <1>9, <1>10
<1> QED
  BY <1>8, <1>11 DEF written

LEMMA CodedStep ==
  ASSUME IInv, OneWriter, MarksCoded, [Next]_vars
  PROVE  MarksCoded'
<1>1. /\ Good(file) /\ Good(disk) /\ Kept(disk, file)
      /\ file \in Seq(Byte) /\ disk \in Seq(Byte) /\ Coded(file) /\ Coded(disk)
  BY GoodFacts DEF IInv, Contents, MarksCoded
<1>2. CASE UNCHANGED <<file, disk>>
  BY <1>1, <1>2 DEF MarksCoded
<1>3. ASSUME NEW p \in Procs, OpenRepair(p)
      PROVE  MarksCoded'
  <2>1. handle[p].pc = "repairing" /\ disk' = disk
    BY <1>3 DEF OpenRepair, onDisk
  <2>2. handle[p].snap = file
    BY <2>1, HandleFacts DEF Knows
  <2>3. file' = file \/ file' = Truncated(file, CommittedEnd(file))
    BY <1>3, <2>2 DEF OpenRepair, SetFile, onFile, CommittedEnd
  <2>4. /\ CommittedEnd(file) \in 0 .. Len(file)
        /\ Truncated(file, CommittedEnd(file)) = Prefix(file, CommittedEnd(file))
    <3>1. /\ CommittedEnd(file) \in Nat /\ CommittedEnd(file) <= Len(file)
          /\ Truncated(file, CommittedEnd(file)) = Prefix(file, CommittedEnd(file))
      BY <1>1, RepairLeaves
    <3>2. Len(file) \in Nat
      BY <1>1
    <3> QED
      BY <3>1, <3>2
  <2>5. Coded(file')
    BY <1>1, <2>3, <2>4, CodedPrefix
  <2> QED
    BY <1>1, <2>1, <2>5 DEF MarksCoded
<1>4. ASSUME NEW p \in Procs, NEW n \in 1 .. Len(handle[p].rest), Write(p, n)
      PROVE  MarksCoded'
  <2>1. /\ handle[p].pc = "writing" /\ disk' = disk
        /\ file' = file \o SubSeq(handle[p].rest, 1, n)
    BY <1>4 DEF Write, CanWrite, SetFile, onDisk
  <2>2. handle[p].batch \in Batches /\ Writing(file, handle[p].batch, handle[p].rest)
    BY <2>1, HandleFacts DEF Knows
  <2>3. Coded(file')
    BY <1>1, <2>1, <2>2, CodedWritten
  <2> QED
    BY <1>1, <2>1, <2>3 DEF MarksCoded
<1>5. ASSUME NEW p \in Procs, Return(p)
      PROVE  MarksCoded'
  <2>1. file' = file /\ disk' \in {disk, file}
    BY <1>5 DEF Return, SetDisk, onFile, onDisk
  <2> QED
    BY <1>1, <2>1 DEF MarksCoded
<1>6. CASE Crash
  <2>1. PICK log \in Survivors : file' = log /\ disk' = log
    BY <1>6 DEF Crash, SetFile, SetDisk
  <2>2. CASE log = disk
    BY <1>1, <2>1, <2>2 DEF MarksCoded
  <2>3. CASE \E k \in Shared .. Len(file) : log = Slice(file, 0, k)
    <3>1. PICK k \in Shared .. Len(file) : log = Prefix(file, k)
      BY <2>3 DEF Prefix
    <3> DEFINE sh == Shared
    <3>2. sh \in CommittedEnd(disk) .. Len(file) /\ k \in sh .. Len(file)
      BY <1>1, <3>1, SharedIs
    <3>3. CommittedEnd(disk) \in Nat /\ Len(file) \in Nat
      BY <1>1, GoodFacts, FineTyped
    <3> HIDE DEF sh
    <3>4. k \in 0 .. Len(file)
      BY <3>2, <3>3
    <3>5. Coded(log)
      BY <1>1, <3>1, <3>4, CodedPrefix
    <3> QED
      BY <2>1, <3>5 DEF MarksCoded
  <2> QED
    BY <2>2, <2>3 DEF Survivors
<1>7. CASE UNCHANGED vars
  BY <1>2, <1>7 DEF vars
<1>8. ASSUME NEW p \in Procs,
             \/ \E sync \in BOOLEAN : OpenRead(p, sync)
             \/ OpenFails(p) \/ OpenWriter(p)
             \/ \E b \in Batches : Batch(p, b)
             \/ WriteFails(p) \/ SyncFails(p) \/ Close(p) \/ Kill(p)
      PROVE  UNCHANGED <<file, disk>>
  BY <1>8 DEF OpenRead, OpenFails, OpenWriter, Batch, WriteFails, SyncFails, Close, Kill,
              onFile, onDisk
<1> QED
  BY <1>2, <1>3, <1>4, <1>5, <1>6, <1>7, <1>8 DEF Next

LEMMA ScansAgree ==
  ASSUME NEW log, Good(log), Coded(log)
  PROVE  LastCommitEnd(log) = CommittedEnd(log)
<1> DEFINE end == CommittedEnd(log)
           kept == Prefix(log, end)
           s == Scan(kept)
           m == Len(s.blocks)
           n == Len(log)
<1>1. log \in Seq(Byte) /\ n \in Nat /\ Fine(log)
  BY GoodFacts
<1>2. end \in Nat /\ end <= n /\ end \in 0 .. n
  BY <1>1, FineTyped, FineFacts
<1>3. /\ kept \in Seq(Byte) /\ Len(kept) = end
      /\ \A i \in 0 .. (end - 1) : At(kept, i) = At(log, i)
  BY <1>1, <1>2, PrefixIs, Zenon DEF Prefix
<1>4. s.damaged = {} /\ s.committedEnd = end /\ s.pos = end
  <2>1. Clean(kept) /\ CommittedEnd(kept) = end
    BY <1>1, FineFacts
  <2> HIDE DEF kept, end
  <2> QED
    BY <1>3, <2>1, CleanFacts
<1> HIDE DEF end
<1>5. Marked(kept, s)
  BY <1>3, ScanMarks
<1>6. m \in Nat /\ \A i \in 1 .. m : s.blocks[i].stop \in Nat
  BY <1>3, ScanTyped
<1>7. \A p \in CommitMarks(log) : p < end
  <2> SUFFICES ASSUME NEW p \in CommitMarks(log) PROVE p < end
    OBVIOUS
  <2>1. Marked(log, Scan(log)) /\ Len(log) <= Scan(log).pos /\ Scan(log) \in ScanType
    BY <1>1, ScanMarks, ScanTyped
  <2>2. p \in Nat /\ p < Len(log) /\ Scan(log).pos \in Nat
    BY <1>1, <2>1 DEF CommitMarks, ScanType
  <2>3. p < Scan(log).pos
    BY <1>1, <2>1, <2>2
  <2> QED
    BY <2>1, <2>3 DEF Marked, CommittedEnd, end
<1>8. CommitMarks(log) = CommitMarks(kept)
  <2>1. \A p \in CommitMarks(log) : p \in CommitMarks(kept)
    <3> HIDE DEF kept
    <3> QED
      BY <1>1, <1>2, <1>3, <1>7, MarksOfPrefix
  <2>2. \A p \in CommitMarks(kept) : p \in CommitMarks(log)
    <3>1. \A p \in CommitMarks(kept) : p < end
      BY <1>2, <1>3 DEF CommitMarks
    <3> HIDE DEF kept
    <3> QED
      BY <1>1, <1>2, <1>3, <3>1, MarksOfPrefix
  <2> QED
    BY <2>1, <2>2
<1>9. CommitMarks(log) = {s.blocks[i].stop : i \in 1 .. m}
  <2>1. \A p \in CommitMarks(kept) : \E i \in 1 .. m : s.blocks[i].stop = p
    <3>1. \A p \in CommitMarks(kept) : p < s.pos
      BY <1>2, <1>3, <1>4 DEF CommitMarks
    <3> QED
      BY <1>5, <3>1 DEF Marked
  <2>2. \A i \in 1 .. m : s.blocks[i].stop \in CommitMarks(kept)
    BY <1>4, <1>5 DEF Marked
  <2> QED
    BY <1>8, <2>1, <2>2
<1> HIDE DEF kept, s, n
<1>10. CASE m = 0
  <2>1. CommitMarks(log) = {}
    BY <1>9, <1>10
  <2>2. end = 0
    BY <1>4, <1>5, <1>10 DEF Marked
  <2> QED
    BY <2>1, <2>2 DEF LastCommitEnd, end
<1>11. CASE m # 0
  <2> DEFINE last == s.blocks[m].stop
             marks == CommitMarks(log)
  <2>1. /\ last \in marks /\ last \in Nat
        /\ \A p \in marks : p \in Nat /\ p <= last
    <3>1. m \in 1 .. m
      BY <1>6, <1>11
    <3> QED
      BY <1>5, <1>6, <1>9, <3>1 DEF Marked
  <2>2. end = PayloadEnd(kept, last + 1)
    BY <1>4, <1>5, <1>11 DEF Marked
  <2>3. last < end
    BY <1>7, <2>1
  <2> HIDE DEF last, marks, m
  <2>4. marks # {} /\ Max(marks) = last
    <3>1. marks \subseteq Nat
      BY <2>1
    <3>2. Max(marks) \in marks /\ \A p \in marks : p <= Max(marks)
      BY <2>1, <3>1, MaxNat
    <3> DEFINE x == Max(marks)
    <3>3. x \in Nat /\ x <= last /\ last <= x
      BY <2>1, <3>2
    <3> HIDE DEF x
    <3>4. x = last
      BY <2>1, <3>3
    <3> QED
      BY <2>1, <3>4 DEF x
  <2>5. end = last + 1
    <3>1. CASE last + 1 < end
      <4>1. last + 1 \in Nat /\ last + 1 \in 0 .. (end - 1) /\ last + 1 < n
        BY <1>1, <1>2, <2>1, <3>1
      <4>2. ~IsPlainByte(At(log, last + 1)) /\ ~IsLayout(At(log, last + 1))
        BY <2>1, <4>1 DEF Coded, marks, n
      <4>3. At(kept, last + 1) = At(log, last + 1)
        BY <1>3, <4>1
      <4>4. PayloadEnd(kept, last + 1) = last + 1
        BY <1>3, <3>1, <4>1, <4>2, <4>3, PayloadAtCode
      <4> QED
        BY <2>2, <4>4
    <3>2. ~(last + 1 < end) => end = last + 1
      BY <1>2, <2>1, <2>3
    <3> QED
      BY <3>1, <3>2
  <2>6. ScanPlain(log, end, n) = end
    <3>1. end < n => ~IsPlainByte(At(log, end))
      BY <2>1, <2>5 DEF Coded, marks, n
    <3> QED
      BY <1>1, <1>2, <3>1, PlainAtCode
  <2>7. LastCommitEnd(log) = ScanPlain(log, last + 1, n)
    BY <2>4, Zenon DEF LastCommitEnd, marks, n
  <2> QED
    BY <2>5, <2>6, <2>7 DEF end
<1> QED
  BY <1>10, <1>11

(* One writer at a time: LastCommitEnd, which reads the log backward and   *)
(* knows no blocks, finds the committed end of the scan, on every log that *)
(* writes, failures, crashes and repairs leave.                            *)
THEOREM ScansMeet ==
  ASSUME OneWriter
  PROVE  Spec => []BackwardScanAgrees
<1>1. Init => MarksCoded
  <2> SUFFICES ASSUME Init PROVE Coded(<<>>)
    BY DEF Init, MarksCoded
  <2>1. CommitMarks(<<>>) = {}
    BY DEF CommitMarks
  <2> QED
    BY <2>1 DEF Coded
<1>2. IInv /\ MarksCoded /\ [Next]_vars => MarksCoded'
  BY CodedStep
<1>3. IInv /\ MarksCoded => BackwardScanAgrees
  BY ScansAgree DEF IInv, Contents, MarksCoded, BackwardScanAgrees, CommittedEnd
<1> QED
  BY <1>1, <1>2, <1>3, InvariantHolds, PTL DEF Spec
=============================================================================
