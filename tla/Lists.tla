-------------------------------- MODULE Lists --------------------------------
(***************************************************************************)
(* Lemmas about lists: folds from the left, concatenations, and the part   *)
(* of a list that passes a test.                                           *)
(***************************************************************************)
EXTENDS SequencesExt, SequenceTheorems, WellFoundedInduction, TLAPS

(* Folds.                                                                  *)

\* A set of naturals that is not empty has a least element.
LEMMA NatLeast ==
  ASSUME NEW T \in SUBSET Nat, T # {}
  PROVE  \E m \in T : \A x \in T : m <= x
<1> DEFINE Less == {ss \in Nat \X Nat : ss[1] < ss[2]}
<1>1. OpToRel(<, Nat) = Less
  BY DEF OpToRel
<1>2. IsWellFoundedOn(Less, Nat)
  BY NatLessThanWellFounded, <1>1
<1>3. PICK m \in T : \A x \in T : <<x, m>> \notin Less
  <2> HIDE DEF Less
  <2> QED
    BY <1>2, WFMin
<1>4. ASSUME NEW x \in T, ~(m <= x) PROVE FALSE
  <2>1. <<x, m>> \in Nat \X Nat /\ <<x, m>>[1] = x /\ <<x, m>>[2] = m /\ x < m
    BY <1>4
  <2>2. QED
    BY <1>3, <2>1
<1>5. QED
  BY <1>4

\* The maximum of a set of the indices of a list is in it and at least the others.
LEMMA Highest ==
  ASSUME NEW n \in Nat, NEW s \in SUBSET (1..n), s # {}
  PROVE  Max(s) \in s /\ \A x \in s : Max(s) >= x
<1> DEFINE T == {n - x : x \in s}
<1>1. T \in SUBSET Nat /\ T # {}
  <2>1. \A x \in s : n - x \in Nat
    OBVIOUS
  <2>2. QED
    BY <2>1
<1>2. PICK m \in T : \A x \in T : m <= x
  <2> HIDE DEF T
  <2> QED
    BY <1>1, NatLeast
<1>3. PICK y \in s : m = n - y
  OBVIOUS
<1>4. \A x \in s : y >= x
  <2>1. ASSUME NEW x \in s PROVE y >= x
    <3>1. n - x \in T /\ x \in Int /\ y \in Int
      OBVIOUS
    <3>2. n - y <= n - x
      BY <1>2, <1>3, <3>1
    <3>3. QED
      BY <3>1, <3>2
  <2>2. QED
    BY <2>1
<1>5. QED
  BY <1>4 DEF Max

\* A fold from the left with F, as the community modules define it: by recursion
\* on the indices that are left.
Folds(g, F, base, seq, n) ==
  g = [s \in SUBSET (1..n) |-> IF s = {} THEN base ELSE F[<<g[s \ {Max(s)}], seq[Max(s)]>>]]

\* There is such a function.
LEMMA Folding ==
  ASSUME NEW A, NEW B, NEW F \in [B \X A -> B], NEW base \in B, NEW seq \in Seq(A)
  PROVE  \E g \in [SUBSET (1..Len(seq)) -> B] : Folds(g, F, base, seq, Len(seq))
<1> DEFINE Solved(n) == \E g \in [SUBSET (1..n) -> B] : Folds(g, F, base, seq, n)
           T == {n \in 0..Len(seq) : ~Solved(n)}
<1>1. SUFFICES ASSUME T # {} PROVE FALSE
  <2>1. T = {} => Solved(Len(seq))
    <3>1. Len(seq) \in 0..Len(seq)
      OBVIOUS
    <3>2. QED
      BY <3>1
  <2>2. QED
    BY <2>1
<1>2. PICK n \in T : \A x \in T : n <= x
  <2>1. T \in SUBSET Nat
    OBVIOUS
  <2> HIDE DEF T
  <2>2. QED
    BY <1>1, <2>1, NatLeast
<1>3. CASE n = 0
  <2> DEFINE g == [s \in SUBSET (1..n) |-> base]
  <2>1. \A s \in SUBSET (1..n) : s = {}
    BY <1>3
  <2>2. g \in [SUBSET (1..n) -> B] /\ Folds(g, F, base, seq, n)
    BY <2>1 DEF Folds
  <2>3. QED
    BY <2>2
<1>4. CASE n # 0
  <2>1. n \in 1..Len(seq) /\ n - 1 \in 0..Len(seq) /\ ~(n <= n - 1)
    BY <1>4
  <2>2. Solved(n - 1)
    <3>1. n - 1 \notin T
      <4> HIDE DEF T
      <4> QED
        BY <1>2, <2>1
    <3>2. QED
      BY <2>1, <3>1
  <2>3. PICK f \in [SUBSET (1..(n - 1)) -> B] : Folds(f, F, base, seq, n - 1)
    BY <2>2
  <2> DEFINE g == [s \in SUBSET (1..n) |-> IF n \in s THEN F[<<f[s \ {n}], seq[n]>>] ELSE f[s]]
  <2>4. seq[n] \in A
    BY <2>1
  <2>5. ASSUME NEW s \in SUBSET (1..n)
        PROVE  /\ n \in s => s \ {n} \in SUBSET (1..(n - 1)) /\ Max(s) = n
               /\ n \notin s => s \in SUBSET (1..(n - 1))
    <3> HIDE DEF g, T, Solved
    <3>0. n \in Nat /\ n \in 1..n
      BY <2>1
    <3>1. \A x \in s : x = n \/ x \in 1..(n - 1)
      BY <2>1
    <3>2. ASSUME n \in s PROVE Max(s) = n
      <4>1. Max(s) \in s /\ Max(s) >= n
        BY <3>0, <3>2, Highest
      <4>2. Max(s) \in 1..n
        BY <4>1
      <4>3. QED
        BY <3>0, <4>1, <4>2
    <3>3. n \in s => s \ {n} \in SUBSET (1..(n - 1))
      BY <3>1
    <3>4. n \notin s => s \in SUBSET (1..(n - 1))
      BY <3>1
    <3>5. QED
      BY <3>2, <3>3, <3>4
  <2>6. g \in [SUBSET (1..n) -> B]
    BY <2>4, <2>5
  <2>7. ASSUME NEW s \in SUBSET (1..n)
        PROVE  g[s] = IF s = {} THEN base ELSE F[<<g[s \ {Max(s)}], seq[Max(s)]>>]
    <3>1. CASE n \in s
      <4>1. s # {} /\ s \ {n} \in SUBSET (1..n) /\ n \notin s \ {n} /\ Max(s) = n
        BY <2>5, <3>1
      <4>2. g[s \ {n}] = f[s \ {n}]
        BY <4>1
      <4>3. QED
        BY <3>1, <4>1, <4>2
    <3>2. CASE n \notin s
      <4>1. s \in SUBSET (1..(n - 1)) /\ g[s] = f[s]
        BY <2>5, <3>2
      <4>2. f[s] = IF s = {} THEN base ELSE F[<<f[s \ {Max(s)}], seq[Max(s)]>>]
        BY <2>3, <4>1 DEF Folds
      <4>3. s \ {Max(s)} \in SUBSET (1..n) /\ n \notin s \ {Max(s)}
        BY <3>2
      <4>4. g[s \ {Max(s)}] = f[s \ {Max(s)}]
        BY <4>3
      <4>5. QED
        BY <4>1, <4>2, <4>4
    <3>3. QED
      BY <3>1, <3>2
  <2>8. Folds(g, F, base, seq, n)
    <3>1. g = [s \in SUBSET (1..n) |-> g[s]]
      OBVIOUS
    <3> HIDE DEF g
    <3>2. QED
      BY <2>7, <3>1 DEF Folds
  <2>9. QED
    BY <2>6, <2>8
<1>5. QED
  BY <1>3, <1>4

\* The indices that such a fold has gone through are the first ones.
LEMMA FirstOnes ==
  ASSUME NEW n \in Nat, NEW k \in 1..n
  PROVE  /\ 1..k \in SUBSET (1..n) /\ 1..k # {}
         /\ Max(1..k) = k /\ (1..k) \ {k} = 1..(k - 1)
<1>1. 1..k \in SUBSET (1..n) /\ k \in 1..k
  OBVIOUS
<1>2. Max(1..k) \in 1..k /\ Max(1..k) >= k
  BY <1>1, Highest
<1>3. Max(1..k) = k
  BY <1>2
<1>4. (1..k) \ {k} = 1..(k - 1)
  OBVIOUS
<1>5. QED
  BY <1>1, <1>3, <1>4

\* What holds of 0 and passes from each number to the next holds up to n.
LEMMA Counting ==
  ASSUME NEW n \in Nat, NEW Q, 0 \in Q, \A k \in 1..n : k - 1 \in Q => k \in Q
  PROVE  \A k \in 0..n : k \in Q
<1> DEFINE T == {k \in 0..n : k \notin Q}
<1>1. SUFFICES ASSUME T # {} PROVE FALSE
  OBVIOUS
<1>2. PICK m \in T : \A x \in T : m <= x
  <2>1. T \in SUBSET Nat
    OBVIOUS
  <2> HIDE DEF T
  <2>2. QED
    BY <1>1, <2>1, NatLeast
<1>3. m \in 1..n /\ m - 1 \in 0..n /\ ~(m <= m - 1)
  OBVIOUS
<1>4. m - 1 \notin T
  <2> HIDE DEF T
  <2> QED
    BY <1>2, <1>3
<1>5. m - 1 \in Q
  BY <1>3, <1>4
<1>6. m \in Q
  BY <1>3, <1>5
<1>7. QED
  BY <1>6

\* c is such a fold as far as its results are in B, where F leads.
Runs(c, F, A, B, base, seq) ==
  /\ F \in [B \X A -> B] /\ base \in B /\ seq \in Seq(A)
  /\ c[{}] = base
  /\ \A s \in SUBSET (1..Len(seq)) : s # {} /\ c[s \ {Max(s)}] \in B =>
       c[s] = F[<<c[s \ {Max(s)}], seq[Max(s)]>>]

\* It goes through the list one by one, and stays in B.
LEMMA FoldSteps ==
  ASSUME NEW A, NEW B, NEW F, NEW base, NEW seq, NEW c, Runs(c, F, A, B, base, seq)
  PROVE  /\ c[1..0] = base
         /\ \A k \in 0..Len(seq) : c[1..k] \in B
         /\ \A k \in 1..Len(seq) : c[1..k] = F[<<c[1..(k - 1)], seq[k]>>]
<1> DEFINE n == Len(seq)
           Q == {k \in 0..n : c[1..k] \in B}
<1>1. n \in Nat /\ F \in [B \X A -> B] /\ \A k \in 1..n : seq[k] \in A
  BY DEF Runs
<1>a. c[{}] = base /\ base \in B
  BY DEF Runs
<1>b. \A s \in SUBSET (1..n) : s # {} /\ c[s \ {Max(s)}] \in B =>
        c[s] = F[<<c[s \ {Max(s)}], seq[Max(s)]>>]
  BY DEF Runs
<1> HIDE DEF n
<1>2. 1..0 = {}
  OBVIOUS
<1>3. ASSUME NEW k \in 1..n, c[1..(k - 1)] \in B
      PROVE  c[1..k] = F[<<c[1..(k - 1)], seq[k]>>] /\ c[1..k] \in B
  <2>1. 1..k \in SUBSET (1..n) /\ 1..k # {} /\ Max(1..k) = k /\ (1..k) \ {k} = 1..(k - 1)
    BY <1>1, FirstOnes
  <2>2. c[1..k] = F[<<c[1..(k - 1)], seq[k]>>]
    BY <1>b, <1>3, <2>1
  <2>3. QED
    BY <1>1, <1>3, <2>2
<1>4. \A k \in 0..n : k \in Q
  <2>1. 0 \in Q
    BY <1>1, <1>a, <1>2
  <2>2. ASSUME NEW k \in 1..n, k - 1 \in Q PROVE k \in Q
    <3>1. k \in 0..n
      BY <1>1
    <3>2. QED
      BY <1>3, <2>2, <3>1
  <2> HIDE DEF Q
  <2>3. QED
    BY <1>1, <2>1, <2>2, Counting
<1>5. \A k \in 0..n : c[1..k] \in B
  BY <1>4
<1>6. \A k \in 1..n : c[1..k] = F[<<c[1..(k - 1)], seq[k]>>]
  <2>1. ASSUME NEW k \in 1..n PROVE c[1..k] = F[<<c[1..(k - 1)], seq[k]>>]
    <3>1. k - 1 \in 0..n
      BY <1>1
    <3>2. QED
      BY <1>3, <1>5, <3>1
  <2>2. QED
    BY <2>1
<1>7. QED
  BY <1>a, <1>2, <1>5, <1>6 DEF n

-----------------------------------------------------------------------------
(* Concatenations.                                                         *)

\* The concatenation of lists over S, made list by list, stays in G: the
\* recursion of FlattenSeq has a solution, for the least length that had none
\* would have one, and every solution is made in this way.
LEMMA FlatteningKeeps ==
  ASSUME NEW S, NEW n \in Nat, NEW seqs \in [1..n -> Seq(S)], NEW G,
         \A s \in Seq(S) : Len(s) = 0 => <<0, s>> \in G,
         \A m \in 0..(n - 1) : \A s \in Seq(S) : <<m, s>> \in G => <<m + 1, s \o seqs[m + 1]>> \in G
  PROVE  <<n, FlattenSeq(seqs)>> \in G /\ FlattenSeq(seqs) \in Seq(S)
<1> DEFINE Solves(f, m) == f = [i \in 1..m |-> IF i = 1 THEN seqs[i] ELSE f[i - 1] \o seqs[i]]
           Less == {ss \in Nat \X Nat : ss[1] < ss[2]}
<1>1. OpToRel(<, Nat) = Less
  BY DEF OpToRel
<1>2. IsWellFoundedOn(Less, Nat)
  BY NatLessThanWellFounded, <1>1
<1>3. \A T \in SUBSET Nat : T # {} => \E m \in T : \A x \in T : m <= x
  <2>1. SUFFICES ASSUME NEW T \in SUBSET Nat, T # {} PROVE \E m \in T : \A x \in T : m <= x
    OBVIOUS
  <2>2. PICK m \in T : \A x \in T : <<x, m>> \notin Less
    <3> HIDE DEF Less
    <3> QED
      BY <1>2, <2>1, WFMin
  <2>3. ASSUME NEW x \in T, ~(m <= x) PROVE FALSE
    <3>1. <<x, m>> \in Nat \X Nat /\ <<x, m>>[1] = x /\ <<x, m>>[2] = m /\ x < m
      BY <2>3
    <3>2. QED
      BY <2>2, <3>1
  <2>4. QED
    BY <2>3
<1>4. \A m \in 1..n : \E f : Solves(f, m)
  <2> DEFINE T == {m \in 1..n : ~ \E f : Solves(f, m)}
  <2> HIDE DEF Solves
  <2>0. T \in SUBSET Nat
    OBVIOUS
  <2>1. SUFFICES ASSUME T # {} PROVE FALSE
    OBVIOUS
  <2>2. PICK m \in T : \A x \in T : m <= x
    <3> HIDE DEF T
    <3> QED
      BY <1>3, <2>0, <2>1
  <2>3. CASE m = 1
    <3>1. Solves([i \in 1..m |-> IF i = 1 THEN seqs[i] ELSE seqs[i]], m)
      BY <2>3 DEF Solves
    <3>2. QED
      BY <2>2, <3>1
  <2>4. CASE m # 1
    <3>0. m \in 1..n
      OBVIOUS
    <3>1. m \in 2..n /\ m - 1 \in 1..n /\ m - 1 \notin T
      <4> HIDE DEF T
      <4> QED
        BY <2>2, <2>4, <3>0
    <3>2. PICK f : Solves(f, m - 1)
      BY <3>1
    <3> DEFINE g == [i \in 1..m |-> IF i = m THEN f[m - 1] \o seqs[m] ELSE f[i]]
    <3>3. \A i \in 1..m : g[i] = IF i = 1 THEN seqs[i] ELSE g[i - 1] \o seqs[i]
      <4>1. SUFFICES ASSUME NEW i \in 1..m
                     PROVE  g[i] = IF i = 1 THEN seqs[i] ELSE g[i - 1] \o seqs[i]
        OBVIOUS
      <4>2. CASE i = m
        <5>1. m - 1 \in 1..m /\ m \in 1..m /\ m - 1 # m
          BY <3>1
        <5>2. g[m] = f[m - 1] \o seqs[m] /\ g[m - 1] = f[m - 1]
          BY <5>1
        <5>3. QED
          BY <2>4, <4>2, <5>2
      <4>3. CASE i # m
        <5>1. i \in 1..(m - 1)
          BY <3>1, <4>1, <4>3
        <5>2. f[i] = IF i = 1 THEN seqs[i] ELSE f[i - 1] \o seqs[i]
          BY <3>2, <5>1 DEF Solves
        <5>3. g[i] = f[i] /\ (i # 1 => g[i - 1] = f[i - 1])
          BY <3>1, <5>1
        <5>4. QED
          BY <5>2, <5>3
      <4>4. QED
        BY <4>2, <4>3
    <3>4. g = [i \in 1..m |-> g[i]]
      OBVIOUS
    <3>5. Solves(g, m)
      <4> HIDE DEF g
      <4> QED
        BY <3>3, <3>4 DEF Solves
    <3>6. QED
      BY <2>2, <3>5
  <2>5. QED
    BY <2>3, <2>4
<1>5. ASSUME NEW f, Solves(f, n)
      PROVE  \A i \in 1..n : f[i] \in Seq(S) /\ <<i, f[i]>> \in G
  <2> DEFINE T == {m \in 1..n : ~(f[m] \in Seq(S) /\ <<m, f[m]>> \in G)}
  <2>0. T \in SUBSET Nat
    OBVIOUS
  <2>1. SUFFICES ASSUME T # {} PROVE FALSE
    OBVIOUS
  <2>2. PICK m \in T : \A x \in T : m <= x
    <3> HIDE DEF T
    <3> QED
      BY <1>3, <2>0, <2>1
  <2>3. f[m] = IF m = 1 THEN seqs[m] ELSE f[m - 1] \o seqs[m]
    BY <1>5, <2>2
  <2>4. CASE m = 1
    <3>1. f[1] = seqs[1] /\ seqs[1] \in Seq(S) /\ n \in 1..n
      BY <2>2, <2>3, <2>4
    <3>2. PICK e \in Seq(S) : Len(e) = 0 /\ e \o seqs[1] = seqs[1]
      <4>1. <<>> \in Seq(S) /\ Len(<<>>) = 0 /\ <<>> \o seqs[1] = seqs[1]
        BY <3>1
      <4>2. QED
        BY <4>1
    <3>3. 0 \in 0..(n - 1) /\ 0 + 1 = 1
      BY <2>2, <2>4
    <3>4. <<0 + 1, e \o seqs[0 + 1]>> \in G
      BY <3>2, <3>3
    <3>5. QED
      BY <2>2, <2>4, <3>1, <3>2, <3>3, <3>4
  <2>5. CASE m # 1
    <3>1. m - 1 \in 1..n /\ m - 1 \notin T /\ m - 1 \in 0..(n - 1) /\ (m - 1) + 1 = m
      BY <2>2, <2>5
    <3>2. f[m - 1] \in Seq(S) /\ <<m - 1, f[m - 1]>> \in G /\ seqs[m] \in Seq(S)
      BY <2>2, <3>1
    <3>3. f[m - 1] \o seqs[m] \in Seq(S)
      BY <3>2
    <3>4. <<m, f[m - 1] \o seqs[m]>> \in G
      BY <3>1, <3>2
    <3>5. QED
      BY <2>2, <2>3, <2>5, <3>3, <3>4
  <2>6. QED
    BY <2>4, <2>5
<1>6. Len(seqs) = n
  OBVIOUS
<1>7. CASE n = 0
  <2>1. seqs \in Seq(S)
    BY <1>7
  <2>2. FlattenSeq(seqs) = seqs
    BY <1>6, <1>7 DEF FlattenSeq
  <2>3. <<0, seqs>> \in G
    BY <1>6, <1>7, <2>1
  <2>4. QED
    BY <1>7, <2>1, <2>2, <2>3
<1>8. CASE n # 0
  <2> DEFINE h == CHOOSE f : Solves(f, n)
  <2>1. FlattenSeq(seqs) = h[n]
    BY <1>6, <1>8 DEF FlattenSeq
  <2>2. Solves(h, n)
    <3> HIDE DEF Solves
    <3> QED
      BY <1>4, <1>8
  <2>3. QED
    <3> HIDE DEF Solves, h
    <3> QED
      BY <1>5, <1>8, <2>1, <2>2
<1>9. QED
  BY <1>7, <1>8

\* The concatenation of lists over S is a list over S.
LEMMA Flattening ==
  ASSUME NEW S, NEW n \in Nat, NEW seqs \in [1..n -> Seq(S)]
  PROVE  FlattenSeq(seqs) \in Seq(S)
<1> DEFINE G == Nat \X Seq(S)
<1>1. \A s \in Seq(S) : Len(s) = 0 => <<0, s>> \in G
  OBVIOUS
<1>2. \A m \in 0..(n - 1) : \A s \in Seq(S) : <<m, s>> \in G => <<m + 1, s \o seqs[m + 1]>> \in G
  <2>1. SUFFICES ASSUME NEW m \in 0..(n - 1), NEW s \in Seq(S)
                 PROVE  <<m + 1, s \o seqs[m + 1]>> \in G
    OBVIOUS
  <2>2. m + 1 \in 1..n
    OBVIOUS
  <2>3. seqs[m + 1] \in Seq(S) /\ m + 1 \in Nat
    BY <2>2
  <2>4. s \o seqs[m + 1] \in Seq(S)
    BY <2>3
  <2>5. QED
    BY <2>3, <2>4
<1> HIDE DEF G
<1>3. QED
  BY <1>1, <1>2, FlatteningKeeps

-----------------------------------------------------------------------------
(* Places in a list.                                                       *)

\* The minimum of a set of naturals is in it and at most the others.
LEMMA Lowest ==
  ASSUME NEW T \in SUBSET Nat, T # {}
  PROVE  Min(T) \in T /\ \A x \in T : Min(T) <= x
<1>1. \E m \in T : \A x \in T : m <= x
  BY NatLeast
<1>2. QED
  BY <1>1 DEF Min

\* What follows the element removed moves down by one.
LEMMA Removed ==
  ASSUME NEW S, NEW s \in Seq(S), NEW i \in 1..Len(s)
  PROVE  /\ RemoveAt(s, i) \in Seq(S) /\ Len(RemoveAt(s, i)) = Len(s) - 1
         /\ \A j \in 1..(Len(s) - 1) : RemoveAt(s, i)[j] = IF j < i THEN s[j] ELSE s[j + 1]
<1> DEFINE a == SubSeq(s, 1, i - 1)
           b == SubSeq(s, i + 1, Len(s))
<1>1. /\ a \in Seq(S) /\ Len(a) = i - 1
      /\ \A j \in 1..(i - 1) : a[j] = s[j]
  <2>1. 1 \in Int /\ i - 1 \in Int /\ \A j \in 1..(i - 1) : s[j] \in S
    OBVIOUS
  <2>2. /\ a \in Seq(S) /\ Len(a) = IF 1 <= i - 1 THEN (i - 1) - 1 + 1 ELSE 0
        /\ \A j \in 1..((i - 1) - 1 + 1) : a[j] = s[1 + j - 1]
    BY <2>1, SubSeqProperties
  <2>3. QED
    BY <2>2
<1>2. /\ b \in Seq(S) /\ Len(b) = Len(s) - i
      /\ \A j \in 1..(Len(s) - i) : b[j] = s[i + j]
  <2>1. i + 1 \in Int /\ Len(s) \in Int /\ \A j \in (i + 1)..Len(s) : s[j] \in S
    OBVIOUS
  <2>2. /\ b \in Seq(S) /\ Len(b) = IF i + 1 <= Len(s) THEN Len(s) - (i + 1) + 1 ELSE 0
        /\ \A j \in 1..(Len(s) - (i + 1) + 1) : b[j] = s[i + 1 + j - 1]
    BY <2>1, SubSeqProperties
  <2>3. Len(s) \in Nat
    OBVIOUS
  <2> HIDE DEF b
  <2>4. QED
    BY <2>2, <2>3
<1>3. RemoveAt(s, i) = a \o b
  BY DEF RemoveAt
<1> HIDE DEF a, b
<1>4. /\ a \o b \in Seq(S) /\ Len(a \o b) = Len(a) + Len(b)
      /\ \A j \in 1..(Len(a) + Len(b)) : (a \o b)[j] = IF j <= Len(a) THEN a[j] ELSE b[j - Len(a)]
  BY <1>1, <1>2, ConcatProperties
<1>5. Len(s) \in Nat /\ Len(a) + Len(b) = Len(s) - 1
  BY <1>1, <1>2
<1>6. ASSUME NEW j \in 1..(Len(s) - 1)
      PROVE  (a \o b)[j] = IF j < i THEN s[j] ELSE s[j + 1]
  <2>1. CASE j < i
    BY <1>1, <1>4, <1>5, <2>1
  <2>2. CASE ~(j < i)
    <3>1. (a \o b)[j] = b[j - (i - 1)] /\ j - (i - 1) \in 1..(Len(s) - i)
      BY <1>1, <1>4, <1>5, <2>2
    <3>2. b[j - (i - 1)] = s[i + (j - (i - 1))] /\ i + (j - (i - 1)) = j + 1
      BY <1>2, <3>1
    <3>3. QED
      BY <2>2, <3>1, <3>2
  <2>3. QED
    BY <2>1, <2>2
<1>7. QED
  BY <1>3, <1>4, <1>5, <1>6
=============================================================================
