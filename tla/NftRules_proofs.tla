---------------------------- MODULE NftRules_proofs ----------------------------
(***************************************************************************)
(* Proofs about NftRules for every number of tables, forwardings and other *)
(* programs, and every bound: types, and that the rules of other programs  *)
(* are neither deleted nor reordered.                                      *)
(*                                                                         *)
(* A batch is made of a snapshot that may be old when it is flushed.  So   *)
(* the proof says what a kernel cannot do between the two (Continues: give *)
(* a handle out again), what a batch may hold that was made of a snapshot, *)
(* whichever way the mutations went (Commands), and what such a command    *)
(* does to the kernel it meets (Goes).                                     *)
(***************************************************************************)
EXTENDS NftRules, Lists, FiniteSetTheorems

-----------------------------------------------------------------------------
(* The kernel.                                                             *)

Rules == [expr : Exprs, handle : Nat]
Chains == [name : Names, kind : Kinds, typed : BOOLEAN, rules : Seq(Rules)]
Sets == {SetName(Fwd[k], BaseName) : k \in Keys}
Kernels ==
  [tables : SUBSET Tables, chains : [Tables -> Seq(Chains)], next : [Tables -> Nat],
   loose : SUBSET (Tables \X Sets)]

\* Some chain of table t has the rule r.
In(k, t, r) ==
  \E i \in 1..Len(k.chains[t]) :
    \E j \in 1..Len(k.chains[t][i].rules) : k.chains[t][i].rules[j] = r

\* A handle is given out once, and the KERTICAL chain is not a base chain.
Orderly(k) ==
  /\ k \in Kernels
  /\ \A t \in Tables :
       /\ k.chains[t] # <<>> => t \in k.tables
       /\ \A i \in 1..Len(k.chains[t]) : k.chains[t][i].name = Own => k.chains[t][i].kind = "regular"
       /\ \A r : In(k, t, r) => r.handle <= k.next[t]
       /\ \A r, q : In(k, t, r) /\ In(k, t, q) /\ r.handle = q.handle => r = q

\* later has no rule that k had not, but for those with newer handles.
Continues(k, later) ==
  \A t \in Tables :
    /\ k.next[t] <= later.next[t]
    /\ \A r : In(later, t, r) /\ r.handle <= k.next[t] => In(k, t, r)

\* later has the base chains of k, with the rules of other programs.
Keeps(k, later) ==
  \A t \in Tables : \A i \in 1..Len(k.chains[t]) :
    k.chains[t][i].name # Own =>
      \E j \in NamedIn(later, t, k.chains[t][i].name) : Preserved(k, later, t, i, j)

\* How a command may change a kernel.
Goes(k, later) == Orderly(later) /\ Continues(k, later) /\ Keeps(k, later)

LEMMA Whereabouts ==
  ASSUME NEW k \in Kernels, NEW t \in Tables
  PROVE  /\ k.tables \in SUBSET Tables /\ k.chains \in [Tables -> Seq(Chains)]
         /\ k.next \in [Tables -> Nat] /\ k.loose \in SUBSET (Tables \X Sets)
         /\ k.next[t] \in Nat /\ k.chains[t] \in Seq(Chains) /\ Len(k.chains[t]) \in Nat
         /\ DOMAIN k.chains[t] = 1..Len(k.chains[t])
         /\ \A i \in 1..Len(k.chains[t]) :
              /\ k.chains[t][i] \in Chains /\ k.chains[t][i].name \in Names
              /\ k.chains[t][i].kind \in Kinds /\ k.chains[t][i].typed \in BOOLEAN
              /\ k.chains[t][i].rules \in Seq(Rules)
              /\ Len(k.chains[t][i].rules) \in Nat
              /\ DOMAIN k.chains[t][i].rules = 1..Len(k.chains[t][i].rules)
              /\ \A j \in 1..Len(k.chains[t][i].rules) : k.chains[t][i].rules[j] \in Rules
<1>1. /\ k.tables \in SUBSET Tables /\ k.chains \in [Tables -> Seq(Chains)]
      /\ k.next \in [Tables -> Nat] /\ k.loose \in SUBSET (Tables \X Sets)
  BY DEF Kernels
<1>2. k.next[t] \in Nat /\ k.chains[t] \in Seq(Chains)
  BY <1>1
<1>3. \A i \in 1..Len(k.chains[t]) : k.chains[t][i] \in Chains
  BY <1>2
<1>4. ASSUME NEW i \in 1..Len(k.chains[t])
      PROVE  /\ k.chains[t][i].name \in Names
             /\ k.chains[t][i].kind \in Kinds /\ k.chains[t][i].typed \in BOOLEAN
             /\ k.chains[t][i].rules \in Seq(Rules)
  BY <1>3 DEF Chains
<1>5. QED
  BY <1>1, <1>2, <1>3, <1>4

LEMMA InIsRule ==
  ASSUME NEW k \in Kernels, NEW t \in Tables, NEW r, In(k, t, r)
  PROVE  r \in Rules /\ r.expr \in Exprs /\ r.handle \in Nat
<1>1. PICK i \in 1..Len(k.chains[t]) : \E j \in 1..Len(k.chains[t][i].rules) : k.chains[t][i].rules[j] = r
  BY DEF In
<1>2. r \in Rules
  <2>1. PICK j \in 1..Len(k.chains[t][i].rules) : k.chains[t][i].rules[j] = r
    BY <1>1
  <2>2. k.chains[t][i].rules[j] \in Rules
    BY Whereabouts
  <2>3. QED
    BY <2>1, <2>2
<1>3. QED
  BY <1>2 DEF Rules

LEMMA SameRules ==
  ASSUME NEW k, NEW later, NEW t, later.chains[t] = k.chains[t]
  PROVE  \A r : In(later, t, r) <=> In(k, t, r)
BY DEF In

LEMMA SameChains ==
  ASSUME NEW k \in Kernels, NEW later, NEW t \in Tables, later.chains[t] = k.chains[t],
         NEW i \in 1..Len(k.chains[t])
  PROVE  \E j \in NamedIn(later, t, k.chains[t][i].name) : Preserved(k, later, t, i, j)
<1>1. i \in NamedIn(later, t, k.chains[t][i].name)
  BY Whereabouts DEF NamedIn
<1>2. Others(later, t, i) = Others(k, t, i)
  BY DEF Others
<1>3. Preserved(k, later, t, i, i)
  BY <1>2 DEF Preserved
<1>4. QED
  BY <1>1, <1>3

\* The rule new has the next handle in table t.
Fresh(k, later, t, new) == new.handle = k.next[t] + 1 /\ later.next[t] = k.next[t] + 1

\* A command that changes one table: the rules there were in it before, but for
\* one that gets a new handle.
LEMMA OneTable ==
  ASSUME NEW k, Orderly(k), NEW later \in Kernels, NEW t \in Tables, NEW new,
         k.tables \subseteq later.tables,
         \A u \in Tables \ {t} : later.chains[u] = k.chains[u] /\ later.next[u] = k.next[u],
         k.next[t] <= later.next[t],
         later.chains[t] # <<>> => t \in later.tables,
         \A i \in 1..Len(later.chains[t]) :
           later.chains[t][i].name = Own => later.chains[t][i].kind = "regular",
         \A r : In(later, t, r) =>
           In(k, t, r) \/ (r = new /\ Fresh(k, later, t, new)),
         \A i \in 1..Len(k.chains[t]) : k.chains[t][i].name # Own =>
           \E j \in NamedIn(later, t, k.chains[t][i].name) : Preserved(k, later, t, i, j)
  PROVE  Goes(k, later)
<1>1. k \in Kernels
  BY DEF Orderly
<1>2. Keeps(k, later)
  <2>1. SUFFICES ASSUME NEW u \in Tables, NEW i \in 1..Len(k.chains[u]), k.chains[u][i].name # Own
                 PROVE  \E j \in NamedIn(later, u, k.chains[u][i].name) : Preserved(k, later, u, i, j)
    BY DEF Keeps
  <2>2. CASE u = t
    BY <2>1, <2>2
  <2>3. CASE u # t
    <3>1. later.chains[u] = k.chains[u]
      BY <2>3
    <3>2. QED
      BY <1>1, <3>1, SameChains
  <2>4. QED
    BY <2>2, <2>3
<1>3. ASSUME NEW u \in Tables PROVE k.next[u] \in Nat /\ later.next[u] \in Nat
  BY <1>1, Whereabouts
<1>f. \A r : In(later, t, r) =>
        In(k, t, r) \/ (r = new /\ r.handle = k.next[t] + 1 /\ later.next[t] = k.next[t] + 1)
  BY DEF Fresh
<1>4. \A u \in Tables : \A r : In(k, u, r) => r.handle \in Nat /\ r.handle <= k.next[u]
  BY <1>1, InIsRule DEF Orderly
<1>5. Continues(k, later)
  <2>1. SUFFICES ASSUME NEW u \in Tables
                 PROVE  /\ k.next[u] <= later.next[u]
                        /\ \A r : In(later, u, r) /\ r.handle <= k.next[u] => In(k, u, r)
    BY DEF Continues
  <2>2. CASE u = t
    BY <1>3, <1>f, <2>2
  <2>3. CASE u # t
    <3>1. later.chains[u] = k.chains[u] /\ later.next[u] = k.next[u]
      BY <2>3
    <3>2. QED
      BY <1>3, <3>1, SameRules
  <2>4. QED
    BY <2>2, <2>3
<1>6. Orderly(later)
  <2>1. SUFFICES ASSUME NEW u \in Tables
                 PROVE  /\ later.chains[u] # <<>> => u \in later.tables
                        /\ \A i \in 1..Len(later.chains[u]) :
                             later.chains[u][i].name = Own => later.chains[u][i].kind = "regular"
                        /\ \A r : In(later, u, r) => r.handle <= later.next[u]
                        /\ \A r, q : In(later, u, r) /\ In(later, u, q) /\ r.handle = q.handle => r = q
    BY DEF Orderly
  <2>2. CASE u = t
    <3>1. \A r : In(later, t, r) => r.handle <= later.next[t]
      BY <1>3, <1>4, <1>f
    <3>2. ASSUME NEW r, NEW q, In(later, t, r), In(later, t, q), r.handle = q.handle PROVE r = q
      <4>1. CASE In(k, t, r) /\ In(k, t, q)
        BY <3>2, <4>1 DEF Orderly
      <4>2. CASE ~(In(k, t, r) /\ In(k, t, q))
        <5>1. k.next[t] \in Nat
          BY <1>3
        <5>2. ~In(k, t, r) => r = new /\ r.handle = k.next[t] + 1
          BY <1>f, <3>2
        <5>3. ~In(k, t, q) => q = new /\ q.handle = k.next[t] + 1
          BY <1>f, <3>2
        <5>4. \A x : In(k, t, x) => x.handle # k.next[t] + 1
          BY <1>4, <5>1
        <5>5. QED
          BY <3>2, <4>2, <5>2, <5>3, <5>4
      <4>3. QED
        BY <4>1, <4>2
    <3>3. QED
      BY <2>2, <3>1, <3>2
  <2>3. CASE u # t
    <3>1. later.chains[u] = k.chains[u] /\ later.next[u] = k.next[u]
      BY <2>3
    <3>2. \A r : In(later, u, r) <=> In(k, u, r)
      BY <3>1, SameRules
    <3>3. QED
      BY <3>1, <3>2 DEF Orderly
  <2>4. QED
    BY <2>2, <2>3
<1>7. QED
  BY <1>2, <1>5, <1>6 DEF Goes

\* A command that touches no chain.
LEMMA SameChainsGo ==
  ASSUME NEW k, Orderly(k), NEW later \in Kernels, k.tables \subseteq later.tables,
         later.chains = k.chains, \A t \in Tables : k.next[t] <= later.next[t]
  PROVE  Goes(k, later)
<1>1. k \in Kernels
  BY DEF Orderly
<1>2. Keeps(k, later)
  BY <1>1, SameChains DEF Keeps
<1>3. \A t \in Tables : \A r : In(later, t, r) <=> In(k, t, r)
  BY DEF In
<1>4. Continues(k, later)
  BY <1>3 DEF Continues
<1>5. Orderly(later)
  <2>1. SUFFICES ASSUME NEW u \in Tables
                 PROVE  /\ later.chains[u] # <<>> => u \in later.tables
                        /\ \A i \in 1..Len(later.chains[u]) :
                             later.chains[u][i].name = Own => later.chains[u][i].kind = "regular"
                        /\ \A r : In(later, u, r) => r.handle <= later.next[u]
                        /\ \A r, q : In(later, u, r) /\ In(later, u, q) /\ r.handle = q.handle => r = q
    BY DEF Orderly
  <2>2. k.next[u] \in Nat /\ later.next[u] \in Nat
    BY <1>1, Whereabouts
  <2>3. ASSUME NEW r, In(k, u, r) PROVE r.handle <= later.next[u]
    <3>1. r.handle \in Nat
      BY <1>1, <2>3, InIsRule
    <3>2. r.handle <= k.next[u]
      BY <2>3 DEF Orderly
    <3>3. QED
      BY <2>2, <3>1, <3>2
  <2>4. QED
    BY <1>3, <2>3 DEF Orderly
<1>6. QED
  BY <1>2, <1>4, <1>5 DEF Goes

\* A chain is created, empty.
LEMMA AddChainGoes ==
  ASSUME NEW k, Orderly(k), NEW t \in Tables, t \in k.tables, NEW c \in Chains, c.rules = <<>>,
         c.name = Own => c.kind = "regular"
  PROVE  Goes(k, [k EXCEPT !.chains[t] = Append(@, c), !.next[t] = @ + 1])
<1> DEFINE later == [k EXCEPT !.chains[t] = Append(@, c), !.next[t] = @ + 1]
           n == Len(k.chains[t])
<1>1. k \in Kernels
  BY DEF Orderly
<1>2. /\ n \in Nat /\ k.chains[t] \in Seq(Chains) /\ k.next[t] \in Nat
      /\ k.chains \in [Tables -> Seq(Chains)] /\ k.next \in [Tables -> Nat]
  BY <1>1, Whereabouts
<1>3. PICK cs \in Seq(Chains) : cs = Append(k.chains[t], c)
  BY <1>2, AppendProperties
<1>4. /\ Len(cs) = n + 1 /\ \A i \in 1..n : cs[i] = k.chains[t][i]
      /\ cs[n + 1] = c
  BY <1>2, <1>3, AppendProperties
<1>5. /\ later \in Kernels /\ later.tables = k.tables /\ later.chains[t] = cs
      /\ later.next[t] = k.next[t] + 1
      /\ \A u \in Tables \ {t} : later.chains[u] = k.chains[u] /\ later.next[u] = k.next[u]
  <2>1. PICK chains : chains = [k.chains EXCEPT ![t] = cs]
    OBVIOUS
  <2>2. PICK next : next = [k.next EXCEPT ![t] = @ + 1]
    OBVIOUS
  <2>3. later = [k EXCEPT !.chains = chains, !.next = next]
    BY <1>1, <1>2, <1>3, <2>1, <2>2 DEF Kernels
  <2>4. chains \in [Tables -> Seq(Chains)] /\ next \in [Tables -> Nat]
    BY <1>2, <1>3, <2>1, <2>2
  <2>5. later \in Kernels /\ later.tables = k.tables /\ later.chains = chains /\ later.next = next
    BY <1>1, <2>3, <2>4 DEF Kernels
  <2>6. QED
    BY <1>2, <2>1, <2>2, <2>5
<1> HIDE DEF later, n
<1>6. ASSUME NEW i \in 1..Len(cs), cs[i].name = Own PROVE cs[i].kind = "regular"
  <2>1. CASE i = n + 1
    BY <1>4, <1>6, <2>1
  <2>2. CASE i # n + 1
    <3>1. i \in 1..n
      BY <1>2, <1>4, <2>2
    <3>2. QED
      BY <1>4, <1>6, <3>1 DEF Orderly, n
  <2>3. QED
    BY <2>1, <2>2
<1>7. ASSUME NEW r, In(later, t, r) PROVE In(k, t, r)
  <2>1. PICK i \in 1..Len(cs) : \E j \in 1..Len(cs[i].rules) : cs[i].rules[j] = r
    BY <1>5, <1>7 DEF In
  <2>2. i # n + 1
    BY <1>4, <2>1
  <2>3. i \in 1..n
    BY <1>2, <1>4, <2>2
  <2>4. QED
    BY <1>4, <2>1, <2>3 DEF In, n
<1>8. ASSUME NEW i \in 1..n
      PROVE  \E j \in NamedIn(later, t, k.chains[t][i].name) : Preserved(k, later, t, i, j)
  <2>1. i \in DOMAIN cs /\ cs[i] = k.chains[t][i]
    BY <1>2, <1>3, <1>4
  <2>2. i \in NamedIn(later, t, k.chains[t][i].name)
    BY <1>5, <2>1 DEF NamedIn
  <2>3. Others(later, t, i) = Others(k, t, i)
    BY <1>5, <2>1 DEF Others
  <2>4. Preserved(k, later, t, i, i)
    BY <1>5, <2>1, <2>3 DEF Preserved
  <2>5. QED
    BY <2>2, <2>4
<1>9. Goes(k, later)
  <2>1. k.next[t] <= later.next[t] /\ k.tables \subseteq later.tables /\ t \in later.tables
    BY <1>2, <1>5
  <2>2. \A i \in 1..Len(later.chains[t]) :
           later.chains[t][i].name = Own => later.chains[t][i].kind = "regular"
    BY <1>5, <1>6
  <2>3. \A r : In(later, t, r) => In(k, t, r) \/ (r = c /\ Fresh(k, later, t, c))
    BY <1>7
  <2>4. QED
    BY <1>5, <1>8, <2>1, <2>2, <2>3, OneTable DEF n
<1>10. QED
  BY <1>9 DEF later

\* The KERTICAL chain is deleted.
LEMMA DelChainGoes ==
  ASSUME NEW k, Orderly(k), NEW t \in Tables, NEW x \in 1..Len(k.chains[t]), k.chains[t][x].name = Own
  PROVE  Goes(k, [k EXCEPT !.chains[t] = RemoveAt(@, x)])
<1> DEFINE later == [k EXCEPT !.chains[t] = RemoveAt(@, x)]
           n == Len(k.chains[t])
           At(i) == IF i < x THEN i ELSE i + 1
<1>1. k \in Kernels
  BY DEF Orderly
<1>2. /\ n \in Nat /\ k.chains[t] \in Seq(Chains) /\ k.next[t] \in Nat
      /\ k.chains \in [Tables -> Seq(Chains)] /\ k.next \in [Tables -> Nat]
      /\ DOMAIN k.chains[t] = 1..n
  BY <1>1, Whereabouts
<1>3. PICK cs \in Seq(Chains) : cs = RemoveAt(k.chains[t], x)
  BY <1>2, Removed
<1>4. /\ Len(cs) = n - 1 /\ DOMAIN cs = 1..(n - 1)
      /\ \A i \in 1..(n - 1) : At(i) \in 1..n /\ cs[i] = k.chains[t][At(i)]
  <2>1. Len(cs) = n - 1 /\ \A i \in 1..(n - 1) : cs[i] = IF i < x THEN k.chains[t][i] ELSE k.chains[t][i + 1]
    BY <1>2, <1>3, Removed
  <2>2. QED
    BY <1>2, <1>3, <2>1
<1>5. /\ later \in Kernels /\ later.tables = k.tables /\ later.chains[t] = cs
      /\ later.next[t] = k.next[t]
      /\ \A u \in Tables \ {t} : later.chains[u] = k.chains[u] /\ later.next[u] = k.next[u]
  BY <1>1, <1>2, <1>3 DEF Kernels
<1>6. \A i \in 1..n : i # x => \E j \in 1..(n - 1) : At(j) = i
  <2>1. SUFFICES ASSUME NEW i \in 1..n, i # x PROVE \E j \in 1..(n - 1) : At(j) = i
    OBVIOUS
  <2>2. CASE i < x
    <3>1. i \in 1..(n - 1) /\ At(i) = i
      BY <1>2, <2>2
    <3>2. QED
      BY <3>1
  <2>3. CASE ~(i < x)
    <3>1. i - 1 \in 1..(n - 1) /\ At(i - 1) = i
      BY <1>2, <2>1, <2>3
    <3>2. QED
      BY <3>1
  <2>4. QED
    BY <2>2, <2>3
<1> HIDE DEF later, At
<1>7. ASSUME NEW r, In(later, t, r) PROVE In(k, t, r)
  <2>1. PICK i \in 1..(n - 1) : \E j \in 1..Len(cs[i].rules) : cs[i].rules[j] = r
    BY <1>4, <1>5, <1>7 DEF In
  <2>2. QED
    BY <1>4, <2>1 DEF In
<1>8. ASSUME NEW i \in 1..n, k.chains[t][i].name # Own
      PROVE  \E j \in NamedIn(later, t, k.chains[t][i].name) : Preserved(k, later, t, i, j)
  <2>1. PICK j \in 1..(n - 1) : At(j) = i
    BY <1>6, <1>8
  <2>2. j \in DOMAIN cs /\ cs[j] = k.chains[t][i]
    BY <1>4, <2>1
  <2>3. j \in NamedIn(later, t, k.chains[t][i].name)
    BY <1>5, <2>2 DEF NamedIn
  <2>4. Others(later, t, j) = Others(k, t, i)
    BY <1>5, <2>2 DEF Others
  <2>5. Preserved(k, later, t, i, j)
    BY <1>5, <2>2, <2>4 DEF Preserved
  <2>6. QED
    BY <2>3, <2>5
<1>9. Goes(k, later)
  <2>1. k.next[t] <= later.next[t] /\ k.tables \subseteq later.tables
    BY <1>2, <1>5
  <2>2. t \in later.tables
    <3>1. k.chains[t] # <<>>
      BY <1>2
    <3>2. QED
      BY <1>5, <3>1 DEF Orderly
  <2>3. \A i \in 1..Len(later.chains[t]) :
           later.chains[t][i].name = Own => later.chains[t][i].kind = "regular"
    <3>1. \A i \in 1..n : k.chains[t][i].name = Own => k.chains[t][i].kind = "regular"
      BY DEF Orderly
    <3>2. SUFFICES ASSUME NEW i \in 1..(n - 1), cs[i].name = Own PROVE cs[i].kind = "regular"
      BY <1>4, <1>5
    <3>3. At(i) \in 1..n /\ cs[i] = k.chains[t][At(i)]
      BY <1>4
    <3>4. QED
      BY <3>1, <3>2, <3>3
  <2>4. \A r : In(later, t, r) => In(k, t, r) \/ (r = x /\ Fresh(k, later, t, x))
    BY <1>7
  <2>5. QED
    BY <1>5, <1>8, <2>1, <2>2, <2>3, <2>4, OneTable
<1>10. QED
  BY <1>9 DEF later

\* The rules of one chain change: they are those of before, but for one that
\* gets a new handle, and those of other programs stay.
Rewritten(k, t, x, rs) == [k.chains EXCEPT ![t][x].rules = rs]

LEMMA RewriteGoes ==
  ASSUME NEW k, Orderly(k), NEW later \in Kernels, NEW t \in Tables, NEW x \in 1..Len(k.chains[t]), NEW new,
         NEW rs \in Seq(Rules), later.chains = Rewritten(k, t, x, rs), later.tables = k.tables,
         \A u \in Tables \ {t} : later.next[u] = k.next[u], k.next[t] <= later.next[t],
         \A j \in 1..Len(rs) :
           \/ \E i \in 1..Len(k.chains[t][x].rules) : rs[j] = k.chains[t][x].rules[i]
           \/ rs[j] = new /\ Fresh(k, later, t, new),
         Preserved(k, later, t, x, x)
  PROVE  Goes(k, later)
<1> DEFINE n == Len(k.chains[t])
<1>1. k \in Kernels
  BY DEF Orderly
<1>2. /\ n \in Nat /\ k.chains[t] \in Seq(Chains) /\ k.next[t] \in Nat
      /\ k.chains \in [Tables -> Seq(Chains)] /\ DOMAIN k.chains[t] = 1..n
      /\ \A i \in 1..n : k.chains[t][i] \in Chains
  BY <1>1, Whereabouts
<1>3. PICK c : c = [k.chains[t][x] EXCEPT !.rules = rs]
  OBVIOUS
<1>4. c \in Chains /\ c.rules = rs /\ c.name = k.chains[t][x].name /\ c.kind = k.chains[t][x].kind
  BY <1>2, <1>3 DEF Chains
<1>5. /\ later.chains[t] = [k.chains[t] EXCEPT ![x] = c]
      /\ \A u \in Tables \ {t} : later.chains[u] = k.chains[u]
  BY <1>2, <1>3 DEF Rewritten
<1>6. /\ Len(later.chains[t]) = n /\ DOMAIN later.chains[t] = 1..n
      /\ later.chains[t][x] = c /\ \A i \in 1..n : i # x => later.chains[t][i] = k.chains[t][i]
  BY <1>2, <1>5
<1> HIDE DEF n
<1>7. ASSUME NEW r, In(later, t, r) PROVE In(k, t, r) \/ (r = new /\ Fresh(k, later, t, new))
  <2>1. PICK i \in 1..n : \E j \in 1..Len(later.chains[t][i].rules) : later.chains[t][i].rules[j] = r
    BY <1>6, <1>7 DEF In
  <2>2. CASE i = x
    <3>1. PICK j \in 1..Len(rs) : rs[j] = r
      BY <1>4, <1>6, <2>1, <2>2
    <3>2. QED
      BY <3>1 DEF In
  <2>3. CASE i # x
    BY <1>6, <2>1, <2>3 DEF In, n
  <2>4. QED
    BY <2>2, <2>3
<1>8. ASSUME NEW i \in 1..n
      PROVE  \E j \in NamedIn(later, t, k.chains[t][i].name) : Preserved(k, later, t, i, j)
  <2>1. i \in NamedIn(later, t, k.chains[t][i].name)
    BY <1>4, <1>6 DEF NamedIn
  <2>2. Preserved(k, later, t, i, i)
    <3>1. CASE i = x
      BY <3>1
    <3>2. CASE i # x
      <4>1. later.chains[t][i] = k.chains[t][i]
        BY <1>6, <3>2
      <4>2. Others(later, t, i) = Others(k, t, i)
        BY <4>1 DEF Others
      <4>3. QED
        BY <4>1, <4>2 DEF Preserved
    <3>3. QED
      BY <3>1, <3>2
  <2>3. QED
    BY <2>1, <2>2
<1>9. ASSUME NEW i \in 1..n, later.chains[t][i].name = Own PROVE later.chains[t][i].kind = "regular"
  <2>1. later.chains[t][i].name = k.chains[t][i].name /\ later.chains[t][i].kind = k.chains[t][i].kind
    BY <1>4, <1>6
  <2>2. QED
    BY <1>9, <2>1 DEF Orderly, n
<1>10. t \in later.tables
  <2>1. k.chains[t] # <<>>
    BY <1>2
  <2>2. QED
    BY <2>1 DEF Orderly
<1>11. k.tables \subseteq later.tables
  OBVIOUS
<1>12. \A i \in 1..Len(later.chains[t]) :
         later.chains[t][i].name = Own => later.chains[t][i].kind = "regular"
  BY <1>6, <1>9
<1>13. \A r : In(later, t, r) => In(k, t, r) \/ (r = new /\ Fresh(k, later, t, new))
  BY <1>7
<1>14. \A i \in 1..Len(k.chains[t]) : k.chains[t][i].name # Own =>
           \E j \in NamedIn(later, t, k.chains[t][i].name) : Preserved(k, later, t, i, j)
  BY <1>8 DEF n
<1>15. \A u \in Tables \ {t} : later.chains[u] = k.chains[u] /\ later.next[u] = k.next[u]
  BY <1>5
<1>16. later.chains[t] # <<>> => t \in later.tables
  BY <1>10
<1>17. k.next[t] <= later.next[t]
  OBVIOUS
<1>18. QED
  BY <1>11, <1>12, <1>13, <1>14, <1>15, <1>16, <1>17, OneTable

LEMMA AddRuleGoes ==
  ASSUME NEW k, Orderly(k), NEW t \in Tables, NEW x \in 1..Len(k.chains[t]), NEW e \in Exprs,
         NEW loose \in SUBSET (Tables \X Sets)
  PROVE  Goes(k, [k EXCEPT !.chains[t][x].rules = Append(@, [expr |-> e, handle |-> k.next[t] + 1]),
                           !.next[t] = @ + 1, !.loose = loose])
<1> DEFINE later == [k EXCEPT !.chains[t][x].rules = Append(@, [expr |-> e, handle |-> k.next[t] + 1]),
                              !.next[t] = @ + 1, !.loose = loose]
           old == k.chains[t][x].rules
<1>1. k \in Kernels
  BY DEF Orderly
<1>2. /\ k.chains[t] \in Seq(Chains) /\ k.next[t] \in Nat /\ k.next \in [Tables -> Nat]
      /\ k.chains \in [Tables -> Seq(Chains)] /\ k.chains[t][x] \in Chains
      /\ old \in Seq(Rules) /\ Len(old) \in Nat /\ DOMAIN old = 1..Len(old)
  <2>1. /\ k.chains[t] \in Seq(Chains) /\ k.next[t] \in Nat /\ k.next \in [Tables -> Nat]
        /\ k.chains \in [Tables -> Seq(Chains)]
    BY <1>1, Whereabouts
  <2>2. k.chains[t][x] \in Chains /\ old \in Seq(Rules)
    BY <1>1, Whereabouts
  <2>3. Len(old) \in Nat /\ DOMAIN old = 1..Len(old)
    BY <2>2
  <2>4. QED
    BY <2>1, <2>2, <2>3
<1>3. PICK new : new = [expr |-> e, handle |-> k.next[t] + 1]
  OBVIOUS
<1>4. new \in Rules /\ new.handle = k.next[t] + 1
  BY <1>2, <1>3 DEF Rules
<1>5. PICK rs \in Seq(Rules) : rs = Append(old, new)
  BY <1>2, <1>4, AppendProperties
<1>6. Len(rs) = Len(old) + 1 /\ rs[Len(old) + 1] = new /\ \A j \in 1..Len(old) : rs[j] = old[j]
  BY <1>2, <1>4, <1>5, AppendProperties
<1>7. PICK chains : chains = Rewritten(k, t, x, rs)
  OBVIOUS
<1>8. PICK next : next = [k.next EXCEPT ![t] = @ + 1]
  OBVIOUS
<1>9. later = [k EXCEPT !.chains = chains, !.next = next, !.loose = loose]
  BY <1>1, <1>2, <1>3, <1>5, <1>7, <1>8 DEF Kernels, Rewritten
<1>10. chains \in [Tables -> Seq(Chains)] /\ chains[t][x].rules = rs /\ next \in [Tables -> Nat]
  <2>1. PICK c : c = [k.chains[t][x] EXCEPT !.rules = rs]
    OBVIOUS
  <2>2. c \in Chains /\ c.rules = rs
    BY <1>2, <2>1 DEF Chains
  <2>3. chains = [k.chains EXCEPT ![t] = [k.chains[t] EXCEPT ![x] = c]]
    BY <1>2, <1>7, <2>1 DEF Rewritten
  <2>4. [k.chains[t] EXCEPT ![x] = c] \in Seq(Chains) /\ [k.chains[t] EXCEPT ![x] = c][x] = c
    BY <1>2, <2>2
  <2>5. QED
    BY <1>2, <1>8, <2>2, <2>3, <2>4
<1>11. /\ later \in Kernels /\ later.tables = k.tables /\ later.chains = chains /\ later.next = next
  BY <1>1, <1>9, <1>10 DEF Kernels
<1>12. later.next[t] = k.next[t] + 1 /\ \A u \in Tables \ {t} : later.next[u] = k.next[u]
  BY <1>2, <1>8, <1>11
<1>13. Fresh(k, later, t, new)
  BY <1>4, <1>12 DEF Fresh
<1> HIDE DEF later, old
<1>14. \A j \in 1..Len(rs) :
           \/ \E i \in 1..Len(old) : rs[j] = old[i]
           \/ rs[j] = new /\ Fresh(k, later, t, new)
  <2>1. SUFFICES ASSUME NEW j \in 1..Len(rs)
                 PROVE  \/ \E i \in 1..Len(old) : rs[j] = old[i]
                        \/ rs[j] = new /\ Fresh(k, later, t, new)
    OBVIOUS
  <2>2. j \in 1..Len(old) \/ j = Len(old) + 1
    BY <1>2, <1>6
  <2>3. QED
    BY <1>6, <1>13, <2>2
<1>15. Preserved(k, later, t, x, x)
  <2>1. later.chains[t][x].rules = rs /\ k.chains[t][x].rules = old
    BY <1>10, <1>11 DEF old
  <2>2. ASSUME NEW a \in Others(k, t, x) PROVE a \in Others(later, t, x) /\ rs[a] = old[a]
    <3>1. a \in 1..Len(old) /\ old[a].expr = Other
      BY <1>2, <2>1 DEF Others
    <3>2. a \in 1..Len(rs) /\ rs[a] = old[a]
      BY <1>2, <1>6, <3>1
    <3>3. QED
      BY <1>5, <2>1, <3>1, <3>2 DEF Others
  <2>3. QED
    BY <2>1, <2>2 DEF Preserved
<1>16. k.next[t] <= later.next[t]
  BY <1>2, <1>12
<1>17. Goes(k, later)
  BY <1>7, <1>11, <1>12, <1>14, <1>15, <1>16, RewriteGoes DEF old
<1>18. QED
  BY <1>17 DEF later

\* A rule that is not of another program is deleted.
LEMMA DelRuleGoes ==
  ASSUME NEW k, Orderly(k), NEW t \in Tables, NEW x \in 1..Len(k.chains[t]),
         NEW y \in 1..Len(k.chains[t][x].rules), k.chains[t][x].rules[y].expr # Other
  PROVE  Goes(k, [k EXCEPT !.chains[t][x].rules = RemoveAt(@, y)])
<1> DEFINE later == [k EXCEPT !.chains[t][x].rules = RemoveAt(@, y)]
           old == k.chains[t][x].rules
           At(j) == IF j < y THEN j ELSE j + 1
<1>1. k \in Kernels
  BY DEF Orderly
<1>2. /\ k.chains[t] \in Seq(Chains) /\ k.next[t] \in Nat
      /\ k.chains \in [Tables -> Seq(Chains)] /\ k.chains[t][x] \in Chains
      /\ old \in Seq(Rules) /\ Len(old) \in Nat /\ DOMAIN old = 1..Len(old)
  BY <1>1, Whereabouts
<1>3. PICK rs \in Seq(Rules) : rs = RemoveAt(old, y)
  BY <1>2, Removed
<1>4. PICK m \in Nat : m = Len(old)
  BY <1>2
<1>5. /\ Len(rs) = m - 1 /\ DOMAIN rs = 1..(m - 1)
      /\ \A j \in 1..(m - 1) : At(j) \in 1..m /\ rs[j] = old[At(j)]
  <2>1. Len(rs) = m - 1 /\ \A j \in 1..(m - 1) : rs[j] = IF j < y THEN old[j] ELSE old[j + 1]
    BY <1>2, <1>3, <1>4, Removed
  <2>2. \A j \in 1..(m - 1) : At(j) \in 1..m
    BY <1>4
  <2>3. DOMAIN rs = 1..Len(rs)
    BY <1>3
  <2>4. QED
    BY <2>1, <2>2, <2>3
<1>6. PICK chains : chains = Rewritten(k, t, x, rs)
  OBVIOUS
<1>7. later = [k EXCEPT !.chains = chains]
  BY <1>1, <1>2, <1>3, <1>6 DEF Kernels, Rewritten
<1>8. chains \in [Tables -> Seq(Chains)] /\ chains[t][x].rules = rs
  <2>1. PICK c : c = [k.chains[t][x] EXCEPT !.rules = rs]
    OBVIOUS
  <2>2. c \in Chains /\ c.rules = rs
    BY <1>2, <2>1 DEF Chains
  <2>3. chains = [k.chains EXCEPT ![t] = [k.chains[t] EXCEPT ![x] = c]]
    BY <1>2, <1>6, <2>1 DEF Rewritten
  <2>4. [k.chains[t] EXCEPT ![x] = c] \in Seq(Chains) /\ [k.chains[t] EXCEPT ![x] = c][x] = c
    BY <1>2, <2>2
  <2>5. QED
    BY <1>2, <2>2, <2>3, <2>4
<1>9. later \in Kernels /\ later.tables = k.tables /\ later.chains = chains /\ later.next = k.next
  BY <1>1, <1>7, <1>8 DEF Kernels
<1>10. \A a \in 1..m : a # y => \E j \in 1..(m - 1) : At(j) = a /\ j = IF a < y THEN a ELSE a - 1
  <2>1. SUFFICES ASSUME NEW a \in 1..m, a # y
                 PROVE  \E j \in 1..(m - 1) : At(j) = a /\ j = IF a < y THEN a ELSE a - 1
    OBVIOUS
  <2>2. CASE a < y
    <3>1. a \in 1..(m - 1) /\ At(a) = a
      BY <1>4, <2>2
    <3>2. QED
      BY <2>2, <3>1
  <2>3. CASE ~(a < y)
    <3>1. a - 1 \in 1..(m - 1) /\ At(a - 1) = a
      BY <1>4, <2>1, <2>3
    <3>2. QED
      BY <2>3, <3>1
  <2>4. QED
    BY <2>2, <2>3
<1> HIDE DEF later, old, At
<1>11. Preserved(k, later, t, x, x)
  <2>1. later.chains[t][x].rules = rs /\ k.chains[t][x].rules = old
    BY <1>8, <1>9 DEF old
  <2>2. ASSUME NEW a \in Others(k, t, x)
        PROVE  /\ a \in 1..m
               /\ \E c \in Others(later, t, x) : rs[c] = old[a] /\ c = IF a < y THEN a ELSE a - 1
    <3>1. a \in 1..m /\ old[a].expr = Other
      BY <1>2, <1>4, <2>1 DEF Others
    <3>2. a # y
      BY <2>1, <3>1
    <3>3. PICK j \in 1..(m - 1) : At(j) = a /\ j = IF a < y THEN a ELSE a - 1
      BY <1>10, <3>1, <3>2
    <3>4. rs[j] = old[a]
      BY <1>5, <3>3
    <3>5. j \in Others(later, t, x)
      BY <1>5, <2>1, <3>1, <3>4 DEF Others
    <3>6. QED
      BY <3>1, <3>3, <3>4, <3>5
  <2>3. ASSUME NEW a \in Others(k, t, x), NEW b \in Others(k, t, x), a <= b
        PROVE  \E c, d \in Others(later, t, x) :
                 c <= d /\ (c = d <=> a = b) /\ rs[c] = old[a] /\ rs[d] = old[b]
    <3>1. a \in 1..m /\ b \in 1..m /\ a # y /\ b # y
      <4>1. old[a].expr = Other /\ old[b].expr = Other
        BY <2>1 DEF Others
      <4>2. QED
        BY <2>1, <2>2, <4>1
    <3>2. PICK c \in Others(later, t, x) : rs[c] = old[a] /\ c = IF a < y THEN a ELSE a - 1
      BY <2>2
    <3>3. PICK d \in Others(later, t, x) : rs[d] = old[b] /\ d = IF b < y THEN b ELSE b - 1
      BY <2>2
    <3>4. c <= d /\ (c = d <=> a = b)
      BY <1>4, <2>3, <3>1, <3>2, <3>3
    <3>5. QED
      BY <3>2, <3>3, <3>4
  <2>4. QED
    BY <2>1, <2>3 DEF Preserved
<1>12. \A j \in 1..Len(rs) :
           \/ \E i \in 1..Len(old) : rs[j] = old[i]
           \/ rs[j] = y /\ Fresh(k, later, t, y)
  BY <1>4, <1>5
<1>13. k.next[t] <= later.next[t]
  BY <1>2, <1>9
<1>14. Goes(k, later)
  <2>1. \A u \in Tables \ {t} : later.next[u] = k.next[u]
    BY <1>9
  <2>2. QED
    BY <1>6, <1>9, <1>11, <1>12, <1>13, <2>1, RewriteGoes DEF old
<1>15. QED
  BY <1>14 DEF later

-----------------------------------------------------------------------------
(* Commands and batches.                                                   *)

\* The commands of a batch made from the snapshot s.  Rules of other programs
\* are not deleted, and neither are their chains.
Commands(s) ==
  [do : {"AddTable"}, table : Tables]
  \cup [do : {"AddSet"}, table : Tables, set : Sets]
  \cup {x \in [do : {"AddChain"}, table : Tables, chain : Names, kind : Kinds, typed : BOOLEAN] :
          x.chain = Own => x.kind = "regular"}
  \cup [do : {"DelChain"}, table : Tables, chain : {Own}]
  \cup [do : {"AddRule"}, table : Tables, chain : Names, expr : Exprs]
  \cup {x \in [do : {"DelRule"}, table : Tables, chain : Names, handle : Nat] :
          \E e \in Exprs \ {Other} : In(s, x.table, [expr |-> e, handle |-> x.handle])}

LEMMA GoesOn ==
  ASSUME NEW k, Orderly(k), NEW later, Goes(k, later), NEW last, Goes(later, last)
  PROVE  Goes(k, last)
<1>1. k \in Kernels /\ later \in Kernels /\ last \in Kernels
  BY DEF Goes, Orderly
<1>2. Orderly(last)
  BY DEF Goes
<1>3. Continues(k, last)
  <2>1. SUFFICES ASSUME NEW t \in Tables
                 PROVE  /\ k.next[t] <= last.next[t]
                        /\ \A r : In(last, t, r) /\ r.handle <= k.next[t] => In(k, t, r)
    BY DEF Continues
  <2>2. k.next[t] \in Nat /\ later.next[t] \in Nat /\ last.next[t] \in Nat
    BY <1>1, Whereabouts
  <2>3. k.next[t] <= later.next[t] /\ later.next[t] <= last.next[t]
    BY DEF Goes, Continues
  <2>4. ASSUME NEW r, In(last, t, r), r.handle <= k.next[t] PROVE In(k, t, r)
    <3>1. r.handle \in Nat
      BY <1>1, <2>4, InIsRule
    <3>2. r.handle <= later.next[t]
      BY <2>2, <2>3, <2>4, <3>1
    <3>3. In(later, t, r)
      BY <2>4, <3>2 DEF Goes, Continues
    <3>4. QED
      BY <2>4, <3>3 DEF Goes, Continues
  <2>5. QED
    BY <2>2, <2>3, <2>4
<1>4. Keeps(k, last)
  <2>1. SUFFICES ASSUME NEW t \in Tables, NEW i \in 1..Len(k.chains[t]), k.chains[t][i].name # Own
                 PROVE  \E j \in NamedIn(last, t, k.chains[t][i].name) : Preserved(k, last, t, i, j)
    BY DEF Keeps
  <2>2. PICK j \in NamedIn(later, t, k.chains[t][i].name) : Preserved(k, later, t, i, j)
    BY <2>1 DEF Goes, Keeps
  <2>3. j \in 1..Len(later.chains[t]) /\ later.chains[t][j].name = k.chains[t][i].name
    BY <1>1, Whereabouts DEF NamedIn
  <2>4. PICK x \in NamedIn(last, t, later.chains[t][j].name) : Preserved(later, last, t, j, x)
    BY <2>1, <2>3 DEF Goes, Keeps
  <2>5. Preserved(k, last, t, i, x)
    <3>1. SUFFICES ASSUME NEW a \in Others(k, t, i), NEW b \in Others(k, t, i), a <= b
                   PROVE  \E c, d \in Others(last, t, x) :
                            /\ c <= d /\ (c = d <=> a = b)
                            /\ last.chains[t][x].rules[c] = k.chains[t][i].rules[a]
                            /\ last.chains[t][x].rules[d] = k.chains[t][i].rules[b]
      BY DEF Preserved
    <3>2. PICK c \in Others(later, t, j), d \in Others(later, t, j) :
            /\ c <= d /\ (c = d <=> a = b)
            /\ later.chains[t][j].rules[c] = k.chains[t][i].rules[a]
            /\ later.chains[t][j].rules[d] = k.chains[t][i].rules[b]
      BY <2>2, <3>1 DEF Preserved
    <3>3. PICK e \in Others(last, t, x), f \in Others(last, t, x) :
            /\ e <= f /\ (e = f <=> c = d)
            /\ last.chains[t][x].rules[e] = later.chains[t][j].rules[c]
            /\ last.chains[t][x].rules[f] = later.chains[t][j].rules[d]
      BY <2>4, <3>2 DEF Preserved
    <3>4. QED
      BY <3>2, <3>3
  <2>6. QED
    BY <2>3, <2>4, <2>5
<1>5. QED
  BY <1>2, <1>3, <1>4 DEF Goes

LEMMA GoesNowhere ==
  ASSUME NEW k, Orderly(k)
  PROVE  Goes(k, k)
<1>1. k \in Kernels /\ \A t \in Tables : k.next[t] \in Nat
  BY Whereabouts DEF Orderly
<1>2. QED
  BY <1>1, SameChainsGo

LEMMA ContinuesOn ==
  ASSUME NEW s, Orderly(s), NEW k, Orderly(k), Continues(s, k), NEW later, Goes(k, later)
  PROVE  Continues(s, later)
<1>1. k \in Kernels /\ later \in Kernels /\ s \in Kernels
  BY DEF Goes, Orderly
<1>2. SUFFICES ASSUME NEW t \in Tables
               PROVE  /\ s.next[t] <= later.next[t]
                      /\ \A r : In(later, t, r) /\ r.handle <= s.next[t] => In(s, t, r)
  BY DEF Continues
<1>3. s.next[t] \in Nat /\ k.next[t] \in Nat /\ later.next[t] \in Nat
  BY <1>1, Whereabouts
<1>4. s.next[t] <= k.next[t] /\ k.next[t] <= later.next[t]
  BY DEF Goes, Continues
<1>5. ASSUME NEW r, In(later, t, r), r.handle <= s.next[t] PROVE In(s, t, r)
  <2>1. r.handle \in Nat
    BY <1>1, <1>5, InIsRule
  <2>2. r.handle <= k.next[t]
    BY <1>3, <1>4, <1>5, <2>1
  <2>3. In(k, t, r)
    BY <1>5, <2>2 DEF Goes, Continues
  <2>4. QED
    BY <1>5, <2>3 DEF Continues
<1>6. QED
  BY <1>3, <1>4, <1>5

\* The lowest number of a chain by its name.
LEMMA FirstNamed ==
  ASSUME NEW k \in Kernels, NEW t \in Tables, NEW c, NamedIn(k, t, c) # {}
  PROVE  Min(NamedIn(k, t, c)) \in 1..Len(k.chains[t]) /\ k.chains[t][Min(NamedIn(k, t, c))].name = c
<1>1. NamedIn(k, t, c) = {i \in 1..Len(k.chains[t]) : k.chains[t][i].name = c}
  BY Whereabouts DEF NamedIn
<1>2. NamedIn(k, t, c) \in SUBSET Nat
  BY <1>1, Whereabouts
<1>3. Min(NamedIn(k, t, c)) \in NamedIn(k, t, c)
  BY <1>2, Lowest
<1>4. QED
  BY <1>1, <1>3

LEMMA ExecuteGoes ==
  ASSUME NEW s, Orderly(s), NEW k, Orderly(k), Continues(s, k), k # NoKernel,
         NEW cmd \in Commands(s), Execute(k, cmd) # NoKernel
  PROVE  Goes(k, Execute(k, cmd))
<1> DEFINE later == Execute(k, cmd)
<1>1. k \in Kernels /\ s \in Kernels
  BY DEF Orderly
<1>2. /\ k.tables \in SUBSET Tables /\ k.loose \in SUBSET (Tables \X Sets)
      /\ k.chains \in [Tables -> Seq(Chains)] /\ k.next \in [Tables -> Nat]
  BY <1>1 DEF Kernels
<1>3. cmd.table \in Tables
  BY DEF Commands
<1>4. PICK t \in Tables : t = cmd.table
  BY <1>3
<1>5. PICK x : x = Min(NamedIn(k, t, cmd.chain))
  OBVIOUS
<1>6. CASE cmd.do = "AddTable"
  <2>1. later = [k EXCEPT !.tables = @ \cup {t}]
    BY <1>4, <1>6 DEF Execute
  <2> HIDE DEF later
  <2>0. PICK tables \in SUBSET Tables : tables = k.tables \cup {t}
    BY <1>2
  <2>2. /\ later \in Kernels /\ later.chains = k.chains /\ k.tables \subseteq later.tables
        /\ later.next = k.next
    <3>1. later = [k EXCEPT !.tables = tables]
      BY <2>0, <2>1
    <3>2. later \in Kernels /\ later.chains = k.chains /\ later.next = k.next /\ later.tables = tables
      BY <1>1, <3>1 DEF Kernels
    <3>3. QED
      BY <2>0, <3>2
  <2>3. \A u \in Tables : k.next[u] \in Nat
    BY <1>2
  <2>4. \A u \in Tables : k.next[u] <= later.next[u]
    BY <2>2, <2>3
  <2>5. Goes(k, later)
    BY <2>2, <2>4, SameChainsGo
  <2>6. QED
    BY <2>5 DEF later
<1>7. CASE cmd.do = "AddSet"
  <2>1. cmd.set \in Sets
    BY <1>7 DEF Commands
  <2>2. later = [k EXCEPT !.next[t] = @ + 1, !.loose = @ \cup {<<t, cmd.set>>}]
    BY <1>4, <1>7 DEF Execute
  <2>3. PICK next : next = [k.next EXCEPT ![t] = @ + 1]
    OBVIOUS
  <2>4. next \in [Tables -> Nat] /\ \A u \in Tables : k.next[u] <= next[u]
    <3>1. \A u \in Tables : k.next[u] \in Nat
      BY <1>2
    <3>2. \A u \in Tables : next[u] = IF u = t THEN k.next[u] + 1 ELSE k.next[u]
      BY <1>2, <2>3
    <3>3. \A u \in Tables : next[u] \in Nat /\ k.next[u] <= next[u]
      BY <3>1, <3>2
    <3>4. next \in [Tables -> Nat]
      BY <1>2, <2>3, <3>3
    <3>5. QED
      BY <3>3, <3>4
  <2>5. PICK loose \in SUBSET (Tables \X Sets) : loose = k.loose \cup {<<t, cmd.set>>}
    <3>1. <<t, cmd.set>> \in Tables \X Sets
      BY <2>1
    <3>2. k.loose \cup {<<t, cmd.set>>} \in SUBSET (Tables \X Sets)
      BY <1>2, <3>1
    <3>3. QED
      BY <3>2
  <2>6. later = [k EXCEPT !.next = next, !.loose = loose]
    BY <1>1, <1>2, <2>2, <2>3, <2>5 DEF Kernels
  <2>7. /\ later \in Kernels /\ later.chains = k.chains /\ k.tables \subseteq later.tables
        /\ later.next = next
    BY <1>1, <1>2, <2>4, <2>6 DEF Kernels
  <2>8. QED
    BY <2>4, <2>7, SameChainsGo
<1>8. CASE cmd.do = "AddChain"
  <2>1. /\ cmd.chain \in Names /\ cmd.kind \in Kinds /\ cmd.typed \in BOOLEAN
        /\ cmd.chain = Own => cmd.kind = "regular"
    BY <1>8 DEF Commands
  <2>2. PICK c : c = [name |-> cmd.chain, kind |-> cmd.kind, typed |-> cmd.typed, rules |-> <<>>]
    OBVIOUS
  <2>3. c \in Chains /\ c.rules = <<>> /\ (c.name = Own => c.kind = "regular")
    BY <2>1, <2>2 DEF Chains
  <2>4. /\ t \in k.tables
        /\ later = k \/ later = [k EXCEPT !.chains[t] = Append(@, c), !.next[t] = @ + 1]
    BY <1>4, <1>8, <2>2, Zenon DEF Execute
  <2> HIDE DEF later
  <2>5. CASE later = k
    <3>1. Goes(k, later)
      BY <2>5, GoesNowhere
    <3>2. QED
      BY <3>1 DEF later
  <2>6. CASE later = [k EXCEPT !.chains[t] = Append(@, c), !.next[t] = @ + 1]
    <3>1. Goes(k, [k EXCEPT !.chains[t] = Append(@, c), !.next[t] = @ + 1])
      BY <2>3, <2>4, AddChainGoes
    <3>2. Goes(k, later)
      BY <2>6, <3>1
    <3>3. QED
      BY <3>2 DEF later
  <2>7. QED
    BY <2>4, <2>5, <2>6
<1>9. CASE cmd.do \in {"DelChain", "AddRule", "DelRule"}
  <2>1. NamedIn(k, t, cmd.chain) # {} /\ later = InChain(k, cmd, x)
    BY <1>4, <1>5, <1>9 DEF Execute
  <2>2. x \in 1..Len(k.chains[t]) /\ k.chains[t][x].name = cmd.chain
    BY <1>1, <1>5, <2>1, FirstNamed
  <2>3. CASE cmd.do = "DelChain"
    <3>1. cmd.chain = Own
      BY <2>3 DEF Commands
    <3>2. later = [k EXCEPT !.chains[t] = RemoveAt(@, x)]
      BY <1>4, <2>1, <2>3 DEF InChain
    <3>3. QED
      BY <2>2, <3>1, <3>2, DelChainGoes
  <2>4. CASE cmd.do = "AddRule"
    <3>1. cmd.expr \in Exprs
      BY <2>4 DEF Commands
    <3>2. PICK loose \in SUBSET (Tables \X Sets) : loose = k.loose \ {<<t, n>> : n \in SetsOf(cmd.expr)}
      BY <1>2
    <3>3. later = [k EXCEPT !.chains[t][x].rules = Append(@, [expr |-> cmd.expr, handle |-> k.next[t] + 1]),
                            !.next[t] = @ + 1, !.loose = @ \ {<<t, n>> : n \in SetsOf(cmd.expr)}]
      BY <1>4, <2>1, <2>4 DEF InChain
    <3>4. later = [k EXCEPT !.chains[t][x].rules = Append(@, [expr |-> cmd.expr, handle |-> k.next[t] + 1]),
                            !.next[t] = @ + 1, !.loose = loose]
      BY <3>2, <3>3
    <3> HIDE DEF later
    <3>5. Goes(k, later)
      <4>1. Goes(k, [k EXCEPT !.chains[t][x].rules = Append(@, [expr |-> cmd.expr, handle |-> k.next[t] + 1]),
                              !.next[t] = @ + 1, !.loose = loose])
        BY <2>2, <3>1, AddRuleGoes
      <4>2. QED
        BY <3>4, <4>1
    <3>6. QED
      BY <3>5 DEF later
  <2>5. CASE cmd.do = "DelRule"
    <3>1. cmd.handle \in Nat /\ \E e \in Exprs \ {Other} : In(s, t, [expr |-> e, handle |-> cmd.handle])
      BY <1>4, <2>5 DEF Commands
    <3> DEFINE rs == k.chains[t][x].rules
               at == {j \in DOMAIN rs : rs[j].handle = cmd.handle}
    <3>2. at # {} /\ later = [k EXCEPT !.chains[t][x].rules = RemoveAt(@, Min(at))]
      BY <1>4, <2>1, <2>5 DEF InChain
    <3>3. DOMAIN rs = 1..Len(rs) /\ Len(rs) \in Nat
      BY <1>1, <2>2, Whereabouts
    <3>4. PICK y \in 1..Len(rs) : y = Min(at) /\ rs[y].handle = cmd.handle
      <4>1. at \in SUBSET Nat
        BY <3>3
      <4> HIDE DEF rs
      <4>2. Min(at) \in at
        <5> HIDE DEF at
        <5> QED
          BY <3>2, <4>1, Lowest
      <4>3. QED
        BY <3>3, <4>2
    <3>5. In(k, t, rs[y])
      BY <2>2, <3>4 DEF In
    <3>6. PICK e \in Exprs \ {Other} : In(s, t, [expr |-> e, handle |-> cmd.handle])
      BY <3>1
    <3>7. PICK r : r = [expr |-> e, handle |-> cmd.handle]
      OBVIOUS
    <3>8. r.handle = rs[y].handle /\ r.expr = e /\ In(s, t, r)
      BY <3>4, <3>6, <3>7
    <3>9. r.handle <= s.next[t]
      BY <3>8 DEF Orderly
    <3>10. In(s, t, rs[y])
      BY <3>5, <3>8, <3>9 DEF Continues
    <3>11. rs[y] = r
      BY <3>8, <3>10 DEF Orderly
    <3>12. rs[y].expr # Other
      BY <3>8, <3>11
    <3> HIDE DEF at
    <3>13. Goes(k, [k EXCEPT !.chains[t][x].rules = RemoveAt(@, y)])
      BY <2>2, <3>4, <3>12, DelRuleGoes
    <3>14. QED
      BY <3>2, <3>4, <3>13
  <2>6. QED
    BY <1>9, <2>3, <2>4, <2>5
<1>10. cmd.do \in {"AddTable", "AddSet", "AddChain", "DelChain", "AddRule", "DelRule"}
  BY DEF Commands
<1>11. QED
  BY <1>6, <1>7, <1>8, <1>9, <1>10

\* A batch, as a whole.
LEMMA ApplyGoes ==
  ASSUME NEW s, Orderly(s), NEW k, Orderly(k), Continues(s, k),
         NEW batch \in Seq(Commands(s)), Apply(k, batch) # NoKernel
  PROVE  Goes(k, Apply(k, batch)) /\ Apply(k, batch).loose = {}
<1> DEFINE A == Commands(s)
           B == {NoKernel} \cup {x \in Kernels : Goes(k, x)}
           n == Len(batch)
           F == [x \in B \X A |-> Execute(x[1], x[2])]
           Body(g) == g = [u \in SUBSET (1..n) |->
                             IF u = {} THEN k ELSE Execute(g[u \ {Max(u)}], batch[Max(u)])]
           c == CHOOSE g : Body(g)
<1>1. F \in [B \X A -> B] /\ \A b \in B, a \in A : F[<<b, a>>] = Execute(b, a)
  <2>1. ASSUME NEW b \in B, NEW a \in A PROVE Execute(b, a) \in B
    <3>1. CASE b = NoKernel \/ Execute(b, a) = NoKernel
      BY <3>1 DEF Execute
    <3>2. CASE b # NoKernel /\ Execute(b, a) # NoKernel
      <4>1. Goes(k, b) /\ Orderly(b)
        BY <3>2 DEF Goes
      <4>2. Goes(b, Execute(b, a))
        BY <3>2, <4>1, ContinuesOn, ExecuteGoes
      <4>3. Goes(k, Execute(b, a))
        BY <4>1, <4>2, GoesOn
      <4>4. QED
        BY <4>3 DEF Goes, Orderly
    <3>3. QED
      BY <3>1, <3>2
  <2> HIDE DEF A, B
  <2>2. QED
    BY <2>1
<1>2. k \in B /\ n \in Nat /\ batch \in Seq(A) /\ DOMAIN batch = 1..n
  BY GoesNowhere DEF Orderly
<1>3. \E g : Body(g)
  <2> HIDE DEF F, B, A
  <2>1. PICK g \in [SUBSET (1..n) -> B] : Folds(g, F, k, batch, n)
    BY <1>1, <1>2, Folding
  <2>2. ASSUME NEW u \in SUBSET (1..n), u # {}
        PROVE  F[<<g[u \ {Max(u)}], batch[Max(u)]>>] = Execute(g[u \ {Max(u)}], batch[Max(u)])
    <3>1. Max(u) \in 1..n
      BY <1>2, <2>2, Highest
    <3>2. u \ {Max(u)} \in SUBSET (1..n)
      OBVIOUS
    <3>3. batch[Max(u)] \in A
      BY <1>2, <3>1
    <3> HIDE DEF n
    <3>4. g[u \ {Max(u)}] \in B
      BY <2>1, <3>2
    <3>5. QED
      BY <1>1, <3>3, <3>4
  <2>3. Body(g)
    BY <2>1, <2>2 DEF Folds
  <2>4. QED
    BY <2>3
<1>4. Body(c)
  <2> HIDE DEF Body
  <2> QED
    BY <1>3
<1>5. FoldLeft(Execute, k, batch) = c[1..n]
  BY <1>2, Zenon DEF FoldLeft, MapThenFoldSet
<1> HIDE DEF c
<1>6. c[1..n] \in B
  <2> HIDE DEF F, B, A
  <2>1. {} \in SUBSET (1..n)
    OBVIOUS
  <2>2. c[{}] = k /\ \A u \in SUBSET (1..n) : u # {} => c[u] = Execute(c[u \ {Max(u)}], batch[Max(u)])
    BY <1>4, <2>1
  <2>3. ASSUME NEW u \in SUBSET (1..n), u # {}, c[u \ {Max(u)}] \in B
        PROVE  c[u] = F[<<c[u \ {Max(u)}], batch[Max(u)]>>]
    <3>1. Max(u) \in 1..n
      BY <1>2, <2>3, Highest
    <3>2. batch[Max(u)] \in A
      BY <1>2, <3>1
    <3>3. QED
      BY <1>1, <2>2, <2>3, <3>2
  <2>4. Runs(c, F, A, B, k, batch)
    BY <1>1, <1>2, <2>2, <2>3 DEF Runs
  <2>5. \A m \in 0..n : c[1..m] \in B
    BY <2>4, FoldSteps, Zenon
  <2>6. n \in 0..n
    BY <1>2
  <2> HIDE DEF n
  <2>7. QED
    BY <2>5, <2>6
<1> HIDE DEF n, F, Body, A
<1>7. PICK after \in B : after = FoldLeft(Execute, k, batch)
  BY <1>5, <1>6
<1>8. after # NoKernel /\ after.loose = {} /\ Apply(k, batch) = after
  BY <1>7 DEF Apply
<1>9. QED
  BY <1>7, <1>8

-----------------------------------------------------------------------------
(* Rules of other programs are not taken for those of kertical.            *)

\* Rules whose first condition does not match are not recognised.
LEMMA FirstFails ==
  ASSUME NEW A, \A a \in A : Len(a) \in Nat, NEW conds \in Seq(A), conds # <<>>,
         NEW E, NEW in \in Seq(E), Match(conds[1], in) = 0
  PROVE  CombineMatch(conds, in) = 0
<1> DEFINE n == Len(conds)
           B == [all : BOOLEAN, count : Nat]
           base == [all |-> TRUE, count |-> 0]
           M(m, a) == Match(a, SubSeq(in, m.count + 1, Len(in)))
           Step(m, a) == IF ~m.all THEN m ELSE [all |-> M(m, a) # 0, count |-> m.count + M(m, a)]
           F == [x \in B \X A |-> Step(x[1], x[2])]
           Body(g) == g = [u \in SUBSET (1..n) |->
                             IF u = {} THEN base ELSE Step(g[u \ {Max(u)}], conds[Max(u)])]
           c == CHOOSE g : Body(g)
<1>1. F \in [B \X A -> B] /\ \A b \in B, a \in A : F[<<b, a>>] = Step(b, a)
  <2>1. ASSUME NEW b \in B, NEW a \in A PROVE Step(b, a) \in B
    <3>1. M(b, a) \in Nat
      BY DEF Match, PrefixMatch
    <3> HIDE DEF M
    <3>2. QED
      BY <3>1
  <2> HIDE DEF Step, B
  <2>2. QED
    BY <2>1
<1>2. base \in B /\ n \in Nat /\ n # 0 /\ DOMAIN conds = 1..n
  OBVIOUS
<1>3. \E g : Body(g)
  <2> HIDE DEF F, B, Step, base
  <2>1. PICK g \in [SUBSET (1..n) -> B] : Folds(g, F, base, conds, n)
    BY <1>1, <1>2, Folding
  <2>2. ASSUME NEW u \in SUBSET (1..n), u # {}
        PROVE  F[<<g[u \ {Max(u)}], conds[Max(u)]>>] = Step(g[u \ {Max(u)}], conds[Max(u)])
    <3>1. Max(u) \in 1..n
      BY <1>2, <2>2, Highest
    <3>2. u \ {Max(u)} \in SUBSET (1..n)
      OBVIOUS
    <3>3. conds[Max(u)] \in A
      BY <1>2, <3>1
    <3> HIDE DEF n
    <3>4. g[u \ {Max(u)}] \in B
      BY <2>1, <3>2
    <3>5. QED
      BY <1>1, <3>3, <3>4
  <2>3. Body(g)
    BY <2>1, <2>2 DEF Folds
  <2>4. QED
    BY <2>3
<1>4. Body(c)
  <2> HIDE DEF Body
  <2> QED
    BY <1>3
<1>5. CombineMatch(conds, in) = IF c[1..n].all THEN c[1..n].count ELSE 0
  <2>1. FoldLeft(Step, base, conds) = c[1..n]
    BY <1>2, Zenon DEF FoldLeft, MapThenFoldSet
  <2>2. CombineMatch(conds, in) =
          IF FoldLeft(Step, base, conds).all THEN FoldLeft(Step, base, conds).count ELSE 0
    BY Zenon DEF CombineMatch
  <2>3. QED
    BY <2>1, <2>2, Zenon
<1> HIDE DEF c
<1>6. c[{}] = base /\ \A u \in SUBSET (1..n) : u # {} => c[u] = Step(c[u \ {Max(u)}], conds[Max(u)])
  <2>1. {} \in SUBSET (1..n)
    OBVIOUS
  <2> HIDE DEF Step, base
  <2>2. QED
    BY <1>4, <2>1
<1>7. \A k \in 1..n : c[1..k] = Step(c[1..(k - 1)], conds[k])
  <2> HIDE DEF Step, Body, base
  <2>1. SUFFICES ASSUME NEW k \in 1..n PROVE c[1..k] = Step(c[1..(k - 1)], conds[k])
    OBVIOUS
  <2>2. 1..k \in SUBSET (1..n) /\ 1..k # {} /\ Max(1..k) = k /\ (1..k) \ {k} = 1..(k - 1)
    BY <1>2, FirstOnes
  <2>3. QED
    BY <1>6, <2>2
<1>8. ~c[1..1].all
  <2>1. 1 \in 1..n /\ 1..(1 - 1) = {}
    BY <1>2
  <2>2. c[1..1] = Step(base, conds[1])
    <3> HIDE DEF Step, base, Body
    <3> QED
      BY <1>6, <1>7, <2>1
  <2>3. SubSeq(in, base.count + 1, Len(in)) = in
    OBVIOUS
  <2>4. M(base, conds[1]) = 0
    BY <2>3
  <2> HIDE DEF M
  <2>5. base.all = TRUE
    OBVIOUS
  <2>6. PICK b : b = base
    OBVIOUS
  <2>7. Step(b, conds[1]) = [all |-> M(b, conds[1]) # 0, count |-> b.count + M(b, conds[1])]
    BY <2>5, <2>6
  <2>8. ~Step(b, conds[1]).all
    BY <2>4, <2>6, <2>7
  <2> HIDE DEF Step, base
  <2>9. QED
    BY <2>2, <2>6, <2>8
<1>9. \A k \in 0..n : k \in {j \in 0..n : j = 0 \/ ~c[1..j].all}
  <2> DEFINE Q == {j \in 0..n : j = 0 \/ ~c[1..j].all}
  <2>1. 0 \in Q
    BY <1>2
  <2>2. ASSUME NEW k \in 1..n, k - 1 \in Q PROVE k \in Q
    <3>1. CASE k = 1
      BY <1>8, <3>1
    <3>2. CASE k # 1
      <4>1. ~c[1..(k - 1)].all
        BY <2>2, <3>2
      <4>2. c[1..k] = Step(c[1..(k - 1)], conds[k])
        <5> HIDE DEF Step
        <5> QED
          BY <1>7
      <4>3. c[1..k] = c[1..(k - 1)]
        BY <4>1, <4>2
      <4>4. QED
        BY <4>1, <4>3
    <3>3. QED
      BY <3>1, <3>2
  <2> HIDE DEF Q
  <2>3. \A k \in 0..n : k \in Q
    BY <1>2, <2>1, <2>2, Counting
  <2>4. QED
    BY <2>3 DEF Q
<1>10. ~c[1..n].all
  BY <1>2, <1>9
<1>11. QED
  BY <1>5, <1>10

\* A list of one list, put together.
LEMMA FlatOne ==
  ASSUME NEW S, NEW s \in Seq(S)
  PROVE  FlattenSeq(<<s>>) = s
<1> DEFINE G == {x \in Nat \X Seq(S) : IF x[1] = 0 THEN x[2] = <<>> ELSE x[2] = s}
<1>a. \A m \in Nat, q \in Seq(S) : <<m, q>> \in G <=> IF m = 0 THEN q = <<>> ELSE q = s
  OBVIOUS
<1>0. PICK seqs : seqs = <<s>>
  OBVIOUS
<1>1. seqs \in [1..1 -> Seq(S)] /\ seqs[1] = s
  <2>1. seqs = [i \in 1..1 |-> s]
    BY <1>0
  <2>2. QED
    BY <2>1
<1> HIDE DEF G
<1>2. \A q \in Seq(S) : Len(q) = 0 => <<0, q>> \in G
  <2>1. \A q \in Seq(S) : Len(q) = 0 => q = <<>>
    OBVIOUS
  <2>2. QED
    BY <1>a, <2>1
<1>3. \A m \in 0..(1 - 1) : \A q \in Seq(S) : <<m, q>> \in G => <<m + 1, q \o seqs[m + 1]>> \in G
  <2>1. SUFFICES ASSUME NEW m \in 0..(1 - 1), NEW q \in Seq(S), <<m, q>> \in G
                 PROVE  <<m + 1, q \o seqs[m + 1]>> \in G
    OBVIOUS
  <2>2. m = 0 /\ q = <<>>
    BY <1>a, <2>1
  <2>3. m + 1 = 1 /\ m + 1 # 0 /\ q \o s = s
    BY <2>2
  <2>4. QED
    BY <1>1, <1>a, <2>3
<1>4. <<1, FlattenSeq(seqs)>> \in G
  BY <1>1, <1>2, <1>3, FlatteningKeeps
<1>5. FlattenSeq(seqs) = s
  <2>1. FlattenSeq(seqs) \in Seq(S)
    BY <1>1, Flattening
  <2>2. QED
    BY <1>a, <1>4, <2>1
<1>6. QED
  BY <1>0, <1>5

LEMMA StoredOther == Stored(ConditionsOf(Other)) = << <<"other">> >>
<1>1. Other \notin Keys /\ Other # Jump
  BY RuleAssumption DEF Other, Jump
<1>2. ConditionsOf(Other) = << << <<"other">> >> >>
  BY <1>1 DEF ConditionsOf
<1>3. << <<"other">> >> \in Seq({<<"other">>})
  OBVIOUS
<1>4. FlattenSeq(<< << <<"other">> >> >>) = << <<"other">> >>
  BY <1>3, FlatOne
<1>5. Build(ConditionsOf(Other)) = << <<"other">> >>
  BY <1>2, <1>4 DEF Build
<1>6. QED
  BY <1>5 DEF Stored

LEMMA Joined ==
  ASSUME NEW S, NEW a \in Seq(S), NEW b \in Seq(S)
  PROVE  Len(a \o b) \in Nat /\ Len(a \o b) = Len(a) + Len(b)
<1>1. Len(a) \in Nat /\ Len(b) \in Nat
  OBVIOUS
<1>2. QED
  BY <1>1, ConcatProperties

\* The conditions of a rule are lists, the first one of two expressions.
LEMMA RuleIsLists ==
  ASSUME NEW f, NEW hook \in Hooks
  PROVE  \E S : /\ RuleOf(f, hook) \in Seq(S) /\ \A a \in S : Len(a) \in Nat
                /\ RuleOf(f, hook) # <<>> /\ Len(RuleOf(f, hook)[1]) = 2
<1> DEFINE to == DestinationNAT(Outgoing(f, hook), f.to)
           ip == DestinationIp(Incoming(f, hook))
           S == {to, ip, TransportProtocol(f.proto), DestinationPort(f.from), DestinationPort(f.to),
                 TrackingMark(f.from), SetTrackingMark(f.from), SourceLocalAddr, Counter, Masquerade, Accept}
<1>1. Len(to) \in Nat
  <2>1. ASSUME NEW E, Outgoing(f, hook) \in Seq(E) PROVE Len(to) \in Nat
    <3> DEFINE G == E \cup {<<"immediate", "port", f.to>>, <<"nat">>}
    <3>1. Outgoing(f, hook) \in Seq(G) /\ << <<"immediate", "port", f.to>>, <<"nat">> >> \in Seq(G)
      BY <2>1
    <3>2. QED
      BY <3>1, Joined DEF DestinationNAT
  <2>2. PICK x, y : x = <<"numgen", Len(f.hosts)>> /\ y = <<"lookup", "map", RandomId, SetName(f, hook)>>
    OBVIOUS
  <2>3. <<x, y>> \in Seq({x, y})
    OBVIOUS
  <2>4. PICK z : z = <<"immediate", "addr", f.hosts[1]>>
    OBVIOUS
  <2>5. <<z>> \in Seq({z})
    OBVIOUS
  <2>6. Outgoing(f, hook) = <<x, y>> \/ Outgoing(f, hook) = <<z>>
    BY <2>2, <2>4 DEF Outgoing, LoadBalancing, ImmediateIp
  <2>7. QED
    BY <2>1, <2>3, <2>5, <2>6
<1>2. Len(ip) = 2
  <2>1. PICK x, z : x = <<"lookup", "set", RandomId, SetName(f, hook)>> /\ z = <<"cmp", "daddr", f.hosts[1]>>
    OBVIOUS
  <2>2. PICK y : y = <<"payload", "daddr">>
    OBVIOUS
  <2>3. Incoming(f, hook) = <<x>> \/ Incoming(f, hook) = <<z>>
    BY <2>1 DEF Incoming, LookupIp, CompareEqualsIp
  <2>4. <<x>> \in Seq({x, y, z}) /\ <<z>> \in Seq({x, y, z}) /\ <<y>> \in Seq({x, y, z})
    OBVIOUS
  <2>5. ip = <<y>> \o <<x>> \/ ip = <<y>> \o <<z>>
    BY <2>2, <2>3 DEF DestinationIp
  <2>6. Len(<<x>>) = 1 /\ Len(<<y>>) = 1 /\ Len(<<z>>) = 1
    OBVIOUS
  <2> HIDE DEF ip
  <2>7. Len(<<y>> \o <<x>>) = 1 + 1 /\ Len(<<y>> \o <<z>>) = 1 + 1
    BY <2>4, <2>6, Joined
  <2>8. QED
    BY <2>5, <2>7
<1>3. /\ Len(TransportProtocol(f.proto)) = 2 /\ Len(SourceLocalAddr) = 2
      /\ Len(DestinationPort(f.from)) = 2 /\ Len(DestinationPort(f.to)) = 2
      /\ Len(TrackingMark(f.from)) = 2 /\ Len(SetTrackingMark(f.from)) = 2
      /\ Len(Counter) = 1 /\ Len(Masquerade) = 1 /\ Len(Accept) = 1
  BY DEF TransportProtocol, SourceLocalAddr, DestinationPort, TrackingMark, SetTrackingMark,
         Counter, Masquerade, Accept
<1> HIDE DEF to, ip
<1>4. \A a \in S : Len(a) \in Nat
  BY <1>1, <1>2, <1>3
<1>5. RuleOf(f, hook) \in Seq(S) /\ RuleOf(f, hook) # <<>> /\ Len(RuleOf(f, hook)[1]) = 2
  <2> DEFINE m == <<ip, TransportProtocol(f.proto), DestinationPort(f.to), TrackingMark(f.from), Counter>>
  <2>1. CASE hook = "PREROUTING"
    <3>1. RuleOf(f, hook) = <<TransportProtocol(f.proto), DestinationPort(f.from), Counter,
                              SetTrackingMark(f.from), to>>
      BY <2>1 DEF RuleOf, to
    <3>2. QED
      BY <1>3, <3>1
  <2>2. CASE hook = "OUTPUT"
    <3>1. RuleOf(f, hook) = <<SourceLocalAddr, TransportProtocol(f.proto), DestinationPort(f.from),
                              Counter, to>>
      BY <2>2 DEF RuleOf, to
    <3>2. QED
      BY <1>3, <3>1
  <2>3. CASE hook \in {"POSTROUTING", "FORWARD"}
    <3>1. PICK last \in {Masquerade, Accept} : RuleOf(f, hook) = m \o <<last>>
      <4>1. RuleOf(f, hook) = IF hook = "POSTROUTING" THEN m \o <<Masquerade>> ELSE m \o <<Accept>>
        BY <2>3 DEF RuleOf, Marked, ip
      <4>2. QED
        BY <4>1
    <3>2. m \in Seq(S) /\ <<last>> \in Seq(S) /\ Len(m) = 5 /\ Len(<<last>>) = 1 /\ m[1] = ip
      OBVIOUS
    <3> HIDE DEF m, S
    <3>3. PICK b \in Seq(S) : b = <<last>>
      BY <3>2
    <3>4. /\ m \o b \in Seq(S) /\ Len(m \o b) = Len(m) + Len(b)
          /\ \A j \in 1..(Len(m) + Len(b)) : (m \o b)[j] = IF j <= Len(m) THEN m[j] ELSE b[j - Len(m)]
      BY <3>2, <3>3, ConcatProperties
    <3>5. Len(m) = 5 /\ Len(b) = 1 /\ m[1] = ip
      BY <3>2, <3>3
    <3>6. Len(m \o b) = 6 /\ (m \o b)[1] = ip
      BY <3>4, <3>5
    <3>7. m \o b # <<>>
      BY <3>4, <3>6
    <3>8. RuleOf(f, hook) = m \o b
      BY <3>1, <3>3
    <3>9. QED
      BY <1>2, <3>4, <3>6, <3>7, <3>8
  <2>4. QED
    BY <2>1, <2>2, <2>3 DEF Hooks
<1>6. QED
  BY <1>4, <1>5

\* kertical's own rules are not taken for those of other programs.
LEMMA OtherIsNotRecognised ==
  ASSUME NEW e \in Exprs \ {Other}
  PROVE  ~Recognised[<<e, Other>>]
<1> DEFINE in == << <<"other">> >>
<1>1. in \in Seq({<<"other">>}) /\ Len(in) = 1 /\ in[1] = <<"other">>
  OBVIOUS
<1>2. \E S : /\ ConditionsOf(e) \in Seq(S) /\ \A a \in S : Len(a) \in Nat
             /\ ConditionsOf(e) # <<>> /\ Match(ConditionsOf(e)[1], in) = 0
  <2>1. CASE e \in Keys
    <3>0. BaseName \in Hooks
      BY HookAssumption
    <3>1. ConditionsOf(e) = RuleOf(Fwd[e], BaseName)
      <4>1. e # Jump /\ e # Other
        BY <2>1, RuleAssumption
      <4>2. QED
        BY <2>1, <4>1 DEF ConditionsOf
    <3>2. PICK S : /\ ConditionsOf(e) \in Seq(S) /\ \A a \in S : Len(a) \in Nat
                   /\ ConditionsOf(e) # <<>> /\ Len(ConditionsOf(e)[1]) = 2
      BY <3>0, <3>1, RuleIsLists
    <3>3. ConditionsOf(e)[1] # Counter
      <4>1. ASSUME ConditionsOf(e)[1] = Counter PROVE FALSE
        <5>1. Len(ConditionsOf(e)[1]) = 2 /\ Len(Counter) = 1
          BY <3>2 DEF Counter
        <5>2. Len(Counter) = 2
          BY <4>1, <5>1, Zenon
        <5>3. QED
          BY <5>1, <5>2
      <4>2. QED
        BY <4>1
    <3>4. Match(ConditionsOf(e)[1], in) = 0
      BY <1>1, <3>2, <3>3 DEF Match, PrefixMatch
    <3>5. QED
      BY <3>2, <3>4
  <2>2. CASE e \notin Keys /\ e = Jump
    <3>1. ConditionsOf(e) = <<Counter, JumpTo(Own)>>
      BY <2>2 DEF ConditionsOf
    <3>2. Len(Counter) = 1 /\ Len(JumpTo(Own)) = 1
      BY DEF Counter, JumpTo
    <3>3. PICK S : S = {Counter, JumpTo(Own)}
      OBVIOUS
    <3>4. ConditionsOf(e) \in Seq(S) /\ ConditionsOf(e) # <<>> /\ ConditionsOf(e)[1] = Counter
      BY <3>1, <3>3
    <3>5. Match(Counter, in) = 0
      BY <1>1 DEF Match
    <3>6. QED
      BY <3>2, <3>3, <3>4, <3>5
  <2>3. CASE e \notin Keys /\ e # Jump
    <3>1. ConditionsOf(e) = <<TrackingEstablishedRelated, Accept>>
      BY <2>3 DEF ConditionsOf
    <3>2. Len(TrackingEstablishedRelated) = 3 /\ Len(Accept) = 1 /\ Len(Counter) = 1
      BY DEF TrackingEstablishedRelated, Accept, Counter
    <3>3. PICK S : S = {TrackingEstablishedRelated, Accept}
      OBVIOUS
    <3>4. /\ ConditionsOf(e) \in Seq(S) /\ ConditionsOf(e) # <<>>
          /\ ConditionsOf(e)[1] = TrackingEstablishedRelated
      BY <3>1, <3>3
    <3>5. Match(TrackingEstablishedRelated, in) = 0
      BY <1>1, <3>2 DEF Match, PrefixMatch
    <3>6. QED
      BY <3>2, <3>3, <3>4, <3>5
  <2>4. QED
    BY <2>1, <2>2, <2>3
<1> HIDE DEF in
<1>3. CombineMatch(ConditionsOf(e), in) = 0
  BY <1>1, <1>2, FirstFails
<1>4. ~RuleExpr(ConditionsOf(e), in)
  BY <1>1, <1>3 DEF RuleExpr
<1>5. Other \in Exprs /\ e \in Exprs
  BY DEF Exprs
<1>6. Stored(ConditionsOf(Other)) = in
  BY StoredOther DEF in
<1>7. QED
  BY <1>4, <1>5, <1>6 DEF Recognised

-----------------------------------------------------------------------------
(* Snapshots: what a mutation makes of one keeps to the kernel it shows.   *)

Found(k) ==
  {r \in [table : Tables, chain : Names, expr : Exprs, handle : Nat] :
     In(k, r.table, [expr |-> r.expr, handle |-> r.handle])}
Seen(k) ==
  {x \in [table : Tables, name : Names, kind : Kinds, typed : BOOLEAN, rules : Seq(Rules)] :
     \A j \in 1..Len(x.rules) : In(k, x.table, x.rules[j])}
Snapshots(k) == [chains : Seq(Seen(k)), rules : Seq(Found(k)), n : Nat, batch : Seq(Commands(k))]
Views(k) == {s \in Snapshots(k) : s.n <= Len(s.rules)}

LEMMA ViewHas ==
  ASSUME NEW k, NEW s \in Views(k)
  PROVE  /\ s \in Snapshots(k) /\ s.n <= Len(s.rules)
         /\ s.chains \in Seq(Seen(k)) /\ s.rules \in Seq(Found(k)) /\ s.n \in Nat
         /\ s.batch \in Seq(Commands(k))
         /\ Len(s.chains) \in Nat /\ DOMAIN s.chains = 1..Len(s.chains)
         /\ Len(s.rules) \in Nat /\ DOMAIN s.rules = 1..Len(s.rules)
         /\ \A i \in 1..s.n : i \in 1..Len(s.rules)
         /\ \A i \in 1..Len(s.chains) : s.chains[i] \in Seen(k)
         /\ \A i \in 1..Len(s.rules) : s.rules[i] \in Found(k)
<1>1. s \in Snapshots(k) /\ s.n <= Len(s.rules)
  BY DEF Views
<1>2. /\ s.chains \in Seq(Seen(k)) /\ s.rules \in Seq(Found(k)) /\ s.n \in Nat
      /\ s.batch \in Seq(Commands(k))
  BY <1>1 DEF Snapshots
<1>3. /\ Len(s.chains) \in Nat /\ DOMAIN s.chains = 1..Len(s.chains)
      /\ Len(s.rules) \in Nat /\ DOMAIN s.rules = 1..Len(s.rules)
      /\ \A i \in 1..Len(s.chains) : s.chains[i] \in Seen(k)
      /\ \A i \in 1..Len(s.rules) : s.rules[i] \in Found(k)
  BY <1>2
<1>4. \A i \in 1..s.n : i \in 1..Len(s.rules)
  BY <1>1, <1>2, <1>3
<1>5. QED
  BY <1>1, <1>2, <1>3, <1>4

LEMMA IssueViews ==
  ASSUME NEW k, NEW s \in Views(k), NEW cmd \in Commands(k)
  PROVE  Issue(s, cmd) \in Views(k) /\ Issue(s, cmd).rules = s.rules
<1>1. /\ s \in Snapshots(k) /\ s.n <= Len(s.rules) /\ s.batch \in Seq(Commands(k))
  BY ViewHas
<1>2. Append(s.batch, cmd) \in Seq(Commands(k))
  BY <1>1, AppendProperties
<1>3. Issue(s, cmd) = [s EXCEPT !.batch = Append(s.batch, cmd)]
  BY DEF Issue
<1>4. /\ Issue(s, cmd) \in Snapshots(k)
      /\ Issue(s, cmd).rules = s.rules /\ Issue(s, cmd).n = s.n
  BY <1>1, <1>2, <1>3 DEF Snapshots
<1>5. QED
  BY <1>1, <1>4 DEF Views

LEMMA ShiftViews ==
  ASSUME NEW k, NEW s \in Views(k), NEW i \in 1..s.n
  PROVE  Shift(s, i) \in Views(k) /\ Len(Shift(s, i).rules) = Len(s.rules)
<1>1. /\ s \in Snapshots(k) /\ s.n <= Len(s.rules) /\ s.n \in Nat
      /\ Len(s.rules) \in Nat /\ DOMAIN s.rules = 1..Len(s.rules)
      /\ \A j \in 1..Len(s.rules) : s.rules[j] \in Found(k)
  BY ViewHas
<1>2. PICK rs : rs = [j \in 1..Len(s.rules) |->
                        IF j \in i..(s.n - 1) THEN s.rules[j + 1] ELSE s.rules[j]]
  OBVIOUS
<1>3. \A j \in 1..Len(s.rules) : rs[j] \in Found(k)
  <2>1. SUFFICES ASSUME NEW j \in 1..Len(s.rules) PROVE rs[j] \in Found(k)
    OBVIOUS
  <2>2. CASE j \in i..(s.n - 1)
    <3>1. j + 1 \in 1..Len(s.rules)
      BY <1>1, <2>2
    <3>2. QED
      BY <1>1, <1>2, <2>2, <3>1
  <2>3. CASE j \notin i..(s.n - 1)
    BY <1>1, <1>2, <2>3
  <2>4. QED
    BY <2>2, <2>3
<1>4. rs \in Seq(Found(k)) /\ Len(rs) = Len(s.rules)
  BY <1>1, <1>2, <1>3
<1>5. Shift(s, i) = [s EXCEPT !.rules = rs, !.n = s.n - 1]
  BY <1>1, <1>2 DEF Shift
<1>6. s.n - 1 \in Nat /\ s.n - 1 <= Len(s.rules)
  BY <1>1
<1>7. Shift(s, i) \in Snapshots(k) /\ Shift(s, i).rules = rs /\ Shift(s, i).n = s.n - 1
  BY <1>1, <1>4, <1>5, <1>6 DEF Snapshots
<1>8. QED
  BY <1>4, <1>6, <1>7 DEF Views

\* A rule that is taken for one of kertical's may be deleted.
LEMMA TakenForOwn ==
  ASSUME NEW k, NEW r \in Found(k), NEW t, NEW c, NEW e \in Exprs \ {Other}, IsRule(r, t, c, e)
  PROVE  DelRule(t, c, r.handle) \in Commands(k) /\ t \in Tables /\ c \in Names
<1>1. /\ r.table = t /\ r.chain = c /\ t \in Tables /\ c \in Names /\ r.expr \in Exprs /\ r.handle \in Nat
      /\ In(k, t, [expr |-> r.expr, handle |-> r.handle])
  BY DEF Found, IsRule
<1>2. r.expr # Other
  BY OtherIsNotRecognised DEF IsRule
<1>3. PICK x : x = DelRule(t, c, r.handle)
  OBVIOUS
<1>4. /\ x \in [do : {"DelRule"}, table : Tables, chain : Names, handle : Nat]
      /\ x.table = t /\ x.handle = r.handle
  BY <1>1, <1>3 DEF DelRule
<1>5. \E f \in Exprs \ {Other} : In(k, x.table, [expr |-> f, handle |-> x.handle])
  BY <1>1, <1>2, <1>4
<1>6. QED
  BY <1>1, <1>3, <1>4, <1>5 DEF Commands

LEMMA DeleteRuleViews ==
  ASSUME NEW k, NEW s \in Views(k), NEW t, NEW c, NEW h, DelRule(t, c, h) \in Commands(k)
  PROVE  DeleteRule(s, t, c, h) \in Views(k) /\ Len(DeleteRule(s, t, c, h).rules) = Len(s.rules)
<1> DEFINE hits == {i \in 1..s.n : s.rules[i].handle = h}
<1>1. s.n \in Nat
  BY ViewHas
<1>2. CASE hits = {}
  BY <1>2 DEF DeleteRule
<1>3. CASE hits # {}
  <2>1. Min(hits) \in 1..s.n
    <3>1. hits \in SUBSET Nat
      BY <1>1
    <3>2. hits \subseteq 1..s.n
      OBVIOUS
    <3> HIDE DEF hits
    <3>3. QED
      BY <1>3, <3>1, <3>2, Lowest
  <2>2. PICK u : u = Shift(s, Min(hits))
    OBVIOUS
  <2>3. u \in Views(k) /\ Len(u.rules) = Len(s.rules)
    BY <2>1, <2>2, ShiftViews
  <2>4. Issue(u, DelRule(t, c, h)) \in Views(k) /\ Issue(u, DelRule(t, c, h)).rules = u.rules
    BY <2>3, IssueViews
  <2>5. DeleteRule(s, t, c, h) = Issue(u, DelRule(t, c, h))
    BY <1>3, <2>2 DEF DeleteRule
  <2>6. QED
    BY <2>3, <2>4, <2>5
<1>4. QED
  BY <1>2, <1>3

LEMMA DeleteChainViews ==
  ASSUME NEW k, NEW s \in Views(k), NEW t \in Tables
  PROVE  DeleteChain(s, t, Own) \in Views(k)
<1> DEFINE hits == {i \in DOMAIN s.chains : s.chains[i].table = t /\ s.chains[i].name = Own}
<1>1. /\ s \in Snapshots(k) /\ s.n <= Len(s.rules) /\ s.chains \in Seq(Seen(k))
      /\ Len(s.chains) \in Nat /\ DOMAIN s.chains = 1..Len(s.chains)
  BY ViewHas
<1>2. CASE hits = {}
  BY <1>2 DEF DeleteChain
<1>3. CASE hits # {}
  <2>1. Min(hits) \in 1..Len(s.chains)
    <3>1. hits \in SUBSET Nat
      BY <1>1
    <3>2. hits \subseteq 1..Len(s.chains)
      BY <1>1
    <3> HIDE DEF hits
    <3>3. QED
      BY <1>3, <3>1, <3>2, Lowest
  <2>2. PICK cs \in Seq(Seen(k)) : cs = RemoveAt(s.chains, Min(hits))
    BY <1>1, <2>1, Removed
  <2>3. PICK u : u = [s EXCEPT !.chains = cs]
    OBVIOUS
  <2>4. u \in Snapshots(k) /\ u.n = s.n /\ u.rules = s.rules
    BY <1>1, <2>2, <2>3 DEF Snapshots
  <2>5. u \in Views(k)
    BY <1>1, <2>4 DEF Views
  <2>6. DelChain(t, Own) \in Commands(k)
    BY DEF DelChain, Commands
  <2>7. DeleteChain(s, t, Own) = Issue(u, DelChain(t, Own))
    BY <1>3, <2>2, <2>3 DEF DeleteChain
  <2>8. QED
    BY <2>5, <2>6, <2>7, IssueViews
<1>4. QED
  BY <1>2, <1>3

LEMMA DeleteFromViews ==
  ASSUME NEW k, NEW s \in Views(k), NEW first, NEW t, NEW c, NEW e \in Exprs \ {Other}
  PROVE  DeleteFrom(s, first, t, c, e) \in Views(k)
<1> DEFINE A == 1..s.n
           B == {u \in Views(k) : Len(u.rules) = Len(s.rules)}
           base == s
           seq == [i \in 1..s.n |-> i]
           Step(u, i) == IF i >= first /\ IsRule(u.rules[i], t, c, e)
                           THEN DeleteRule(u, t, c, u.rules[i].handle) ELSE u
           n == Len(seq)
           F == [x \in B \X A |-> Step(x[1], x[2])]
           Body(g) == g = [u \in SUBSET (1..n) |->
                             IF u = {} THEN base ELSE Step(g[u \ {Max(u)}], seq[Max(u)])]
           g0 == CHOOSE g : Body(g)
<1>1. F \in [B \X A -> B] /\ \A b \in B, a \in A : F[<<b, a>>] = Step(b, a)
  <2>1. ASSUME NEW b \in B, NEW a \in A PROVE Step(b, a) \in B
    <3>1. b \in Views(k) /\ Len(b.rules) = Len(s.rules) /\ a \in 1..Len(b.rules)
      BY ViewHas
    <3>2. CASE a >= first /\ IsRule(b.rules[a], t, c, e)
      <4>1. b.rules[a] \in Found(k)
        BY <3>1, ViewHas
      <4>2. DelRule(t, c, b.rules[a].handle) \in Commands(k)
        BY <3>2, <4>1, TakenForOwn
      <4>3. DeleteRule(b, t, c, b.rules[a].handle) \in B
        BY <3>1, <4>2, DeleteRuleViews
      <4>4. QED
        BY <3>2, <4>3
    <3>3. CASE ~(a >= first /\ IsRule(b.rules[a], t, c, e))
      BY <3>3
    <3>4. QED
      BY <3>2, <3>3
  <2> HIDE DEF A, B, Step
  <2>2. QED
    BY <2>1
<1>2. base \in B /\ n \in Nat /\ seq \in Seq(A) /\ DOMAIN seq = 1..n
  <2>1. s.n \in Nat
    BY ViewHas
  <2>2. QED
    BY <2>1
<1>3. \E g : Body(g)
  <2> HIDE DEF F, B, A, Step, base, seq
  <2>1. PICK g \in [SUBSET (1..n) -> B] : Folds(g, F, base, seq, n)
    BY <1>1, <1>2, Folding
  <2>2. ASSUME NEW u \in SUBSET (1..n), u # {}
        PROVE  F[<<g[u \ {Max(u)}], seq[Max(u)]>>] = Step(g[u \ {Max(u)}], seq[Max(u)])
    <3>1. Max(u) \in 1..n
      BY <1>2, <2>2, Highest
    <3>2. u \ {Max(u)} \in SUBSET (1..n)
      OBVIOUS
    <3>3. seq[Max(u)] \in A
      BY <1>2, <3>1
    <3> HIDE DEF n
    <3>4. g[u \ {Max(u)}] \in B
      BY <2>1, <3>2
    <3>5. QED
      BY <1>1, <3>3, <3>4
  <2>3. Body(g)
    BY <2>1, <2>2 DEF Folds
  <2>4. QED
    BY <2>3
<1>4. Body(g0)
  <2> HIDE DEF Body
  <2> QED
    BY <1>3
<1>5. DeleteFrom(s, first, t, c, e) = g0[1..n]
  BY <1>2, Zenon DEF DeleteFrom, FoldLeft, MapThenFoldSet
<1> HIDE DEF g0
<1>6. g0[1..n] \in B
  <2> HIDE DEF F, B, A, Step, base, seq
  <2>1. {} \in SUBSET (1..n)
    OBVIOUS
  <2>2. g0[{}] = base /\ \A u \in SUBSET (1..n) : u # {} => g0[u] = Step(g0[u \ {Max(u)}], seq[Max(u)])
    BY <1>4, <2>1
  <2>3. ASSUME NEW u \in SUBSET (1..n), u # {}, g0[u \ {Max(u)}] \in B
        PROVE  g0[u] = F[<<g0[u \ {Max(u)}], seq[Max(u)]>>]
    <3>1. Max(u) \in 1..n
      BY <1>2, <2>3, Highest
    <3>2. seq[Max(u)] \in A
      BY <1>2, <3>1
    <3>3. QED
      BY <1>1, <2>2, <2>3, <3>2
  <2>4. Runs(g0, F, A, B, base, seq)
    BY <1>1, <1>2, <2>2, <2>3 DEF Runs
  <2>5. \A m \in 0..n : g0[1..m] \in B
    BY <2>4, FoldSteps, Zenon
  <2>6. n \in 0..n
    BY <1>2
  <2> HIDE DEF n
  <2>7. QED
    BY <2>5, <2>6
<1>7. QED
  BY <1>5, <1>6

LEMMA Kerticals == Jump \in Exprs \ {Other} /\ Own \in Names /\ BaseName \in Names /\ BaseName # Own
<1>1. Jump # Other
  BY DEF Jump, Other
<1>2. BaseName # Own
  BY HookAssumption
<1>3. QED
  BY <1>1, <1>2 DEF Exprs, Names

LEMMA RulePresentViews ==
  ASSUME NEW k, NEW s \in Views(k), NEW t \in Tables, NEW c \in Names, NEW e \in Exprs \ {Other}
  PROVE  RulePresent(s, t, c, e) \in Views(k)
<1> DEFINE hits == {i \in 1..s.n : IsRule(s.rules[i], t, c, e)}
<1>1. AddRule(t, c, e) \in Commands(k)
  BY DEF AddRule, Commands
<1>2. CASE hits = {}
  BY <1>1, <1>2, IssueViews DEF RulePresent
<1>3. CASE hits # {}
  <2>1. DeleteFrom(s, Min(hits) + 1, t, c, e) \in Views(k)
    BY DeleteFromViews
  <2>2. QED
    BY <1>3, <2>1 DEF RulePresent
<1>4. QED
  BY <1>2, <1>3

LEMMA RuleCleanUpViews ==
  ASSUME NEW k, NEW s \in Views(k), NEW t, NEW c, NEW e \in Exprs \ {Other}
  PROVE  RuleCleanUp(s, t, c, e) \in Views(k)
BY DeleteFromViews DEF RuleCleanUp

LEMMA SetPresentViews ==
  ASSUME NEW k, NEW s \in Views(k), NEW t \in Tables, NEW key \in Keys
  PROVE  SetPresent(s, t, key) \in Views(k)
<1>1. AddSet(t, SetName(Fwd[key], BaseName)) \in Commands(k)
  <2>1. PICK x : x = SetName(Fwd[key], BaseName)
    OBVIOUS
  <2>2. x \in Sets
    BY <2>1 DEF Sets
  <2>3. AddSet(t, x) \in Commands(k)
    BY <2>2 DEF AddSet, Commands
  <2>4. QED
    BY <2>1, <2>3
<1>2. QED
  BY <1>1, IssueViews DEF SetPresent

\* A chain that the kernel creates if it has none of the name.
LEMMA NewChainViews ==
  ASSUME NEW k, NEW s \in Views(k), NEW t \in Tables
  PROVE  /\ Issue(s, AddChain(t, BaseName, "match", TRUE)) \in Views(k)
         /\ Issue(s, AddChain(t, Own, "regular", FALSE)) \in Views(k)
         /\ Issue(s, AddTable(t)) \in Views(k)
<1>1. AddChain(t, BaseName, "match", TRUE) \in Commands(k)
  BY Kerticals DEF AddChain, Commands, Kinds
<1>2. AddChain(t, Own, "regular", FALSE) \in Commands(k)
  BY Kerticals DEF AddChain, Commands, Kinds
<1>3. AddTable(t) \in Commands(k)
  BY DEF AddTable, Commands
<1>4. QED
  BY <1>1, <1>2, <1>3, IssueViews

LEMMA EachPresentViews ==
  ASSUME NEW k, NEW s \in Views(k), NEW t \in Tables
  PROVE  EachHooked(LAMBDA u, c : RulePresent(u, t, c, Jump), s) \in Views(k)
<1> DEFINE A == Seen(k)
           B == Views(k)
           base == s
           seq == s.chains
           Step(u, x) == IF x.kind \in Hooked THEN RulePresent(u, t, x.name, Jump) ELSE u
           n == Len(seq)
           F == [x \in B \X A |-> Step(x[1], x[2])]
           Body(g) == g = [u \in SUBSET (1..n) |->
                             IF u = {} THEN base ELSE Step(g[u \ {Max(u)}], seq[Max(u)])]
           g0 == CHOOSE g : Body(g)
<1>1. F \in [B \X A -> B] /\ \A b \in B, a \in A : F[<<b, a>>] = Step(b, a)
  <2>1. ASSUME NEW b \in B, NEW a \in A PROVE Step(b, a) \in B
    <3>1. a.name \in Names
      BY DEF Seen
    <3>2. RulePresent(b, t, a.name, Jump) \in Views(k)
      BY <3>1, Kerticals, RulePresentViews
    <3>3. QED
      BY <3>2
  <2> HIDE DEF A, B, Step
  <2>2. QED
    BY <2>1
<1>2. base \in B /\ n \in Nat /\ seq \in Seq(A) /\ DOMAIN seq = 1..n
  <2>1. s.chains \in Seq(Seen(k)) /\ Len(s.chains) \in Nat /\ DOMAIN s.chains = 1..Len(s.chains)
    BY ViewHas
  <2>2. QED
    BY <2>1
<1>3. \E g : Body(g)
  <2> HIDE DEF F, B, A, Step, base, seq
  <2>1. PICK g \in [SUBSET (1..n) -> B] : Folds(g, F, base, seq, n)
    BY <1>1, <1>2, Folding
  <2>2. ASSUME NEW u \in SUBSET (1..n), u # {}
        PROVE  F[<<g[u \ {Max(u)}], seq[Max(u)]>>] = Step(g[u \ {Max(u)}], seq[Max(u)])
    <3>1. Max(u) \in 1..n
      BY <1>2, <2>2, Highest
    <3>2. u \ {Max(u)} \in SUBSET (1..n)
      OBVIOUS
    <3>3. seq[Max(u)] \in A
      BY <1>2, <3>1
    <3> HIDE DEF n
    <3>4. g[u \ {Max(u)}] \in B
      BY <2>1, <3>2
    <3>5. QED
      BY <1>1, <3>3, <3>4
  <2>3. Body(g)
    BY <2>1, <2>2 DEF Folds
  <2>4. QED
    BY <2>3
<1>4. Body(g0)
  <2> HIDE DEF Body
  <2> QED
    BY <1>3
<1>5. EachHooked(LAMBDA u, c : RulePresent(u, t, c, Jump), s) = g0[1..n]
  BY <1>2, Zenon DEF EachHooked, FoldLeft, MapThenFoldSet
<1> HIDE DEF g0
<1>6. g0[1..n] \in B
  <2> HIDE DEF F, B, A, Step, base, seq
  <2>1. {} \in SUBSET (1..n)
    OBVIOUS
  <2>2. g0[{}] = base /\ \A u \in SUBSET (1..n) : u # {} => g0[u] = Step(g0[u \ {Max(u)}], seq[Max(u)])
    BY <1>4, <2>1
  <2>3. ASSUME NEW u \in SUBSET (1..n), u # {}, g0[u \ {Max(u)}] \in B
        PROVE  g0[u] = F[<<g0[u \ {Max(u)}], seq[Max(u)]>>]
    <3>1. Max(u) \in 1..n
      BY <1>2, <2>3, Highest
    <3>2. seq[Max(u)] \in A
      BY <1>2, <3>1
    <3>3. QED
      BY <1>1, <2>2, <2>3, <3>2
  <2>4. Runs(g0, F, A, B, base, seq)
    BY <1>1, <1>2, <2>2, <2>3 DEF Runs
  <2>5. \A m \in 0..n : g0[1..m] \in B
    BY <2>4, FoldSteps, Zenon
  <2>6. n \in 0..n
    BY <1>2
  <2> HIDE DEF n
  <2>7. QED
    BY <2>5, <2>6
<1>7. QED
  BY <1>5, <1>6

LEMMA EachCleanUpViews ==
  ASSUME NEW k, NEW s \in Views(k), NEW t \in Tables
  PROVE  EachHooked(LAMBDA u, c : RuleCleanUp(u, t, c, Jump), s) \in Views(k)
<1> DEFINE A == Seen(k)
           B == Views(k)
           base == s
           seq == s.chains
           Step(u, x) == IF x.kind \in Hooked THEN RuleCleanUp(u, t, x.name, Jump) ELSE u
           n == Len(seq)
           F == [x \in B \X A |-> Step(x[1], x[2])]
           Body(g) == g = [u \in SUBSET (1..n) |->
                             IF u = {} THEN base ELSE Step(g[u \ {Max(u)}], seq[Max(u)])]
           g0 == CHOOSE g : Body(g)
<1>1. F \in [B \X A -> B] /\ \A b \in B, a \in A : F[<<b, a>>] = Step(b, a)
  <2>1. ASSUME NEW b \in B, NEW a \in A PROVE Step(b, a) \in B
    <3>1. a.name \in Names
      BY DEF Seen
    <3>2. RuleCleanUp(b, t, a.name, Jump) \in Views(k)
      BY <3>1, Kerticals, RuleCleanUpViews
    <3>3. QED
      BY <3>2
  <2> HIDE DEF A, B, Step
  <2>2. QED
    BY <2>1
<1>2. base \in B /\ n \in Nat /\ seq \in Seq(A) /\ DOMAIN seq = 1..n
  <2>1. s.chains \in Seq(Seen(k)) /\ Len(s.chains) \in Nat /\ DOMAIN s.chains = 1..Len(s.chains)
    BY ViewHas
  <2>2. QED
    BY <2>1
<1>3. \E g : Body(g)
  <2> HIDE DEF F, B, A, Step, base, seq
  <2>1. PICK g \in [SUBSET (1..n) -> B] : Folds(g, F, base, seq, n)
    BY <1>1, <1>2, Folding
  <2>2. ASSUME NEW u \in SUBSET (1..n), u # {}
        PROVE  F[<<g[u \ {Max(u)}], seq[Max(u)]>>] = Step(g[u \ {Max(u)}], seq[Max(u)])
    <3>1. Max(u) \in 1..n
      BY <1>2, <2>2, Highest
    <3>2. u \ {Max(u)} \in SUBSET (1..n)
      OBVIOUS
    <3>3. seq[Max(u)] \in A
      BY <1>2, <3>1
    <3> HIDE DEF n
    <3>4. g[u \ {Max(u)}] \in B
      BY <2>1, <3>2
    <3>5. QED
      BY <1>1, <3>3, <3>4
  <2>3. Body(g)
    BY <2>1, <2>2 DEF Folds
  <2>4. QED
    BY <2>3
<1>4. Body(g0)
  <2> HIDE DEF Body
  <2> QED
    BY <1>3
<1>5. EachHooked(LAMBDA u, c : RuleCleanUp(u, t, c, Jump), s) = g0[1..n]
  BY <1>2, Zenon DEF EachHooked, FoldLeft, MapThenFoldSet
<1> HIDE DEF g0
<1>6. g0[1..n] \in B
  <2> HIDE DEF F, B, A, Step, base, seq
  <2>1. {} \in SUBSET (1..n)
    OBVIOUS
  <2>2. g0[{}] = base /\ \A u \in SUBSET (1..n) : u # {} => g0[u] = Step(g0[u \ {Max(u)}], seq[Max(u)])
    BY <1>4, <2>1
  <2>3. ASSUME NEW u \in SUBSET (1..n), u # {}, g0[u \ {Max(u)}] \in B
        PROVE  g0[u] = F[<<g0[u \ {Max(u)}], seq[Max(u)]>>]
    <3>1. Max(u) \in 1..n
      BY <1>2, <2>3, Highest
    <3>2. seq[Max(u)] \in A
      BY <1>2, <3>1
    <3>3. QED
      BY <1>1, <2>2, <2>3, <3>2
  <2>4. Runs(g0, F, A, B, base, seq)
    BY <1>1, <1>2, <2>2, <2>3 DEF Runs
  <2>5. \A m \in 0..n : g0[1..m] \in B
    BY <2>4, FoldSteps, Zenon
  <2>6. n \in 0..n
    BY <1>2
  <2> HIDE DEF n
  <2>7. QED
    BY <2>5, <2>6
<1>7. QED
  BY <1>5, <1>6

LEMMA BaseChainViews ==
  ASSUME NEW k, NEW s \in Views(k), NEW t \in Tables
  PROVE  BaseChainPresent(s, t) \in Views(k) /\ BaseChainCleanUp(s, t) \in Views(k)
<1>1. RulePresent(Issue(s, AddChain(t, BaseName, "match", TRUE)), t, BaseName, Jump) \in Views(k)
  BY Kerticals, NewChainViews, RulePresentViews
<1>2. EachHooked(LAMBDA u, c : RulePresent(u, t, c, Jump), s) \in Views(k)
  BY EachPresentViews
<1>3. BaseChainPresent(s, t) \in Views(k)
  BY <1>1, <1>2, Zenon DEF BaseChainPresent
<1>4. BaseChainCleanUp(s, t) \in Views(k)
  BY EachCleanUpViews, Zenon DEF BaseChainCleanUp
<1>5. QED
  BY <1>3, <1>4

LEMMA OwnRulesAre ==
  /\ OwnRules \in Seq(Exprs \ {Other}) /\ Reverse(OwnRules) \in Seq(Exprs \ {Other})
  /\ DOMAIN OwnRules = 1..Len(OwnRules) /\ DOMAIN Reverse(OwnRules) = 1..Len(Reverse(OwnRules))
<1>1. /\ Len(OwnRules) \in Nat /\ DOMAIN OwnRules = 1..Len(OwnRules)
      /\ \A i \in 1..Len(OwnRules) : OwnRules[i] \in {"established"}
  BY RuleAssumption
<1>2. \A i \in 1..Len(OwnRules) : OwnRules[i] \in Exprs /\ OwnRules[i] # Other
  BY <1>1 DEF Exprs, ToSet, Other
<1>3. PICK r : r = [i \in 1..Len(OwnRules) |-> OwnRules[(Len(OwnRules) - i) + 1]]
  OBVIOUS
<1>4. \A i \in 1..Len(OwnRules) : r[i] \in Exprs \ {Other}
  <2>1. ASSUME NEW i \in 1..Len(OwnRules) PROVE r[i] \in Exprs \ {Other}
    <3>1. (Len(OwnRules) - i) + 1 \in 1..Len(OwnRules)
      BY <1>1
    <3>2. QED
      BY <1>2, <1>3, <3>1
  <2>2. QED
    BY <2>1
<1>5. r \in Seq(Exprs \ {Other}) /\ DOMAIN r = 1..Len(r)
  BY <1>1, <1>3, <1>4
<1>6. OwnRules \in Seq(Exprs \ {Other})
  <2>1. OwnRules = [i \in 1..Len(OwnRules) |-> OwnRules[i]]
    BY RuleAssumption
  <2>2. QED
    BY <1>1, <1>2, <2>1
<1>7. QED
  BY <1>1, <1>3, <1>5, <1>6 DEF Reverse

LEMMA RegularChainPresentViews ==
  ASSUME NEW k, NEW s \in Views(k), NEW t \in Tables
  PROVE  RegularChainPresent(s, t) \in Views(k)
<1> DEFINE A == Exprs \ {Other}
           B == Views(k)
           base == Issue(s, AddChain(t, Own, "regular", FALSE))
           seq == OwnRules
           Step(u, e) == RulePresent(u, t, Own, e)
           n == Len(seq)
           F == [x \in B \X A |-> Step(x[1], x[2])]
           Body(g) == g = [u \in SUBSET (1..n) |->
                             IF u = {} THEN base ELSE Step(g[u \ {Max(u)}], seq[Max(u)])]
           g0 == CHOOSE g : Body(g)
<1>1. F \in [B \X A -> B] /\ \A b \in B, a \in A : F[<<b, a>>] = Step(b, a)
  <2>1. ASSUME NEW b \in B, NEW a \in A PROVE Step(b, a) \in B
    BY Kerticals, RulePresentViews
  <2> HIDE DEF A, B, Step
  <2>2. QED
    BY <2>1
<1>2. base \in B /\ n \in Nat /\ seq \in Seq(A) /\ DOMAIN seq = 1..n
  <2>1. base \in B
    BY NewChainViews
  <2>2. seq \in Seq(A) /\ DOMAIN seq = 1..n
    BY OwnRulesAre
  <2>3. n \in Nat
    BY <2>2
  <2>4. QED
    BY <2>1, <2>2, <2>3
<1>3. \E g : Body(g)
  <2> HIDE DEF F, B, A, Step, base, seq
  <2>1. PICK g \in [SUBSET (1..n) -> B] : Folds(g, F, base, seq, n)
    BY <1>1, <1>2, Folding
  <2>2. ASSUME NEW u \in SUBSET (1..n), u # {}
        PROVE  F[<<g[u \ {Max(u)}], seq[Max(u)]>>] = Step(g[u \ {Max(u)}], seq[Max(u)])
    <3>1. Max(u) \in 1..n
      BY <1>2, <2>2, Highest
    <3>2. u \ {Max(u)} \in SUBSET (1..n)
      OBVIOUS
    <3>3. seq[Max(u)] \in A
      BY <1>2, <3>1
    <3> HIDE DEF n
    <3>4. g[u \ {Max(u)}] \in B
      BY <2>1, <3>2
    <3>5. QED
      BY <1>1, <3>3, <3>4
  <2>3. Body(g)
    BY <2>1, <2>2 DEF Folds
  <2>4. QED
    BY <2>3
<1>4. Body(g0)
  <2> HIDE DEF Body
  <2> QED
    BY <1>3
<1>5. RegularChainPresent(s, t) = g0[1..n]
  BY <1>2, Zenon DEF RegularChainPresent, FoldLeft, MapThenFoldSet
<1> HIDE DEF g0
<1>6. g0[1..n] \in B
  <2> HIDE DEF F, B, A, Step, base, seq
  <2>1. {} \in SUBSET (1..n)
    OBVIOUS
  <2>2. g0[{}] = base /\ \A u \in SUBSET (1..n) : u # {} => g0[u] = Step(g0[u \ {Max(u)}], seq[Max(u)])
    BY <1>4, <2>1
  <2>3. ASSUME NEW u \in SUBSET (1..n), u # {}, g0[u \ {Max(u)}] \in B
        PROVE  g0[u] = F[<<g0[u \ {Max(u)}], seq[Max(u)]>>]
    <3>1. Max(u) \in 1..n
      BY <1>2, <2>3, Highest
    <3>2. seq[Max(u)] \in A
      BY <1>2, <3>1
    <3>3. QED
      BY <1>1, <2>2, <2>3, <3>2
  <2>4. Runs(g0, F, A, B, base, seq)
    BY <1>1, <1>2, <2>2, <2>3 DEF Runs
  <2>5. \A m \in 0..n : g0[1..m] \in B
    BY <2>4, FoldSteps, Zenon
  <2>6. n \in 0..n
    BY <1>2
  <2> HIDE DEF n
  <2>7. QED
    BY <2>5, <2>6
<1>7. QED
  BY <1>5, <1>6

LEMMA OwnCleanUpViews ==
  ASSUME NEW k, NEW s \in Views(k), NEW t \in Tables
  PROVE  FoldLeft(LAMBDA v, e : RuleCleanUp(v, t, Own, e), s, Reverse(OwnRules)) \in Views(k)
<1> DEFINE A == Exprs \ {Other}
           B == Views(k)
           base == s
           seq == Reverse(OwnRules)
           Step(u, e) == RuleCleanUp(u, t, Own, e)
           n == Len(seq)
           F == [x \in B \X A |-> Step(x[1], x[2])]
           Body(g) == g = [u \in SUBSET (1..n) |->
                             IF u = {} THEN base ELSE Step(g[u \ {Max(u)}], seq[Max(u)])]
           g0 == CHOOSE g : Body(g)
<1>1. F \in [B \X A -> B] /\ \A b \in B, a \in A : F[<<b, a>>] = Step(b, a)
  <2>1. ASSUME NEW b \in B, NEW a \in A PROVE Step(b, a) \in B
    BY RuleCleanUpViews
  <2> HIDE DEF A, B, Step
  <2>2. QED
    BY <2>1
<1>2. base \in B /\ n \in Nat /\ seq \in Seq(A) /\ DOMAIN seq = 1..n
  BY OwnRulesAre
<1>3. \E g : Body(g)
  <2> HIDE DEF F, B, A, Step, base, seq
  <2>1. PICK g \in [SUBSET (1..n) -> B] : Folds(g, F, base, seq, n)
    BY <1>1, <1>2, Folding
  <2>2. ASSUME NEW u \in SUBSET (1..n), u # {}
        PROVE  F[<<g[u \ {Max(u)}], seq[Max(u)]>>] = Step(g[u \ {Max(u)}], seq[Max(u)])
    <3>1. Max(u) \in 1..n
      BY <1>2, <2>2, Highest
    <3>2. u \ {Max(u)} \in SUBSET (1..n)
      OBVIOUS
    <3>3. seq[Max(u)] \in A
      BY <1>2, <3>1
    <3> HIDE DEF n
    <3>4. g[u \ {Max(u)}] \in B
      BY <2>1, <3>2
    <3>5. QED
      BY <1>1, <3>3, <3>4
  <2>3. Body(g)
    BY <2>1, <2>2 DEF Folds
  <2>4. QED
    BY <2>3
<1>4. Body(g0)
  <2> HIDE DEF Body
  <2> QED
    BY <1>3
<1>5. FoldLeft(LAMBDA v, e : RuleCleanUp(v, t, Own, e), s, Reverse(OwnRules)) = g0[1..n]
  BY <1>2, Zenon DEF FoldLeft, MapThenFoldSet
<1> HIDE DEF g0
<1>6. g0[1..n] \in B
  <2> HIDE DEF F, B, A, Step, base, seq
  <2>1. {} \in SUBSET (1..n)
    OBVIOUS
  <2>2. g0[{}] = base /\ \A u \in SUBSET (1..n) : u # {} => g0[u] = Step(g0[u \ {Max(u)}], seq[Max(u)])
    BY <1>4, <2>1
  <2>3. ASSUME NEW u \in SUBSET (1..n), u # {}, g0[u \ {Max(u)}] \in B
        PROVE  g0[u] = F[<<g0[u \ {Max(u)}], seq[Max(u)]>>]
    <3>1. Max(u) \in 1..n
      BY <1>2, <2>3, Highest
    <3>2. seq[Max(u)] \in A
      BY <1>2, <3>1
    <3>3. QED
      BY <1>1, <2>2, <2>3, <3>2
  <2>4. Runs(g0, F, A, B, base, seq)
    BY <1>1, <1>2, <2>2, <2>3 DEF Runs
  <2>5. \A m \in 0..n : g0[1..m] \in B
    BY <2>4, FoldSteps, Zenon
  <2>6. n \in 0..n
    BY <1>2
  <2> HIDE DEF n
  <2>7. QED
    BY <2>5, <2>6
<1>7. QED
  BY <1>5, <1>6

Transactions == [what : {"clean", "structure", "present", "cleanup"}, key : Keys]

LEMMA RegularChainCleanUpViews ==
  ASSUME NEW k, NEW s \in Views(k), NEW t \in Tables, NEW forceClean
  PROVE  RegularChainCleanUp(s, t, forceClean) \in Views(k)
<1>1. PICK u : u = FoldLeft(LAMBDA v, e : RuleCleanUp(v, t, Own, e), s, Reverse(OwnRules))
  OBVIOUS
<1>2. u \in Views(k)
  BY <1>1, OwnCleanUpViews, Zenon
<1>3. DeleteChain(u, t, Own) \in Views(k)
  BY <1>2, DeleteChainViews
<1>4. RegularChainCleanUp(s, t, forceClean) \in {u, DeleteChain(u, t, Own)}
  BY <1>1, Zenon DEF RegularChainCleanUp
<1>5. QED
  BY <1>2, <1>3, <1>4

LEMMA InTableViews ==
  ASSUME NEW k, NEW s \in Views(k), NEW t \in Tables, NEW tr \in Transactions
  PROVE  InTable(s, tr, t) \in Views(k)
<1>1. tr.what \in {"clean", "structure", "present", "cleanup"} /\ tr.key \in Keys
  BY DEF Transactions
<1>2. tr.key \in Exprs \ {Other} /\ Own \in Names
  BY <1>1, Kerticals, RuleAssumption DEF Exprs
<1>3. CASE tr.what = "clean"
  <2>1. RegularChainCleanUp(BaseChainCleanUp(s, t), t, TRUE) \in Views(k)
    BY BaseChainViews, RegularChainCleanUpViews
  <2>2. QED
    BY <1>3, <2>1 DEF InTable
<1>4. CASE tr.what = "structure"
  <2>1. BaseChainPresent(RegularChainPresent(s, t), t) \in Views(k)
    BY RegularChainPresentViews, BaseChainViews
  <2>2. QED
    BY <1>4, <2>1 DEF InTable
<1>5. CASE tr.what = "present"
  <2>1. RulePresent(SetPresent(s, t, tr.key), t, Own, tr.key) \in Views(k)
    BY <1>1, <1>2, SetPresentViews, RulePresentViews
  <2>2. QED
    BY <1>5, <2>1 DEF InTable
<1>6. CASE tr.what = "cleanup"
  <2>1. RuleCleanUp(s, t, Own, tr.key) \in Views(k)
    BY <1>2, RuleCleanUpViews
  <2>2. QED
    BY <1>6, <2>1 DEF InTable
<1>7. QED
  BY <1>1, <1>3, <1>4, <1>5, <1>6

\* The table a Present begins with is one of the family's.
LEMMA VotedTable ==
  ASSUME NEW k, NEW s \in Views(k)
  PROVE  MostFrequencyTable(s) \in Tables
<1> DEFINE A == Seen(k)
           B == [name : Tables, count : Nat]
           base == [name |-> Fallback, count |-> 1]
           seq == s.chains
           Step(v, x) == IF ~x.typed THEN v
                         ELSE IF x.table = v.name THEN [v EXCEPT !.count = @ + 1]
                         ELSE IF v.count = 0 THEN [name |-> x.table, count |-> 1]
                         ELSE [v EXCEPT !.count = @ - 1]
           n == Len(seq)
           F == [x \in B \X A |-> Step(x[1], x[2])]
           Body(g) == g = [u \in SUBSET (1..n) |->
                             IF u = {} THEN base ELSE Step(g[u \ {Max(u)}], seq[Max(u)])]
           g0 == CHOOSE g : Body(g)
<1>1. F \in [B \X A -> B] /\ \A b \in B, a \in A : F[<<b, a>>] = Step(b, a)
  <2>1. ASSUME NEW b \in B, NEW a \in A PROVE Step(b, a) \in B
    <3>1. a.table \in Tables
      BY DEF Seen
    <3>2. b.name \in Tables /\ b.count \in Nat
      OBVIOUS
    <3>3. /\ [b EXCEPT !.count = b.count + 1] \in B
          /\ [name |-> a.table, count |-> 1] \in B
          /\ b.count # 0 => [b EXCEPT !.count = b.count - 1] \in B
      <4>1. b.count + 1 \in Nat /\ (b.count # 0 => b.count - 1 \in Nat)
        BY <3>2
      <4>2. QED
        BY <3>1, <4>1
    <3> HIDE DEF B
    <3>4. QED
      BY <3>3
  <2> HIDE DEF A, B, Step
  <2>2. QED
    BY <2>1
<1>2. base \in B /\ n \in Nat /\ seq \in Seq(A) /\ DOMAIN seq = 1..n
  <2>1. s.chains \in Seq(Seen(k)) /\ Len(s.chains) \in Nat /\ DOMAIN s.chains = 1..Len(s.chains)
    BY ViewHas
  <2>2. QED
    BY <2>1, TableAssumption
<1>3. \E g : Body(g)
  <2> HIDE DEF F, B, A, Step, base, seq
  <2>1. PICK g \in [SUBSET (1..n) -> B] : Folds(g, F, base, seq, n)
    BY <1>1, <1>2, Folding
  <2>2. ASSUME NEW u \in SUBSET (1..n), u # {}
        PROVE  F[<<g[u \ {Max(u)}], seq[Max(u)]>>] = Step(g[u \ {Max(u)}], seq[Max(u)])
    <3>1. Max(u) \in 1..n
      BY <1>2, <2>2, Highest
    <3>2. u \ {Max(u)} \in SUBSET (1..n)
      OBVIOUS
    <3>3. seq[Max(u)] \in A
      BY <1>2, <3>1
    <3> HIDE DEF n
    <3>4. g[u \ {Max(u)}] \in B
      BY <2>1, <3>2
    <3>5. QED
      BY <1>1, <3>3, <3>4
  <2>3. Body(g)
    BY <2>1, <2>2 DEF Folds
  <2>4. QED
    BY <2>3
<1>4. Body(g0)
  <2> HIDE DEF Body
  <2> QED
    BY <1>3
<1>5. MostFrequencyTable(s) = g0[1..n].name
  BY <1>2, Zenon DEF MostFrequencyTable, FoldLeft, MapThenFoldSet
<1> HIDE DEF g0
<1>6. g0[1..n] \in B
  <2> HIDE DEF F, B, A, Step, base, seq
  <2>1. {} \in SUBSET (1..n)
    OBVIOUS
  <2>2. g0[{}] = base /\ \A u \in SUBSET (1..n) : u # {} => g0[u] = Step(g0[u \ {Max(u)}], seq[Max(u)])
    BY <1>4, <2>1
  <2>3. ASSUME NEW u \in SUBSET (1..n), u # {}, g0[u \ {Max(u)}] \in B
        PROVE  g0[u] = F[<<g0[u \ {Max(u)}], seq[Max(u)]>>]
    <3>1. Max(u) \in 1..n
      BY <1>2, <2>3, Highest
    <3>2. seq[Max(u)] \in A
      BY <1>2, <3>1
    <3>3. QED
      BY <1>1, <2>2, <2>3, <3>2
  <2>4. Runs(g0, F, A, B, base, seq)
    BY <1>1, <1>2, <2>2, <2>3 DEF Runs
  <2>5. \A m \in 0..n : g0[1..m] \in B
    BY <2>4, FoldSteps, Zenon
  <2>6. n \in 0..n
    BY <1>2
  <2> HIDE DEF n
  <2>7. QED
    BY <2>5, <2>6
<1>7. QED
  BY <1>5, <1>6

\* A walk over tables, in some order.
Walked(s, tr, order) == FoldLeft(LAMBDA v, t : InTable(v, tr, t), s, order)

LEMMA WalkedViews ==
  ASSUME NEW k, NEW s \in Views(k), NEW tr \in Transactions, NEW order \in Seq(Tables)
  PROVE  Walked(s, tr, order) \in Views(k)
<1> DEFINE A == Tables
           B == Views(k)
           base == s
           seq == order
           Step(v, t) == InTable(v, tr, t)
           n == Len(seq)
           F == [x \in B \X A |-> Step(x[1], x[2])]
           Body(g) == g = [u \in SUBSET (1..n) |->
                             IF u = {} THEN base ELSE Step(g[u \ {Max(u)}], seq[Max(u)])]
           g0 == CHOOSE g : Body(g)
<1>1. F \in [B \X A -> B] /\ \A b \in B, a \in A : F[<<b, a>>] = Step(b, a)
  <2>1. ASSUME NEW b \in B, NEW a \in A PROVE Step(b, a) \in B
    BY InTableViews
  <2> HIDE DEF A, B, Step
  <2>2. QED
    BY <2>1
<1>2. base \in B /\ n \in Nat /\ seq \in Seq(A) /\ DOMAIN seq = 1..n
  OBVIOUS
<1>3. \E g : Body(g)
  <2> HIDE DEF F, B, A, Step, base, seq
  <2>1. PICK g \in [SUBSET (1..n) -> B] : Folds(g, F, base, seq, n)
    BY <1>1, <1>2, Folding
  <2>2. ASSUME NEW u \in SUBSET (1..n), u # {}
        PROVE  F[<<g[u \ {Max(u)}], seq[Max(u)]>>] = Step(g[u \ {Max(u)}], seq[Max(u)])
    <3>1. Max(u) \in 1..n
      BY <1>2, <2>2, Highest
    <3>2. u \ {Max(u)} \in SUBSET (1..n)
      OBVIOUS
    <3>3. seq[Max(u)] \in A
      BY <1>2, <3>1
    <3> HIDE DEF n
    <3>4. g[u \ {Max(u)}] \in B
      BY <2>1, <3>2
    <3>5. QED
      BY <1>1, <3>3, <3>4
  <2>3. Body(g)
    BY <2>1, <2>2 DEF Folds
  <2>4. QED
    BY <2>3
<1>4. Body(g0)
  <2> HIDE DEF Body
  <2> QED
    BY <1>3
<1>5. Walked(s, tr, order) = g0[1..n]
  BY <1>2, Zenon DEF Walked, FoldLeft, MapThenFoldSet
<1> HIDE DEF g0
<1>6. g0[1..n] \in B
  <2> HIDE DEF F, B, A, Step, base, seq
  <2>1. {} \in SUBSET (1..n)
    OBVIOUS
  <2>2. g0[{}] = base /\ \A u \in SUBSET (1..n) : u # {} => g0[u] = Step(g0[u \ {Max(u)}], seq[Max(u)])
    BY <1>4, <2>1
  <2>3. ASSUME NEW u \in SUBSET (1..n), u # {}, g0[u \ {Max(u)}] \in B
        PROVE  g0[u] = F[<<g0[u \ {Max(u)}], seq[Max(u)]>>]
    <3>1. Max(u) \in 1..n
      BY <1>2, <2>3, Highest
    <3>2. seq[Max(u)] \in A
      BY <1>2, <3>1
    <3>3. QED
      BY <1>1, <2>2, <2>3, <3>2
  <2>4. Runs(g0, F, A, B, base, seq)
    BY <1>1, <1>2, <2>2, <2>3 DEF Runs
  <2>5. \A m \in 0..n : g0[1..m] \in B
    BY <2>4, FoldSteps, Zenon
  <2>6. n \in 0..n
    BY <1>2
  <2> HIDE DEF n
  <2>7. QED
    BY <2>5, <2>6
<1>7. QED
  BY <1>5, <1>6

LEMMA TablesListed ==
  /\ Len(Order) \in Nat /\ DOMAIN Order = 1..Len(Order)
  /\ \A i \in 1..Len(Order) : Order[i] \in Tables
  /\ IsFiniteSet(Tables)
<1>1. /\ Len(Order) \in Nat /\ DOMAIN Order = 1..Len(Order)
      /\ \A i \in 1..Len(Order) : Order[i] \in Tables
  BY TableAssumption
<1>2. Order \in [1..Len(Order) -> Tables]
  BY TableAssumption
<1>3. \A t \in Tables : \E i \in 1..Len(Order) : Order[i] = t
  BY <1>1 DEF Tables, ToSet
<1>4. Order \in Surjection(1..Len(Order), Tables)
  BY <1>2, <1>3 DEF Surjection
<1>5. ExistsSurjection(1..Len(Order), Tables)
  BY <1>4 DEF ExistsSurjection
<1>6. QED
  BY <1>1, <1>5, FS_NatSurjection

LEMMA GroupOrders ==
  ASSUME NEW k, NEW s \in Views(k), NEW order \in SetToSeqs(Groups(s))
  PROVE  order \in Seq(Tables)
<1>1. \A i \in DOMAIN s.chains : s.chains[i].table \in Tables
  <2>1. \A i \in DOMAIN s.chains : s.chains[i] \in Seen(k)
    BY ViewHas
  <2>2. QED
    BY <2>1 DEF Seen
<1>2. Groups(s) \in SUBSET Tables
  BY <1>1 DEF Groups
<1>3. Cardinality(Groups(s)) \in Nat
  BY <1>2, TablesListed, FS_Subset, FS_CardinalityType
<1>4. order \in [1..Cardinality(Groups(s)) -> Groups(s)]
  BY DEF SetToSeqs
<1>5. QED
  BY <1>2, <1>3, <1>4

LEMMA RefreshViews ==
  ASSUME NEW k, Orderly(k)
  PROVE  Refresh(k) \in Views(k)
<1> DEFINE At(t, j) == [table |-> t, name |-> k.chains[t][j].name, kind |-> k.chains[t][j].kind,
                        typed |-> k.chains[t][j].typed, rules |-> k.chains[t][j].rules]
           InIt(t) == [j \in DOMAIN k.chains[t] |-> At(t, j)]
           Taken(x, j) == [table |-> x.table, chain |-> x.name,
                           expr |-> x.rules[j].expr, handle |-> x.rules[j].handle]
           Of(x) == [j \in DOMAIN x.rules |-> Taken(x, j)]
<1>1. k \in Kernels
  BY DEF Orderly
<1>2. ASSUME NEW t \in Tables PROVE InIt(t) \in Seq(Seen(k))
  <2>1. Len(k.chains[t]) \in Nat /\ DOMAIN k.chains[t] = 1..Len(k.chains[t])
    BY <1>1, Whereabouts
  <2>2. ASSUME NEW j \in 1..Len(k.chains[t]) PROVE At(t, j) \in Seen(k)
    <3>1. PICK x : x = At(t, j)
      OBVIOUS
    <3>2. x \in [table : Tables, name : Names, kind : Kinds, typed : BOOLEAN, rules : Seq(Rules)]
      BY <1>1, <3>1, Whereabouts
    <3>3. x.table = t /\ x.rules = k.chains[t][j].rules
      BY <3>1
    <3>4. \A i \in 1..Len(x.rules) : In(k, x.table, x.rules[i])
      BY <3>3 DEF In
    <3>5. QED
      BY <3>1, <3>2, <3>4 DEF Seen
  <2> HIDE DEF At
  <2>3. QED
    BY <2>1, <2>2
<1>3. FlatChains(k) \in Seq(Seen(k))
  <2> DEFINE seqs == [i \in 1..Len(Order) |-> InIt(Order[i])]
  <2>1. seqs \in [1..Len(Order) -> Seq(Seen(k))] /\ Len(Order) \in Nat
    <3> HIDE DEF InIt
    <3> QED
      BY <1>2, TablesListed
  <2>2. FlattenSeq(seqs) \in Seq(Seen(k))
    <3> HIDE DEF seqs
    <3> QED
      BY <2>1, Flattening
  <2>3. FlatChains(k) = FlattenSeq(seqs)
    BY TablesListed, Zenon DEF FlatChains
  <2>4. QED
    BY <2>2, <2>3
<1>4. ASSUME NEW x \in Seen(k) PROVE Of(x) \in Seq(Found(k))
  <2>1. /\ x.table \in Tables /\ x.name \in Names /\ x.rules \in Seq(Rules)
        /\ \A j \in 1..Len(x.rules) : In(k, x.table, x.rules[j])
    BY DEF Seen
  <2>2. Len(x.rules) \in Nat /\ DOMAIN x.rules = 1..Len(x.rules)
    BY <2>1
  <2>3. ASSUME NEW j \in 1..Len(x.rules) PROVE Taken(x, j) \in Found(k)
    <3>1. PICK q : q = x.rules[j]
      OBVIOUS
    <3>2. q \in Rules /\ In(k, x.table, q)
      BY <2>1, <2>3, <3>1
    <3>3. q = [expr |-> q.expr, handle |-> q.handle] /\ q.expr \in Exprs /\ q.handle \in Nat
      BY <3>2 DEF Rules
    <3>4. PICK r : r = [table |-> x.table, chain |-> x.name, expr |-> q.expr, handle |-> q.handle]
      OBVIOUS
    <3>5. /\ r \in [table : Tables, chain : Names, expr : Exprs, handle : Nat]
          /\ r.table = x.table /\ r.expr = q.expr /\ r.handle = q.handle
      BY <2>1, <3>3, <3>4
    <3>6. In(k, r.table, [expr |-> r.expr, handle |-> r.handle])
      BY <3>2, <3>3, <3>5
    <3>7. QED
      BY <3>1, <3>4, <3>5, <3>6 DEF Found
  <2> HIDE DEF Taken
  <2>4. QED
    BY <2>2, <2>3
<1>5. ASSUME NEW cs \in Seq(Seen(k)) PROVE FlatRules(cs) \in Seq(Found(k))
  <2> DEFINE seqs == [i \in 1..Len(cs) |-> Of(cs[i])]
  <2>1. Len(cs) \in Nat /\ DOMAIN cs = 1..Len(cs) /\ \A i \in 1..Len(cs) : cs[i] \in Seen(k)
    OBVIOUS
  <2>2. seqs \in [1..Len(cs) -> Seq(Found(k))]
    <3> HIDE DEF Of
    <3> QED
      BY <1>4, <2>1
  <2>3. FlattenSeq(seqs) \in Seq(Found(k))
    <3> HIDE DEF seqs
    <3> QED
      BY <2>1, <2>2, Flattening
  <2>4. FlatRules(cs) = FlattenSeq(seqs)
    BY <2>1, Zenon DEF FlatRules
  <2>5. QED
    BY <2>3, <2>4
<1> HIDE DEF InIt, Of, At, Taken
<1>6. PICK cs \in Seq(Seen(k)) : cs = FlatChains(k)
  BY <1>3
<1>7. PICK rs \in Seq(Found(k)) : rs = FlatRules(cs)
  BY <1>5
<1>8. Refresh(k) = [chains |-> cs, rules |-> rs, n |-> Len(rs), batch |-> <<>>]
  BY <1>6, <1>7 DEF Refresh
<1>9. <<>> \in Seq(Commands(k)) /\ Len(rs) \in Nat
  OBVIOUS
<1>10. PICK s : s = Refresh(k)
  OBVIOUS
<1>11. s \in Snapshots(k) /\ s.n = Len(rs) /\ s.rules = rs
  BY <1>8, <1>9, <1>10 DEF Snapshots
<1>12. s.n <= Len(s.rules)
  BY <1>9, <1>11
<1>13. QED
  BY <1>10, <1>11, <1>12 DEF Views

\* The batches of a transaction keep to the snapshot it was given.
LEMMA BatchesKeep ==
  ASSUME NEW k, Orderly(k), NEW tr \in Transactions, NEW batch \in Batches(k, tr)
  PROVE  batch \in Seq(Commands(k))
<1>1. PICK s \in Views(k) : s = Refresh(k)
  BY RefreshViews
<1>2. PICK name \in Tables : name = MostFrequencyTable(s)
  BY <1>1, VotedTable
<1>3. PICK u \in Views(k) : u = Issue(s, AddTable(name))
  BY <1>2, NewChainViews
<1>4. <<name>> \in Seq(Tables)
  BY <1>2
<1>5. \/ batch = Walked(u, tr, <<name>>).batch
      \/ \E order \in SetToSeqs(Groups(s)) : batch = Walked(s, tr, order).batch
  BY <1>1, <1>2, <1>3, Zenon DEF Batches, Walked
<1>6. CASE batch = Walked(u, tr, <<name>>).batch
  BY <1>3, <1>4, <1>6, WalkedViews, ViewHas
<1>7. CASE \E order \in SetToSeqs(Groups(s)) : batch = Walked(s, tr, order).batch
  <2>1. PICK order \in SetToSeqs(Groups(s)) : batch = Walked(s, tr, order).batch
    BY <1>7
  <2>2. order \in Seq(Tables)
    BY <1>1, <2>1, GroupOrders
  <2>3. QED
    BY <1>1, <2>1, <2>2, WalkedViews, ViewHas
<1>8. QED
  BY <1>5, <1>6, <1>7

-----------------------------------------------------------------------------
(* The specification.                                                      *)

Settled(k) == Orderly(k) /\ k.loose = {}

\* The kernel has gone on from every snapshot: no rule has come back.
SnapshotsHold ==
  \A p \in Threads : snap[p] # NoSnap =>
    todo[p] # <<>> /\ Settled(snap[p]) /\ Continues(snap[p], kernel)

Inv ==
  /\ Settled(kernel)
  /\ once \in BOOLEAN /\ closed \in BOOLEAN /\ listed \subseteq Keys
  /\ todo \in [Threads -> Seq(Transactions)]
  /\ result \in [Threads -> {"none", "ok", "failed"}]
  /\ DOMAIN snap = Threads
  /\ SnapshotsHold

LEMMA InitOrderly == Init => Settled(kernel)
<1> SUFFICES ASSUME Init PROVE Settled(kernel)
  OBVIOUS
<1>1. /\ kernel.tables = {} /\ kernel.loose = {}
      /\ kernel.chains = [t \in Tables |-> <<>>] /\ kernel.next = [t \in Tables |-> 0]
  BY DEF Init
<1>2. kernel \in Kernels
  <2>1. /\ [t \in Tables |-> <<>>] \in [Tables -> Seq(Chains)]
        /\ [t \in Tables |-> 0] \in [Tables -> Nat]
    OBVIOUS
  <2>2. kernel = [tables |-> {}, chains |-> [t \in Tables |-> <<>>], next |-> [t \in Tables |-> 0],
                  loose |-> {}]
    BY DEF Init
  <2>3. QED
    BY <2>1, <2>2 DEF Kernels
<1>3. \A t \in Tables : kernel.chains[t] = <<>> /\ Len(kernel.chains[t]) = 0
  BY <1>1
<1>4. \A t \in Tables : \A r : ~In(kernel, t, r)
  BY <1>3 DEF In
<1>5. QED
  BY <1>1, <1>2, <1>3, <1>4 DEF Settled, Orderly

LEMMA InitInv == Init => Inv
<1> SUFFICES ASSUME Init PROVE Inv
  OBVIOUS
<1>1. Settled(kernel)
  BY InitOrderly
<1>2. /\ once \in BOOLEAN /\ closed \in BOOLEAN /\ listed \subseteq Keys
      /\ result \in [Threads -> {"none", "ok", "failed"}]
      /\ DOMAIN snap = Threads /\ SnapshotsHold
  BY DEF Init, SnapshotsHold
<1>3. todo \in [Threads -> Seq(Transactions)]
  <2>1. <<>> \in Seq(Transactions)
    OBVIOUS
  <2>2. QED
    BY <2>1 DEF Init
<1>4. QED
  BY <1>1, <1>2, <1>3 DEF Inv

\* The steps that change the kernel.
LEMMA FlushGoes ==
  ASSUME Inv, NEW p \in Threads, Flush(p)
  PROVE  Goes(kernel, kernel') /\ kernel'.loose = {}
<1>1. /\ Orderly(kernel) /\ kernel.loose = {} /\ snap[p] # NoSnap /\ todo[p] # <<>>
      /\ Orderly(snap[p]) /\ Continues(snap[p], kernel) /\ todo[p] \in Seq(Transactions)
  BY DEF Inv, SnapshotsHold, Settled, Flush
<1>2. PICK tr \in Transactions : tr = Head(todo[p])
  BY <1>1
<1>3. PICK batch \in Batches(snap[p], tr) :
        \/ kernel' = kernel
        \/ Apply(kernel, batch) # NoKernel /\ kernel' = Apply(kernel, batch)
  BY <1>2 DEF Flush
<1>4. batch \in Seq(Commands(snap[p]))
  BY <1>1, BatchesKeep
<1>5. CASE kernel' = kernel
  BY <1>1, <1>5, GoesNowhere
<1>6. CASE Apply(kernel, batch) # NoKernel /\ kernel' = Apply(kernel, batch)
  BY <1>1, <1>4, <1>6, ApplyGoes
<1>7. QED
  BY <1>3, <1>5, <1>6

LEMMA OtherProgramGoes ==
  ASSUME Inv, NEW q \in OtherPrograms, OtherProgram(q)
  PROVE  Goes(kernel, kernel') /\ kernel'.loose = {}
<1> DEFINE a == [i \in DOMAIN q |-> AddTable(q[i].table)]
           b == [i \in DOMAIN q |-> AddChain(q[i].table, q[i].name, q[i].kind, q[i].typed)]
<1>1. Orderly(kernel) /\ Continues(kernel, kernel)
  BY GoesNowhere DEF Inv, Settled, Goes
<1>2. q \in Seq([table : Tables, name : Names \ {Own}, kind : Kinds \ {"regular"}, typed : BOOLEAN])
  BY OtherAssumption
<1>3. Len(q) \in Nat /\ DOMAIN q = 1..Len(q)
  BY <1>2
<1>4. ASSUME NEW i \in 1..Len(q)
      PROVE  /\ AddTable(q[i].table) \in Commands(kernel)
             /\ AddChain(q[i].table, q[i].name, q[i].kind, q[i].typed) \in Commands(kernel)
  <2>1. /\ q[i].table \in Tables /\ q[i].name \in Names /\ q[i].name # Own
        /\ q[i].kind \in Kinds /\ q[i].typed \in BOOLEAN
    <3>1. PICK R : R = [table : Tables, name : Names \ {Own}, kind : Kinds \ {"regular"}, typed : BOOLEAN]
      OBVIOUS
    <3>2. PICK x \in R : x = q[i]
      <4>1. q \in Seq(R)
        BY <1>2, <3>1, Zenon
      <4>2. QED
        BY <4>1
    <3>3. /\ x.table \in Tables /\ x.name \in Names \ {Own} /\ x.kind \in Kinds \ {"regular"}
          /\ x.typed \in BOOLEAN
      BY <3>1
    <3>4. QED
      BY <3>2, <3>3
  <2>2. AddTable(q[i].table) \in Commands(kernel)
    BY <2>1 DEF AddTable, Commands
  <2>3. AddChain(q[i].table, q[i].name, q[i].kind, q[i].typed) \in Commands(kernel)
    <3>1. PICK t \in Tables, c \in Names \ {Own}, kind \in Kinds, typed \in BOOLEAN :
            t = q[i].table /\ c = q[i].name /\ kind = q[i].kind /\ typed = q[i].typed
      BY <2>1
    <3>2. AddChain(t, c, kind, typed) \in Commands(kernel)
      BY DEF AddChain, Commands
    <3>3. QED
      BY <3>1, <3>2
  <2>4. QED
    BY <2>2, <2>3
<1>5. a \in Seq(Commands(kernel)) /\ b \in Seq(Commands(kernel))
  BY <1>3, <1>4
<1>6. kernel' = Apply(kernel, a \o b) /\ kernel' # NoKernel
  BY DEF OtherProgram
<1> HIDE DEF a, b
<1>7. a \o b \in Seq(Commands(kernel))
  BY <1>5, ConcatProperties
<1>8. QED
  BY <1>1, <1>6, <1>7, ApplyGoes

LEMMA OtherRuleGoes ==
  ASSUME Inv, NEW t \in Tables, NEW i \in DOMAIN kernel.chains[t], OtherRule(t, i)
  PROVE  Goes(kernel, kernel') /\ kernel'.loose = {}
<1>1. Orderly(kernel) /\ Continues(kernel, kernel) /\ kernel \in Kernels
  BY GoesNowhere DEF Inv, Settled, Goes, Orderly
<1>2. PICK c \in Names : c = kernel.chains[t][i].name
  BY <1>1, Whereabouts
<1>3. AddRule(t, c, Other) \in Commands(kernel)
  BY DEF AddRule, Commands, Exprs
<1>4. <<AddRule(t, c, Other)>> \in Seq(Commands(kernel))
  BY <1>3
<1>5. kernel' = Apply(kernel, <<AddRule(t, c, Other)>>) /\ kernel' # NoKernel
  BY <1>2 DEF OtherRule
<1>6. QED
  BY <1>1, <1>4, <1>5, ApplyGoes

LEMMA StepGoes ==
  ASSUME Inv, [Next]_vars
  PROVE  Goes(kernel, kernel') /\ kernel'.loose = {}
<1>1. Orderly(kernel) /\ kernel.loose = {}
  BY DEF Inv, Settled
<1>2. CASE kernel' = kernel
  BY <1>1, <1>2, GoesNowhere
<1>3. CASE \E p \in Threads : Flush(p)
  BY <1>3, FlushGoes
<1>4. CASE \E q \in OtherPrograms : OtherProgram(q)
  BY <1>4, OtherProgramGoes
<1>5. CASE \E t \in Tables : \E i \in DOMAIN kernel.chains[t] : OtherRule(t, i)
  BY <1>5, OtherRuleGoes
<1>6. CASE \/ \E k \in Keys : AddForwarding(k) \/ RemoveForwarding(k)
           \/ Close \/ Restart \/ \E p \in Threads : Read(p)
           \/ UNCHANGED vars
  <2>1. kernel' = kernel
    BY <1>6 DEF AddForwarding, RemoveForwarding, Close, Call, Restart, Read, vars
  <2>2. QED
    BY <1>2, <2>1
<1>7. QED
  BY <1>3, <1>4, <1>5, <1>6 DEF Next

\* A snapshot that is kept is still one that the kernel has gone on from.
LEMMA KeptSnapshot ==
  ASSUME Inv, Goes(kernel, kernel'), NEW p \in Threads, snap[p] # NoSnap
  PROVE  todo[p] # <<>> /\ Settled(snap[p]) /\ Continues(snap[p], kernel')
<1>1. todo[p] # <<>> /\ Settled(snap[p]) /\ Continues(snap[p], kernel) /\ Orderly(kernel)
  BY DEF Inv, SnapshotsHold, Settled
<1>2. Continues(snap[p], kernel')
  BY <1>1, ContinuesOn DEF Settled
<1>3. QED
  BY <1>1, <1>2

LEMMA CallInv ==
  ASSUME Inv, NEW p \in Threads, NEW trs \in Seq(Transactions), Call(p, trs),
         once' \in BOOLEAN, closed' \in BOOLEAN
  PROVE  Inv'
<1>1. /\ todo[p] = <<>> /\ todo' = [todo EXCEPT ![p] = trs]
      /\ kernel' = kernel /\ listed' = listed /\ snap' = snap /\ result' = result
  BY DEF Call
<1>2. todo' \in [Threads -> Seq(Transactions)]
  BY <1>1 DEF Inv
<1>3. snap[p] = NoSnap
  BY <1>1 DEF Inv, SnapshotsHold
<1>4. \A q \in Threads : snap'[q] # NoSnap =>
        todo'[q] # <<>> /\ Settled(snap'[q]) /\ Continues(snap'[q], kernel')
  BY <1>1, <1>3 DEF Inv, SnapshotsHold
<1>5. SnapshotsHold'
  BY <1>4 DEF SnapshotsHold
<1>6. Settled(kernel')
  BY <1>1 DEF Inv
<1>7. QED
  BY <1>1, <1>2, <1>5, <1>6 DEF Inv

LEMMA TransactionsAre ==
  ASSUME NEW k \in Keys, NEW what \in {"clean", "structure", "present", "cleanup"}
  PROVE  Tr(what, k) \in Transactions
BY DEF Tr, Transactions

LEMMA FlushInv ==
  ASSUME Inv, NEW p \in Threads, Flush(p)
  PROVE  Inv'
<1>1. /\ snap' = [snap EXCEPT ![p] = NoSnap] /\ snap[p] # NoSnap
      /\ once' = once /\ closed' = closed
  BY DEF Flush
<1>2. Goes(kernel, kernel') /\ kernel'.loose = {}
  BY FlushGoes
<1>3. Settled(kernel')
  BY <1>2 DEF Goes, Settled
<1>4. /\ todo[p] # <<>> /\ todo[p] \in Seq(Transactions) /\ todo \in [Threads -> Seq(Transactions)]
      /\ result \in [Threads -> {"none", "ok", "failed"}] /\ listed \subseteq Keys
      /\ DOMAIN snap = Threads
  BY <1>1 DEF Inv, SnapshotsHold
<1>5. PICK tr \in Transactions : tr = Head(todo[p])
  BY <1>4
<1>6. \/ /\ todo' = [todo EXCEPT ![p] = <<>>] /\ result' = [result EXCEPT ![p] = "failed"]
         /\ listed' = listed
      \/ /\ todo' = [todo EXCEPT ![p] = Tail(todo[p])] /\ result' = [result EXCEPT ![p] = "ok"]
         /\ Committed(tr)
  BY <1>5 DEF Flush
<1>7. <<>> \in Seq(Transactions) /\ Tail(todo[p]) \in Seq(Transactions)
  BY <1>4
<1>8. /\ todo' \in [Threads -> Seq(Transactions)] /\ result' \in [Threads -> {"none", "ok", "failed"}]
      /\ \A q \in Threads \ {p} : todo'[q] = todo[q]
  BY <1>4, <1>6, <1>7
<1>9. listed' \subseteq Keys
  <2>1. tr.key \in Keys
    BY DEF Transactions
  <2>2. Committed(tr) => listed' \subseteq Keys
    BY <1>4, <2>1 DEF Committed
  <2>3. QED
    BY <1>4, <1>6, <2>2
<1>10. DOMAIN snap' = Threads /\ snap'[p] = NoSnap /\ \A q \in Threads \ {p} : snap'[q] = snap[q]
  BY <1>1, <1>4
<1>11. ASSUME NEW q \in Threads, snap'[q] # NoSnap
       PROVE  todo'[q] # <<>> /\ Settled(snap'[q]) /\ Continues(snap'[q], kernel')
  <2>1. q # p /\ snap'[q] = snap[q] /\ todo'[q] = todo[q]
    BY <1>8, <1>10, <1>11
  <2>2. todo[q] # <<>> /\ Settled(snap[q]) /\ Continues(snap[q], kernel')
    BY <1>2, <1>11, <2>1, KeptSnapshot
  <2>3. QED
    BY <2>1, <2>2
<1>12. SnapshotsHold'
  BY <1>11 DEF SnapshotsHold
<1>13. QED
  BY <1>1, <1>3, <1>8, <1>9, <1>10, <1>12 DEF Inv

LEMMA ReadInv ==
  ASSUME Inv, NEW p \in Threads, Read(p)
  PROVE  Inv'
<1>1. /\ snap' = [snap EXCEPT ![p] = kernel] /\ todo[p] # <<>>
      /\ result' = [result EXCEPT ![p] = "none"]
      /\ kernel' = kernel /\ todo' = todo /\ once' = once /\ listed' = listed /\ closed' = closed
  BY DEF Read, process
<1>2. /\ Settled(kernel) /\ DOMAIN snap = Threads /\ result \in [Threads -> {"none", "ok", "failed"}]
  BY DEF Inv
<1>3. DOMAIN snap' = Threads /\ snap'[p] = kernel /\ \A q \in Threads \ {p} : snap'[q] = snap[q]
  BY <1>1, <1>2
<1>4. Continues(kernel, kernel)
  BY <1>2, GoesNowhere DEF Settled, Goes
<1>5. ASSUME NEW q \in Threads, snap'[q] # NoSnap
      PROVE  todo'[q] # <<>> /\ Settled(snap'[q]) /\ Continues(snap'[q], kernel')
  <2>1. CASE q = p
    BY <1>1, <1>2, <1>3, <1>4, <2>1
  <2>2. CASE q # p
    BY <1>1, <1>3, <1>5, <2>2 DEF Inv, SnapshotsHold
  <2>3. QED
    BY <2>1, <2>2
<1>6. SnapshotsHold'
  BY <1>5 DEF SnapshotsHold
<1>7. result' \in [Threads -> {"none", "ok", "failed"}]
  BY <1>1, <1>2
<1>8. Settled(kernel')
  BY <1>1, <1>2
<1>9. QED
  BY <1>1, <1>3, <1>6, <1>7, <1>8 DEF Inv

\* A step of another program, or none of any.
LEMMA OthersInv ==
  ASSUME Inv, Goes(kernel, kernel'), kernel'.loose = {},
         UNCHANGED <<once, listed, closed, todo, snap, result>>
  PROVE  Inv'
<1>1. Settled(kernel')
  BY DEF Goes, Settled
<1>2. \A p \in Threads : snap'[p] # NoSnap =>
        todo'[p] # <<>> /\ Settled(snap'[p]) /\ Continues(snap'[p], kernel')
  BY KeptSnapshot
<1>3. SnapshotsHold'
  BY <1>2 DEF SnapshotsHold
<1>4. QED
  BY <1>1, <1>3 DEF Inv

LEMMA NextInv == Inv /\ [Next]_vars => Inv'
<1> SUFFICES ASSUME Inv, [Next]_vars PROVE Inv'
  OBVIOUS
<1>1. ASSUME NEW k \in Keys, AddForwarding(k) PROVE Inv'
  <2>1. PICK trs : trs = IF once THEN <<Tr("present", k)>>
                          ELSE <<Tr("clean", k), Tr("structure", k), Tr("present", k)>>
    OBVIOUS
  <2>2. trs \in Seq(Transactions)
    <3>1. PICK x \in Transactions, y \in Transactions, z \in Transactions :
            x = Tr("clean", k) /\ y = Tr("structure", k) /\ z = Tr("present", k)
      BY TransactionsAre
    <3>2. <<z>> \in Seq(Transactions) /\ <<x, y, z>> \in Seq(Transactions)
      OBVIOUS
    <3>3. QED
      BY <2>1, <3>1, <3>2
  <2>3. Call("caller", trs) /\ once' = TRUE /\ closed' = closed
    BY <1>1, <2>1 DEF AddForwarding
  <2>4. QED
    BY <2>2, <2>3, CallInv DEF Threads, Inv
<1>2. ASSUME NEW k \in Keys, RemoveForwarding(k) PROVE Inv'
  <2>1. PICK x \in Transactions : x = Tr("cleanup", k)
    BY TransactionsAre
  <2>2. <<x>> \in Seq(Transactions) /\ Call("caller", <<x>>) /\ once' = once /\ closed' = closed
    BY <1>2, <2>1 DEF RemoveForwarding
  <2>3. QED
    BY <2>2, CallInv DEF Threads, Inv
<1>3. ASSUME Close PROVE Inv'
  <2>1. (CHOOSE k \in Keys : TRUE) \in Keys
    BY RuleAssumption
  <2>2. PICK x \in Transactions : x = Tr("clean", CHOOSE k \in Keys : TRUE)
    BY <2>1, TransactionsAre
  <2>3. <<x>> \in Seq(Transactions) /\ Call("closer", <<x>>) /\ once' = once /\ closed' = TRUE
    BY <1>3, <2>2 DEF Close
  <2>4. QED
    BY <2>3, CallInv DEF Threads, Inv
<1>4. ASSUME Restart PROVE Inv'
  <2>1. /\ once' = FALSE /\ listed' = {} /\ closed' = FALSE
        /\ todo' = [p \in Threads |-> <<>>] /\ snap' = [p \in Threads |-> NoSnap]
        /\ result' = [p \in Threads |-> "none"] /\ kernel' = kernel
    BY <1>4 DEF Restart
  <2>2. <<>> \in Seq(Transactions)
    OBVIOUS
  <2>3. /\ todo' \in [Threads -> Seq(Transactions)] /\ DOMAIN snap' = Threads
        /\ result' \in [Threads -> {"none", "ok", "failed"}]
    BY <2>1, <2>2
  <2>4. SnapshotsHold'
    BY <2>1 DEF SnapshotsHold
  <2>5. Settled(kernel')
    BY <2>1 DEF Inv
  <2>6. QED
    BY <2>1, <2>3, <2>4, <2>5 DEF Inv
<1>5. ASSUME NEW p \in Threads, Read(p) \/ Flush(p) PROVE Inv'
  BY <1>5, ReadInv, FlushInv
<1>6. ASSUME \/ \E q \in OtherPrograms : OtherProgram(q)
             \/ \E t \in Tables : \E i \in DOMAIN kernel.chains[t] : OtherRule(t, i)
             \/ UNCHANGED vars
      PROVE Inv'
  <2>1. UNCHANGED <<once, listed, closed, todo, snap, result>>
    BY <1>6 DEF OtherProgram, OtherRule, process, vars
  <2>2. Goes(kernel, kernel') /\ kernel'.loose = {}
    BY StepGoes
  <2>3. QED
    BY <2>1, <2>2, OthersInv
<1>7. QED
  BY <1>1, <1>2, <1>3, <1>4, <1>5, <1>6 DEF Next

LEMMA ChainHas ==
  ASSUME NEW k \in Kernels, NEW t \in Tables, NEW i \in 1..Len(k.chains[t])
  PROVE  /\ k.chains[t][i].kind \in Kinds
         /\ DOMAIN k.chains[t][i].rules = 1..Len(k.chains[t][i].rules)
         /\ \A j \in 1..Len(k.chains[t][i].rules) : k.chains[t][i].rules[j] \in Rules
<1>1. k.chains[t][i].kind \in Kinds
  BY Whereabouts
<1>2. k.chains[t][i].rules \in Seq(Rules)
  BY Whereabouts
<1>3. QED
  BY <1>1, <1>2

LEMMA OrderlyIsOK ==
  ASSUME NEW k, Settled(k)
  PROVE  KernelOK(k)
<1>1. k \in Kernels /\ Orderly(k) /\ k.loose = {}
  BY DEF Settled, Orderly
<1>2. k.tables \subseteq Tables
  BY <1>1 DEF Kernels
<1>3. ASSUME NEW t \in Tables
      PROVE  /\ k.chains[t] # <<>> => t \in k.tables
             /\ \A i \in DOMAIN k.chains[t] :
                  k.chains[t][i].kind \in Kinds /\ RuleSeqOK(k.chains[t][i].rules)
             /\ \A i \in DOMAIN k.chains[t] : \A r \in ToSet(k.chains[t][i].rules) : r.handle <= k.next[t]
  <2>1. k.chains[t] # <<>> => t \in k.tables
    BY <1>1 DEF Orderly
  <2>2. ASSUME NEW i \in DOMAIN k.chains[t]
        PROVE  /\ i \in 1..Len(k.chains[t]) /\ k.chains[t][i].kind \in Kinds
               /\ DOMAIN k.chains[t][i].rules = 1..Len(k.chains[t][i].rules)
               /\ \A j \in 1..Len(k.chains[t][i].rules) : k.chains[t][i].rules[j] \in Rules
    <3>1. k \in Kernels /\ i \in 1..Len(k.chains[t])
      BY <1>1, Whereabouts
    <3>2. QED
      BY <3>1, ChainHas
  <2>3. ASSUME NEW i \in DOMAIN k.chains[t] PROVE RuleSeqOK(k.chains[t][i].rules)
    BY <2>2 DEF RuleSeqOK, Rules
  <2>4. ASSUME NEW i \in DOMAIN k.chains[t], NEW r \in ToSet(k.chains[t][i].rules)
        PROVE  r.handle <= k.next[t]
    <3>1. \E j \in 1..Len(k.chains[t][i].rules) : k.chains[t][i].rules[j] = r
      BY <2>2 DEF ToSet
    <3>2. In(k, t, r)
      BY <2>2, <3>1 DEF In
    <3>3. QED
      BY <1>1, <3>2 DEF Orderly
  <2>5. QED
    BY <2>1, <2>2, <2>3, <2>4
<1>4. QED
  BY <1>1, <1>2, <1>3 DEF KernelOK

LEMMA InvType == Inv => TypeOK
<1> SUFFICES ASSUME Inv PROVE TypeOK
  OBVIOUS
<1>1. KernelOK(kernel) /\ once \in BOOLEAN /\ closed \in BOOLEAN /\ listed \subseteq Keys
  BY OrderlyIsOK DEF Inv
<1>2. ASSUME NEW p \in Threads
      PROVE  /\ todo[p] \in Seq([what : {"clean", "structure", "present", "cleanup"}, key : Keys])
             /\ snap[p] # NoSnap => todo[p] # <<>> /\ KernelOK(snap[p])
             /\ result[p] \in {"none", "ok", "failed"}
  <2>1. todo[p] \in Seq(Transactions) /\ result[p] \in {"none", "ok", "failed"}
    BY DEF Inv
  <2>2. snap[p] # NoSnap => todo[p] # <<>> /\ KernelOK(snap[p])
    BY OrderlyIsOK DEF Inv, SnapshotsHold
  <2>3. QED
    BY <2>1, <2>2 DEF Transactions
<1>3. QED
  BY <1>1, <1>2 DEF TypeOK

LEMMA Invariant == Spec => []Inv
<1>1. Init => Inv
  BY InitInv
<1>2. Inv /\ [Next]_vars => Inv'
  BY NextInv
<1>3. QED
  BY <1>1, <1>2, PTL DEF Spec

(* Whatever Close, a restart and other programs do between the reading of  *)
(* a snapshot and the flush of what was made of it, the kernel's tables,   *)
(* chains and rules keep their shape, no handle is above the last one      *)
(* given out, no set is left that no rule looks up, and a thread has a     *)
(* snapshot only within a call (mutation.go 60-140).                       *)
THEOREM TypeInvariant == Spec => []TypeOK
<1>1. Inv => TypeOK
  BY InvType
<1>2. QED
  BY <1>1, Invariant, PTL

(* No batch made of a snapshot, however old, deletes or reorders a rule of *)
(* another program, or a base chain: handles are not given out twice, so   *)
(* the handle of a rule in the snapshot is, in its table, the handle of    *)
(* that rule or of none; and a rule whose handle the walk over the         *)
(* shifting slice deletes was taken for one of kertical's.                 *)
THEOREM OthersAreUntouched == Spec => OthersUntouched
<1> DEFINE P == \A t \in Tables : \A i \in DOMAIN kernel.chains[t] :
                  kernel.chains[t][i].kind # "regular" =>
                    \E j \in NamedIn(kernel', t, kernel.chains[t][i].name) : Preserved(kernel, kernel', t, i, j)
<1>1. Inv /\ [Next]_vars => P
  <2> SUFFICES ASSUME Inv, [Next]_vars,
                      NEW t \in Tables, NEW i \in DOMAIN kernel.chains[t],
                      kernel.chains[t][i].kind # "regular"
               PROVE  \E j \in NamedIn(kernel', t, kernel.chains[t][i].name) :
                        Preserved(kernel, kernel', t, i, j)
    OBVIOUS
  <2>1. Orderly(kernel) /\ kernel \in Kernels
    BY DEF Inv, Settled, Orderly
  <2>2. i \in 1..Len(kernel.chains[t])
    BY <2>1, Whereabouts
  <2>3. kernel.chains[t][i].name # Own
    BY <2>1, <2>2 DEF Orderly
  <2>4. Keeps(kernel, kernel')
    BY StepGoes DEF Goes
  <2>5. QED
    BY <2>2, <2>3, <2>4 DEF Keeps
<1>2. Inv /\ [Next]_vars => [P]_vars
  BY <1>1
<1>3. Spec => [][P]_vars
  <2> HIDE DEF P
  <2>1. QED
    BY <1>2, Invariant, PTL DEF Spec
<1>4. QED
  BY <1>3 DEF OthersUntouched
=============================================================================
