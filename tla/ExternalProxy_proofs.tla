------------------------- MODULE ExternalProxy_proofs -------------------------
(***************************************************************************)
(* Proofs about ExternalProxy for every set of specs and every bound:      *)
(* type correctness, the guards of deletion and, where a call that fails   *)
(* has had no effect, that a proxy has at most one Service and one Ingress *)
(* and is Ready only where the children of that generation are there.      *)
(*                                                                         *)
(* A cache shows the children as they were some events ago.  The proof of  *)
(* the last says what is certain of such a cache (Traced), which of it a   *)
(* plan may rely on once nothing is expected any more (TracedShows), what  *)
(* is in a plan (PlanOf), and that what is left of a plan always leads     *)
(* from the children there are to those asked for (Covers), until nothing  *)
(* is left.                                                                *)
(***************************************************************************)
EXTENDS ExternalProxy, Lists, FiniteSetTheorems

\* What is left of a sync of the children of kind k.
Todo(k) == IF work # Idle /\ work.kind = k THEN work.todo ELSE <<>>

\* The events of kind k that tell of a creation or a deletion.
Telling(k) == {i \in 1..Len(events[k]) : events[k][i].type # "Update"}

-----------------------------------------------------------------------------
(* What type correctness rests on.                                         *)

Sized ==
  /\ \A k \in Kinds : IsFiniteSet(api[k]) /\ IsFiniteSet(cache[k])
  /\ proxy.exists => proxy.gen <= edits /\ proxy.uid <= uids
  /\ work # Idle => /\ work.pc \in {"intend", "call"} \/ work.todo = <<>>
                    /\ work.pc = "call" => work.todo # <<>>

-----------------------------------------------------------------------------
(* What holds until users delete the proxy.                                *)

\* The informer's proxy and the one being reconciled are this proxy.
Followed ==
  /\ seen.exists => proxy.exists /\ seen.uid = proxy.uid
  /\ work # Idle => seen.exists /\ work.inst.uid = seen.uid

\* Every trace of a child is of this proxy, and the informer has seen it.
Ours(k) ==
  /\ \A o \in api[k] \cup cache[k] : seen.exists /\ o.owner = seen.uid
  /\ \A i \in 1..Len(events[k]) : seen.exists /\ events[k][i].obj.owner = seen.uid
  /\ \A i \in 1..Len(Todo(k)) :
       /\ seen.exists /\ Todo(k)[i].obj.owner = seen.uid
       /\ Todo(k)[i].verb = "update" => Todo(k)[i].obj.name = Todo(k)[i].old.name

\* There is one child, and the cache shows its name or its creation is
\* expected.
Known(k) ==
  /\ \A o, q \in api[k] : o = q
  /\ \A o, q \in cache[k] : o.name = q.name => o = q
  /\ \A o \in api[k] : \/ o.name \in exp[k]["creations"]
                       \/ \E c \in cache[k] : c.name = o.name

\* Every creation and deletion on its way is expected, and no other of its
\* kind and name is on its way; what is being deleted has not come back.
Awaited(k) ==
  /\ \A i \in Telling(k) :
       events[k][i].obj.name \in exp[k][Observed(events[k][i].type)]
  /\ \A i, j \in Telling(k) :
       events[k][i].type = events[k][j].type /\ events[k][i].obj.name = events[k][j].obj.name => i = j
  /\ \A i \in Telling(k) : events[k][i].type = "Delete" =>
       \A o \in api[k] : o.name # events[k][i].obj.name

\* A sync that is about to be planned, and the one that is carried out: it
\* creates last, when it has deleted what there was.
Planned(k) ==
  /\ work # Idle /\ work.kind = k /\ work.pc = "sync" => SatisfiedExpectations(exp[k])
  /\ \A i \in 1..Len(Todo(k)) : Todo(k)[i].verb = "create" =>
       /\ i = Len(Todo(k))
       /\ \A o \in api[k] : \E j \in 1..(i - 1) :
            Todo(k)[j].verb = "delete" /\ Todo(k)[j].obj.name = o.name
  /\ \A i, j \in 1..Len(Todo(k)) :
       Todo(k)[i].verb # "update" /\ Todo(k)[j].verb # "update"
         /\ Todo(k)[i].obj.name = Todo(k)[j].obj.name => i = j

\* What the sync has done already leaves it alone.
Undisturbed(k) ==
  Todo(k) # <<>> => \A i \in Telling(k) :
    /\ events[k][i].type = "Delete" /\ api[k] = {}
    /\ \A j \in 1..Len(Todo(k)) :
         Todo(k)[j].verb # "update" => Todo(k)[j].obj.name # events[k][i].obj.name

\* The call that is about to be made is expected.
Announced(k) ==
  work # Idle /\ work.kind = k /\ work.pc = "call" /\ Head(work.todo).verb # "update" =>
    Head(work.todo).obj.name \in exp[k][Intended(Head(work.todo).verb)]

Single(k) == Ours(k) /\ Known(k) /\ Awaited(k) /\ Planned(k) /\ Undisturbed(k) /\ Announced(k)

OneInv == deletes = 0 => Followed /\ \A k \in Solo : Single(k)

-----------------------------------------------------------------------------
(* How lists are made of sets.                                             *)

\* SetToSeq lists a finite set, each element once.
LEMMA Listing ==
  ASSUME NEW S, IsFiniteSet(S)
  PROVE  /\ Cardinality(S) \in Nat
         /\ SetToSeq(S) \in [1..Cardinality(S) -> S] /\ SetToSeq(S) \in Seq(S)
         /\ Len(SetToSeq(S)) = Cardinality(S)
         /\ \A i, j \in 1..Cardinality(S) : SetToSeq(S)[i] = SetToSeq(S)[j] => i = j
         /\ \A x \in S : \E i \in 1..Cardinality(S) : SetToSeq(S)[i] = x
<1> DEFINE n == Cardinality(S)
           f == SetToSeq(S)
<1>1. n \in Nat /\ ExistsBijection(1..n, S)
  BY FS_CardinalityType
<1>2. \E g \in [1..n -> S] : IsInjective(g)
  BY <1>1 DEF ExistsBijection, Bijection, Injection
<1>3. f \in [1..n -> S] /\ IsInjective(f)
  BY <1>2 DEF SetToSeq
<1>4. IsFiniteSet(1..n) /\ Cardinality(1..n) = n
  <2>1. n = Cardinality(S) /\ 1 \in Int /\ n \in Int
    BY <1>1
  <2> HIDE DEF n
  <2>2. IsFiniteSet(1..n) /\ Cardinality(1..n) = IF 1 > n THEN 0 ELSE n - 1 + 1
    BY <2>1, FS_Interval
  <2>3. QED
    BY <1>1, <2>2
<1>5. f \in Injection(1..n, S)
  BY <1>3 DEF Injection
<1>6. f \in Surjection(1..n, S)
  BY <1>4, <1>5, FS_Injection
<1> HIDE DEF n, f
<1>7. f \in Seq(S) /\ Len(f) = n
  BY <1>1, <1>3
<1>8. \A x \in S : \E i \in 1..n : f[i] = x
  BY <1>6 DEF Surjection
<1>9. \A i, j \in 1..n : f[i] = f[j] => i = j
  BY <1>3 DEF IsInjective
<1>10. QED
  BY <1>1, <1>3, <1>7, <1>8, <1>9 DEF n, f

-----------------------------------------------------------------------------
(* What a sync plans.                                                      *)

\* The deletions of a set: one for each of its objects.
LEMMA DeletionsAre ==
  ASSUME NEW k \in Kinds, NEW O \in SUBSET Children(k), IsFiniteSet(O)
  PROVE  /\ Deletions(O) \in Seq(Ops(k))
         /\ \A i \in 1..Len(Deletions(O)) : \E o \in O : Deletions(O)[i] = Delete(o)
         /\ \A o \in O : \E i \in 1..Len(Deletions(O)) : Deletions(O)[i] = Delete(o)
         /\ \A i, j \in 1..Len(Deletions(O)) :
              Deletions(O)[i].obj = Deletions(O)[j].obj => i = j
<1> DEFINE n == Cardinality(O)
           f == SetToSeq(O)
           d == Deletions(O)
<1>1. n \in Nat /\ f \in [1..n -> O] /\ (\A i, j \in 1..n : f[i] = f[j] => i = j)
        /\ \A x \in O : \E i \in 1..n : f[i] = x
  BY Listing
<1>2. d = [i \in 1..n |-> Delete(f[i])]
  BY DEF Deletions
<1> HIDE DEF n, f, d
<1>3. \A o \in O : Delete(o) \in Ops(k) /\ Delete(o).obj = o
  BY DEF Delete, Ops
<1>4. d \in Seq(Ops(k)) /\ Len(d) = n
  <2>1. \A i \in 1..n : Delete(f[i]) \in Ops(k)
    BY <1>1, <1>3
  <2>2. d \in [1..n -> Ops(k)]
    BY <1>2, <2>1
  <2>3. QED
    BY <1>1, <2>2
<1>5. \A i \in 1..n : f[i] \in O /\ d[i] = Delete(f[i])
  BY <1>1, <1>2
<1>6. \A i, j \in 1..n : d[i].obj = d[j].obj => i = j
  BY <1>1, <1>3, <1>5
<1>7. \A o \in O : \E i \in 1..n : d[i] = Delete(o)
  BY <1>1, <1>5
<1>8. QED
  BY <1>4, <1>5, <1>6, <1>7 DEF d

\* An object is created only where none has its name; what is updated keeps
\* its name, its owner and its uid.
LEMMA EnsureIs ==
  ASSUME work # Idle, work.inst.gen \in 1..MaxEdits,
         NEW k \in Kinds, NEW O \in SUBSET Children(k), IsFiniteSet(O),
         NEW name \in Names(k), NEW owner \in 1..MaxUid
  PROVE  /\ Ensure(O, name, owner) \in Seq(Ops(k))
         /\ \/ /\ \A o \in O : o.name # name
               /\ Len(Ensure(O, name, owner)) = 1
               /\ Ensure(O, name, owner)[1] = Create(Child(name, owner, work.inst.gen, 0))
            \/ \A i \in 1..Len(Ensure(O, name, owner)) :
                 \E o \in O : Ensure(O, name, owner)[i] = Update(o, work.inst.gen)
<1> DEFINE active == {o \in O : o.name = name}
           gen == work.inst.gen
           create == Create(Child(name, owner, gen, 0))
           U == {Update(o, gen) : o \in {x \in active : x.rev # gen}}
<1>1. Ensure(O, name, owner) = IF active = {} THEN <<create>> ELSE SetToSeq(U)
  BY DEF Ensure
<1>2. CASE active = {}
  <2>1. create \in Ops(k)
    BY DEF Create, Child, Ops
  <2>2. QED
    BY <1>1, <1>2, <2>1
<1>3. CASE active # {}
  <2>1. \A o \in O : Update(o, gen) \in Ops(k)
    BY DEF Update, Ops, Children
  <2>2. IsFiniteSet(U)
    <3> DEFINE X == {x \in active : x.rev # gen}
               g == [x \in X |-> Update(x, gen)]
    <3>1. IsFiniteSet(X)
      BY FS_Subset
    <3>2. g \in Surjection(X, U)
      BY DEF Surjection
    <3> HIDE DEF X, U
    <3>3. QED
      BY <3>1, <3>2, FS_Surjection
  <2>3. U \subseteq Ops(k)
    BY <2>1
  <2> HIDE DEF U
  <2>4. SetToSeq(U) \in Seq(U) /\ Len(SetToSeq(U)) \in Nat
    BY <2>2, Listing
  <2>5. \A i \in 1..Len(SetToSeq(U)) : SetToSeq(U)[i] \in U
    BY <2>4
  <2>6. SetToSeq(U) \in Seq(Ops(k))
    BY <2>3, <2>4
  <2>7. QED
    BY <1>1, <1>3, <2>5, <2>6 DEF U
<1>4. QED
  BY <1>2, <1>3

-----------------------------------------------------------------------------
(* Types.                                                                  *)

TypeInv == TypeOK /\ Sized

\* The concatenation of two lists over S, and how its elements are those of
\* the two.
LEMMA Joining ==
  ASSUME NEW S, NEW s \in Seq(S), NEW t \in Seq(S)
  PROVE  /\ s \o t \in Seq(S) /\ Len(s \o t) = Len(s) + Len(t)
         /\ \A i \in 1..Len(s) : (s \o t)[i] = s[i]
         /\ \A i \in 1..Len(t) : (s \o t)[Len(s) + i] = t[i]
         /\ \A i \in 1..Len(s \o t) : i > Len(s) => i - Len(s) \in 1..Len(t)
OBVIOUS

\* What is owned is among the cached objects, which are finitely many.
LEMMA OwnedAre ==
  ASSUME TypeInv, NEW k \in Kinds, NEW uid
  PROVE  Owned(k, uid) \in SUBSET Children(k) /\ IsFiniteSet(Owned(k, uid))
<1>1. cache[k] \in SUBSET Children(k) /\ IsFiniteSet(cache[k])
  BY DEF TypeInv, TypeOK, Sized
<1>2. Owned(k, uid) \subseteq cache[k]
  BY DEF Owned
<1>3. QED
  BY <1>1, <1>2, FS_Subset

\* The plan of a sync is a list of operations.
LEMMA PlanTyped ==
  ASSUME TypeInv, work # Idle, NEW k \in Kinds, NEW name \in Names(k) \cup {NoIngress}
  PROVE  SyncActivated(k, name) \in Seq(Ops(k))
<1> DEFINE objects == Owned(k, work.inst.uid)
           others == {o \in objects : o.name # name}
           plan == IF name = NoIngress THEN <<>> ELSE Ensure(objects, name, work.inst.uid)
<1>1. objects \in SUBSET Children(k) /\ IsFiniteSet(objects)
  BY OwnedAre
<1>2. others \in SUBSET Children(k) /\ IsFiniteSet(others)
  BY <1>1, FS_Subset
<1>3. Deletions(others) \in Seq(Ops(k))
  <2> HIDE DEF others
  <2> QED
    BY <1>2, DeletionsAre
<1>4. work.inst.gen \in 1..MaxEdits /\ work.inst.uid \in 1..MaxUid
  BY DEF TypeInv, TypeOK, Reconciles, Proxies
<1>5. plan \in Seq(Ops(k))
  <2> HIDE DEF objects
  <2>1. CASE name = NoIngress
    BY <2>1
  <2>2. CASE name # NoIngress
    BY <1>1, <1>4, <2>2, EnsureIs
  <2>3. QED
    BY <2>1, <2>2
<1>6. SyncActivated(k, name) = Deletions(others) \o plan
  BY DEF SyncActivated
<1> HIDE DEF others, plan
<1>7. QED
  BY <1>3, <1>5, <1>6

LEMMA SlicePlanTyped ==
  ASSUME TypeInv, work # Idle, NEW service \in cache["services"], service.name = work.inst.spec.svc
  PROVE  SyncEndpointSlices(service) \in Seq(Ops("slices"))
<1> DEFINE k == "slices"
           n == work.inst.spec.backends
           objects == Owned(k, service.uid)
           desired == [i \in 1..n |-> SliceName(service.name, i)]
           others == {o \in objects : o.name \notin Range(desired)}
           wanted == [i \in 1..Len(desired) |-> Ensure(objects, desired[i], service.uid)]
<1>1. k \in Kinds /\ objects \in SUBSET Children(k) /\ IsFiniteSet(objects)
  <2>1. k \in Kinds
    BY DEF Kinds
  <2>2. QED
    BY <2>1, OwnedAre
<1>2. others \in SUBSET Children(k) /\ IsFiniteSet(others)
  BY <1>1, FS_Subset
<1>3. Deletions(others) \in Seq(Ops(k))
  <2> HIDE DEF others, k
  <2> QED
    BY <1>1, <1>2, DeletionsAre
<1>4. work.inst.gen \in 1..MaxEdits /\ work.inst.spec \in Specs /\ n \in Nat
  BY SpecsAssumption DEF TypeInv, TypeOK, Reconciles, Proxies
<1>5. service.uid \in 1..MaxUid
  BY DEF TypeInv, TypeOK, Kinds, Children
<1>6. \A i \in 1..n : SliceName(service.name, i) \in Names(k)
  BY <1>4 DEF Names
<1>7. desired \in [1..n -> Names(k)] /\ Len(desired) = n
  <2>1. desired \in [1..n -> Names(k)]
    BY <1>6
  <2> HIDE DEF desired
  <2>2. Len(desired) = n
    BY <1>4, <2>1
  <2>3. QED
    BY <2>1, <2>2
<1>8. wanted \in [1..n -> Seq(Ops(k))]
  <2>1. \A i \in 1..n : Ensure(objects, desired[i], service.uid) \in Seq(Ops(k))
    <3> HIDE DEF objects, desired, k
    <3> QED
      BY <1>1, <1>4, <1>5, <1>7, EnsureIs
  <2> HIDE DEF objects, desired
  <2>2. QED
    BY <1>7, <2>1
<1>9. FlattenSeq(wanted) \in Seq(Ops(k))
  <2> HIDE DEF wanted, n, k
  <2> QED
    BY <1>4, <1>8, Flattening
<1>10. SyncEndpointSlices(service) = FlattenSeq(wanted) \o Deletions(others)
  BY DEF SyncEndpointSlices
<1> HIDE DEF wanted, others, k
<1>11. SyncEndpointSlices(service) \in Seq(Ops(k))
  BY <1>3, <1>9, <1>10
<1>12. QED
  BY <1>11 DEF k

\* A proxy that exists has all its fields.
LEMMA ProxyHas ==
  ASSUME NEW p \in Proxies
  PROVE  /\ p.exists \in BOOLEAN /\ (p.exists <=> p # Absent)
         /\ p.exists => /\ p.uid \in 1..MaxUid /\ p.gen \in 1..MaxEdits /\ p.spec \in Specs
                        /\ p.ready \in BOOLEAN /\ p.observed \in 0..MaxEdits
                        /\ p = Proxy(p.uid, p.gen, p.spec, p.ready, p.observed)
<1>1. Absent.exists = FALSE
  BY DEF Absent
<1>2. CASE p = Absent
  BY <1>1, <1>2
<1>3. CASE p # Absent
  BY <1>3 DEF Proxies, Proxy
<1>4. QED
  BY <1>2, <1>3

\* Initially nothing is there.
LEMMA TypeInit == Init => TypeInv
<1> SUFFICES ASSUME Init PROVE TypeInv
  OBVIOUS
<1>1. \A k \in Kinds : /\ api[k] = {} /\ cache[k] = {} /\ events[k] = <<>>
                       /\ exp[k] = NoExpectations
  BY DEF Init, Nothing
<1>2. DOMAIN api = Kinds /\ DOMAIN events = Kinds /\ DOMAIN cache = Kinds /\ DOMAIN exp = Kinds
  BY DEF Init, Nothing
<1>3. \A k \in Kinds : NoExpectations \in [Actions -> SUBSET Names(k)] /\ <<>> \in Seq(Events(k))
  BY DEF NoExpectations
<1>4. TypeOK
  <2>1. proxy = Absent /\ seen = Absent /\ Absent \in Proxies
    BY DEF Init, Proxies
  <2>2. /\ queued \in BOOLEAN /\ work = Idle /\ uids \in 0..MaxUid /\ edits \in 0..MaxEdits
        /\ deletes \in 0..MaxDeletes /\ errors \in 0..MaxErrors /\ crashes \in 0..MaxCrashes
    <3>1. queued = FALSE /\ work = Idle
      BY DEF Init
    <3>2. uids = 0 /\ edits = 0 /\ deletes = 0 /\ errors = 0 /\ crashes = 0
      BY DEF Init
    <3>3. QED
      <4>1. queued \in BOOLEAN
        BY <3>1
      <4>2. QED
        BY <3>1, <3>2, <4>1, BoundsAssumption
  <2>3. QED
    BY <1>1, <1>2, <1>3, <2>1, <2>2 DEF TypeOK
<1>5. Sized
  BY <1>1, FS_EmptySet DEF Init, Sized, Absent
<1>6. QED
  BY <1>4, <1>5 DEF TypeInv

\* What users do is typed: a proxy has at most one generation per edit.
LEMMA TypeUser == TypeInv /\ User => TypeInv'
<1> SUFFICES ASSUME TypeInv, User PROVE TypeInv'
  OBVIOUS
<1> USE BoundsAssumption DEF TypeInv
<1>1. \A k \in Kinds : UNCHANGED <<Children(k), Events(k), Names(k), Reconciles(k)>>
  OBVIOUS
<1>2. edits + 1 \in 0..MaxEdits /\ edits' = edits + 1 /\ edits \in Nat
  <2>1. Edit
    BY DEF User, CreateProxy, UpdateProxy, DeleteProxy
  <2>2. edits \in 0..MaxEdits
    BY DEF TypeOK
  <2>3. QED
    BY <2>1, <2>2 DEF Edit
<1>3. proxy' \in Proxies /\ uids' \in 0..MaxUid /\ deletes' \in 0..MaxDeletes
        /\ (proxy'.exists => proxy'.gen <= edits' /\ proxy'.uid <= uids')
  <2>1. ASSUME NEW s \in Specs, CreateProxy(s) PROVE <1>3!:
    <3>1. uids < MaxUid /\ uids' = uids + 1 /\ proxy' = Proxy(uids + 1, 1, s, FALSE, 0) /\ deletes' = deletes
      BY <2>1 DEF CreateProxy
    <3>2. uids \in 0..MaxUid /\ deletes \in 0..MaxDeletes
      BY DEF TypeOK
    <3>3. uids + 1 \in 1..MaxUid /\ 1 \in 1..MaxEdits /\ 0 \in 0..MaxEdits
      BY <1>2, <3>1, <3>2
    <3>4. /\ proxy' \in Proxies /\ proxy'.gen = 1 /\ proxy'.uid = uids + 1
      BY <3>1, <3>3 DEF Proxy, Proxies
    <3>5. uids' \in 0..MaxUid /\ deletes' \in 0..MaxDeletes
      BY <3>1, <3>2, <3>3
    <3>6. proxy'.gen <= edits' /\ proxy'.uid <= uids'
      <4>1. uids' = uids + 1
        BY <3>1
      <4>2. QED
        BY <1>2, <3>2, <3>4, <4>1
    <3>7. QED
      BY <3>4, <3>5, <3>6
  <2>2. ASSUME NEW s \in Specs, UpdateProxy(s) PROVE <1>3!:
    <3>1. /\ proxy # Absent /\ proxy \in Proxies /\ UNCHANGED <<uids, deletes>>
          /\ proxy' = [proxy EXCEPT !.spec = s, !.gen = @ + 1]
      BY <2>2 DEF UpdateProxy, TypeOK
    <3>2. proxy.gen <= edits /\ proxy.uid <= uids
      BY <3>1, ProxyHas DEF Sized
    <3>3. proxy.gen + 1 \in 1..MaxEdits /\ proxy.gen + 1 <= edits + 1
      BY <1>2, <3>1, <3>2, ProxyHas
    <3>4. proxy.gen + 1 \in 1..MaxEdits
      BY <3>3
    <3>5. /\ proxy'.exists /\ proxy'.uid = proxy.uid /\ proxy'.gen = proxy.gen + 1 /\ proxy' \in Proxies
      <4> DEFINE R == [exists : {TRUE}, uid : 1..MaxUid, gen : 1..MaxEdits, spec : Specs,
                       ready : BOOLEAN, observed : 0..MaxEdits]
      <4>1. proxy \in R
        BY <3>1 DEF Proxies
      <4>2. proxy' \in R /\ proxy'.uid = proxy.uid /\ proxy'.gen = proxy.gen + 1
        BY <2>2, <3>1, <3>4, <4>1
      <4>3. proxy'.exists /\ R \subseteq Proxies
        BY <4>2 DEF Proxies
      <4>4. QED
        BY <4>2, <4>3
    <3>6. uids \in 0..MaxUid /\ deletes \in 0..MaxDeletes
      BY DEF TypeOK
    <3>7. QED
      BY <1>2, <3>1, <3>2, <3>3, <3>5, <3>6
  <2>3. CASE DeleteProxy
    BY <2>3 DEF DeleteProxy, TypeOK, Proxies, Absent
  <2>4. QED
    BY <2>1, <2>2, <2>3 DEF User
<1>4. UNCHANGED <<api, events, cache, seen, exp, queued, work, errors, crashes>>
  BY DEF User, CreateProxy, UpdateProxy, DeleteProxy, EditOnly, children
<1>5. TypeOK'
  BY <1>2, <1>3, <1>4 DEF TypeOK
<1>6. Sized'
  BY <1>3, <1>4 DEF Sized
<1>7. QED
  BY <1>5, <1>6

\* The informer's copy is a proxy that was.
LEMMA TypeRefresh == TypeInv /\ RefreshProxy => TypeInv'
<1> SUFFICES ASSUME TypeInv, RefreshProxy PROVE TypeInv'
  OBVIOUS
<1>1. seen' = proxy /\ queued' \in BOOLEAN
        /\ UNCHANGED <<proxy, api, events, cache, exp, work, uids, edits, deletes, errors, crashes>>
  <2>1. queued \in BOOLEAN
    BY DEF TypeInv, TypeOK
  <2>2. QED
    BY <2>1 DEF RefreshProxy, children, bounds
<1>2. TypeOK'
  BY <1>1 DEF TypeInv, TypeOK
<1>3. Sized'
  BY <1>1 DEF TypeInv, Sized
<1>4. QED
  BY <1>2, <1>3 DEF TypeInv

\* The garbage collector removes an object and says so.
LEMMA TypeGarbage == ASSUME NEW k \in Kinds, TypeInv, CollectGarbage(k) PROVE TypeInv'
<1>1. PICK o \in Orphans(k) : /\ api' = [api EXCEPT ![k] = @ \ {o}] /\ Event(k, "Delete", o)
                              /\ UNCHANGED <<proxy, cache, seen, exp, queued, work, uids, bounds>>
  BY DEF CollectGarbage
<1>2. o \in api[k] /\ o \in Children(k)
  BY DEF Orphans, TypeInv, TypeOK
<1>3. [type |-> "Delete", obj |-> o] \in Events(k)
  BY <1>2 DEF Events
<1>4. /\ DOMAIN api' = Kinds /\ DOMAIN events' = Kinds
      /\ \A j \in Kinds : api'[j] \subseteq api[j] /\ events'[j] \in Seq(Events(j))
  BY <1>1, <1>3 DEF Event, TypeInv, TypeOK
<1>5. \A j \in Kinds : IsFiniteSet(api'[j])
  BY <1>4, FS_Subset DEF TypeInv, Sized
<1>6. TypeOK'
  BY <1>1, <1>4 DEF TypeInv, TypeOK, bounds
<1>7. Sized'
  BY <1>1, <1>5 DEF TypeInv, Sized, bounds
<1>8. QED
  BY <1>6, <1>7 DEF TypeInv

\* An event that is delivered leaves its queue and its object in the cache.
LEMMA TypeDeliver == ASSUME NEW k \in Kinds, TypeInv, Deliver(k) PROVE TypeInv'
<1> DEFINE e == Head(events[k])
<1>1. /\ events[k] # <<>> /\ events' = [events EXCEPT ![k] = Tail(@)]
      /\ cache' = [cache EXCEPT ![k] = Folded(@, e)]
      /\ exp' = exp \/ exp' = [exp EXCEPT ![k] = Observe(@, Observed(e.type), e.obj.name)]
      /\ UNCHANGED <<proxy, api, seen, work, uids, bounds>>
  BY DEF Deliver
<1>2. queued' \in BOOLEAN
  <2>1. queued \in BOOLEAN
    BY DEF TypeInv, TypeOK
  <2>2. QED
    BY <2>1 DEF Deliver
<1>3. e \in Events(k) /\ Tail(events[k]) \in Seq(Events(k))
  BY <1>1 DEF TypeInv, TypeOK
<1> HIDE DEF e
<1>4. Folded(cache[k], e) \subseteq Children(k) /\ IsFiniteSet(Folded(cache[k], e))
  <2> DEFINE kept == {o \in cache[k] : o.name # e.obj.name}
             put == IF e.type = "Delete" THEN {} ELSE {e.obj}
  <2>1. cache[k] \subseteq Children(k) /\ IsFiniteSet(cache[k])
    BY DEF TypeInv, TypeOK, Sized
  <2>2. put \subseteq Children(k) /\ kept \subseteq cache[k]
    BY <1>3 DEF Events
  <2>3. IsFiniteSet(put) /\ IsFiniteSet(kept)
    BY <2>1, <2>2, FS_EmptySet, FS_Singleton, FS_Subset
  <2>4. Folded(cache[k], e) = kept \cup put
    BY DEF Folded
  <2> HIDE DEF kept, put
  <2>5. QED
    BY <2>1, <2>2, <2>3, <2>4, FS_Union
<1>5. \A act : Observe(exp[k], act, e.obj.name) \in [Actions -> SUBSET Names(k)]
  BY DEF Observe, TypeInv, TypeOK
<1>6. /\ DOMAIN cache' = Kinds /\ DOMAIN events' = Kinds /\ DOMAIN exp' = Kinds
      /\ \A j \in Kinds : /\ cache'[j] \subseteq Children(j) /\ events'[j] \in Seq(Events(j))
                          /\ IsFiniteSet(cache'[j])
                          /\ exp'[j] \in [Actions -> SUBSET Names(j)]
  <2>1. /\ DOMAIN cache = Kinds /\ DOMAIN events = Kinds /\ DOMAIN exp = Kinds
        /\ \A j \in Kinds : /\ cache[j] \subseteq Children(j) /\ events[j] \in Seq(Events(j))
                            /\ IsFiniteSet(cache[j])
                            /\ exp[j] \in [Actions -> SUBSET Names(j)]
    BY DEF TypeInv, TypeOK, Sized
  <2>2. QED
    BY <1>1, <1>3, <1>4, <1>5, <2>1
<1>7. TypeOK'
  BY <1>1, <1>2, <1>6 DEF TypeInv, TypeOK, bounds
<1>8. Sized'
  BY <1>1, <1>6 DEF TypeInv, Sized, bounds
<1>9. QED
  BY <1>7, <1>8 DEF TypeInv

\* A reconcile in progress has all its fields.
LEMMA Ongoing ==
  ASSUME TypeInv, work # Idle
  PROVE  /\ work.kind \in Kinds /\ work \in Reconciles(work.kind)
         /\ work.todo \in Seq(Ops(work.kind)) /\ work.inst \in Proxies /\ work.inst # Absent
         /\ work.pc \in {"check", "sync", "intend", "call", "status", "ready"}
         /\ work.inst.spec \in Specs /\ work.inst.uid \in 1..MaxUid /\ work.inst.gen \in 1..MaxEdits
<1>1. PICK k \in Kinds : work \in Reconciles(k)
  BY DEF TypeInv, TypeOK
<1>2. work.kind = k /\ work.inst \in Proxies /\ work.inst # Absent
  BY <1>1 DEF Reconciles
<1>3. /\ work.inst.spec \in Specs /\ work.inst.uid \in 1..MaxUid /\ work.inst.gen \in 1..MaxEdits
  BY <1>2, ProxyHas
<1>4. QED
  BY <1>1, <1>2, <1>3 DEF Reconciles

\* Going on with a reconcile.
LEMMA Going ==
  ASSUME TypeInv, work # Idle, NEW pc \in {"check", "sync", "intend", "call", "status", "ready"},
         NEW k \in Kinds, NEW todo \in Seq(Ops(k)), Goto(pc, k, todo)
  PROVE  /\ work' \in Reconciles(k) /\ work' # Idle
         /\ work'.pc = pc /\ work'.kind = k /\ work'.todo = todo /\ work'.inst = work.inst
<1>1. work \in Reconciles(work.kind)
  BY Ongoing
<1>2. work' = [work EXCEPT !.pc = pc, !.kind = k, !.todo = todo]
  BY DEF Goto
<1>3. work' \in Reconciles(k)
  BY <1>1, <1>2 DEF Reconciles
<1>4. work' # Idle
  BY <1>3 DEF Reconciles, Idle
<1>5. QED
  BY <1>1, <1>2, <1>3, <1>4 DEF Reconciles

\* A step that changes the reconcile, the queue and expectations only.
LEMMA TypeWork ==
  ASSUME TypeInv, queued' \in BOOLEAN,
         work' = Idle \/ \E k \in Kinds : work' \in Reconciles(k),
         work' # Idle => /\ work'.pc \in {"intend", "call"} \/ work'.todo = <<>>
                         /\ work'.pc = "call" => work'.todo # <<>>,
         DOMAIN exp' = Kinds, \A k \in Kinds : exp'[k] \in [Actions -> SUBSET Names(k)],
         UNCHANGED <<proxy, api, events, cache, seen, uids, bounds>>
  PROVE  TypeInv'
<1>1. TypeOK'
  BY DEF TypeInv, TypeOK, bounds
<1>2. Sized'
  BY DEF TypeInv, Sized, bounds
<1>3. QED
  BY <1>1, <1>2 DEF TypeInv

LEMMA TypeBegin == TypeInv /\ Begin => TypeInv'
<1> SUFFICES ASSUME TypeInv, Begin PROVE TypeInv'
  OBVIOUS
<1>1. UNCHANGED <<proxy, api, events, cache, seen, uids, bounds>> /\ queued' \in BOOLEAN
  BY DEF Begin, children
<1>2. DOMAIN exp = Kinds /\ (\A k \in Kinds : exp[k] \in [Actions -> SUBSET Names(k)])
        /\ seen \in Proxies /\ (work = Idle \/ \E k \in Kinds : work \in Reconciles(k))
  BY DEF TypeInv, TypeOK
<1>3. CASE seen.exists
  <2>1. work' = [pc |-> "check", kind |-> "services", inst |-> seen, todo |-> <<>>] /\ exp' = exp
    BY <1>3 DEF Begin
  <2>2. seen # Absent
    BY <1>2, <1>3, ProxyHas
  <2>3. "services" \in Kinds /\ <<>> \in Seq(Ops("services"))
    BY DEF Kinds
  <2>4. work' \in Reconciles("services") /\ work'.pc = "check" /\ work'.todo = <<>>
    BY <1>2, <2>1, <2>2, <2>3 DEF Reconciles
  <2>5. QED
    BY <1>1, <1>2, <2>1, <2>3, <2>4, TypeWork
<1>4. CASE ~seen.exists
  <2>1. exp' = [exp EXCEPT !["services"] = NoExpectations] /\ work' = Idle /\ work = Idle
    BY <1>4 DEF Begin
  <2>2. \A k \in Kinds : NoExpectations \in [Actions -> SUBSET Names(k)]
    BY DEF NoExpectations
  <2>3. DOMAIN exp' = Kinds /\ \A k \in Kinds : exp'[k] \in [Actions -> SUBSET Names(k)]
    BY <1>2, <2>1, <2>2
  <2>4. QED
    BY <1>1, <2>1, <2>3, TypeWork
<1>5. QED
  BY <1>3, <1>4

LEMMA TypeCheck == TypeInv /\ Check => TypeInv'
<1> SUFFICES ASSUME TypeInv, Check PROVE TypeInv'
  OBVIOUS
<1>1. UNCHANGED <<proxy, api, events, cache, seen, uids, bounds, exp>> /\ work # Idle
  BY DEF Check, children
<1>2. DOMAIN exp = Kinds /\ (\A k \in Kinds : exp[k] \in [Actions -> SUBSET Names(k)])
        /\ queued \in BOOLEAN
  BY DEF TypeInv, TypeOK
<1>3. CASE Goto("sync", work.kind, <<>>) /\ UNCHANGED queued
  <2>1. work.kind \in Kinds /\ <<>> \in Seq(Ops(work.kind))
    BY <1>1, Ongoing
  <2>2. /\ work' \in Reconciles(work.kind) /\ work'.pc = "sync" /\ work'.todo = <<>>
    BY <1>1, <1>3, <2>1, Going
  <2>3. QED
    BY <1>1, <1>2, <1>3, <2>1, <2>2, TypeWork
<1>4. CASE Requeue \/ Finish
  <2>1. work' = Idle /\ queued' \in BOOLEAN
    BY <1>2, <1>4 DEF Requeue, Finish
  <2>2. QED
    BY <1>1, <1>2, <2>1, TypeWork
<1>5. QED
  BY <1>3, <1>4 DEF Check

\* The plan of a sync is of its kind.
LEMMA TypeSync == TypeInv /\ Sync => TypeInv'
<1> SUFFICES ASSUME TypeInv, Sync PROVE TypeInv'
  OBVIOUS
<1>1. UNCHANGED <<proxy, api, events, cache, seen, uids, bounds, exp, queued>> /\ work # Idle
  BY DEF Sync, children
<1>2. DOMAIN exp = Kinds /\ (\A k \in Kinds : exp[k] \in [Actions -> SUBSET Names(k)])
        /\ queued \in BOOLEAN
  BY DEF TypeInv, TypeOK
<1>3. ASSUME NEW k \in Kinds, NEW todo \in Seq(Ops(k)), Goto("intend", k, todo) PROVE TypeInv'
  <2>1. work' \in Reconciles(k) /\ work'.pc = "intend"
    BY <1>1, <1>3, Going
  <2>2. QED
    BY <1>1, <1>2, <2>1, TypeWork
<1>4. "services" \in Kinds /\ "ingresses" \in Kinds /\ "slices" \in Kinds
  BY DEF Kinds
<1>5. work.inst.spec.svc \in Names("services") /\ work.inst.spec.ing \in Names("ingresses") \cup {NoIngress}
  BY <1>1, Ongoing DEF Names
<1>6. CASE Goto("intend", "services", SyncActivated("services", work.inst.spec.svc))
  BY <1>1, <1>3, <1>4, <1>5, <1>6, PlanTyped
<1>7. CASE Goto("intend", "ingresses", SyncActivated("ingresses", work.inst.spec.ing))
  BY <1>1, <1>3, <1>4, <1>5, <1>7, PlanTyped
<1>8. ASSUME NEW s \in cache["services"], s.name = work.inst.spec.svc,
             Goto("intend", "slices", SyncEndpointSlices(s))
      PROVE  TypeInv'
  BY <1>1, <1>3, <1>4, <1>8, SlicePlanTyped
<1>9. CASE work' = Idle
  BY <1>1, <1>2, <1>9, TypeWork
<1>10. QED
  BY <1>6, <1>7, <1>8, <1>9 DEF Sync

\* An operation has what its verb asks for.
LEMMA OpHas ==
  ASSUME NEW k \in Kinds, NEW op \in Ops(k)
  PROVE  /\ op.verb \in {"create", "update", "delete"} /\ op.obj.name \in Names(k)
         /\ op.verb = "create" => op.obj \in [name : Names(k), owner : 1..MaxUid, rev : 1..MaxEdits, uid : {0}]
         /\ op.verb # "create" => op.obj \in Children(k)
         /\ op.verb = "update" => op.old \in Children(k)
<1>1. CASE op.verb = "create"
  BY <1>1 DEF Ops
<1>2. CASE op.verb # "create"
  BY <1>2 DEF Ops, Children
<1>3. QED
  BY <1>1, <1>2

\* The first operation of the plan, and the rest.
LEMMA HeadHas ==
  ASSUME TypeInv, work # Idle, work.todo # <<>>
  PROVE  /\ Head(work.todo) \in Ops(work.kind) /\ Tail(work.todo) \in Seq(Ops(work.kind))
<1>1. work.todo \in Seq(Ops(work.kind))
  BY Ongoing
<1>2. \A S : \A s \in Seq(S) : s # <<>> => Head(s) \in S /\ Tail(s) \in Seq(S)
  OBVIOUS
<1>3. QED
  BY <1>1, <1>2

LEMMA TypeIntend == TypeInv /\ Intend => TypeInv'
<1> SUFFICES ASSUME TypeInv, Intend PROVE TypeInv'
  OBVIOUS
<1>1. UNCHANGED <<proxy, api, events, cache, seen, uids, bounds, queued>> /\ work # Idle
  BY DEF Intend, children
<1>2. DOMAIN exp = Kinds /\ (\A k \in Kinds : exp[k] \in [Actions -> SUBSET Names(k)])
        /\ queued \in BOOLEAN
  BY DEF TypeInv, TypeOK
<1>3. work.kind \in Kinds
  BY <1>1, Ongoing
<1>4. CASE work.todo # <<>>
  <2> DEFINE op == Head(work.todo)
  <2>1. op \in Ops(work.kind) /\ op.obj.name \in Names(work.kind)
    BY <1>1, <1>3, <1>4, HeadHas, OpHas
  <2>2. /\ exp' = IF op.verb = "update" THEN exp
                  ELSE [exp EXCEPT ![work.kind] = Expect(@, Intended(op.verb), op.obj.name)]
        /\ Goto("call", work.kind, work.todo)
    BY <1>4 DEF Intend
  <2> HIDE DEF op
  <2>3. \A act : Expect(exp[work.kind], act, op.obj.name) \in [Actions -> SUBSET Names(work.kind)]
    BY <1>2, <1>3, <2>1 DEF Expect
  <2>4. DOMAIN exp' = Kinds /\ \A k \in Kinds : exp'[k] \in [Actions -> SUBSET Names(k)]
    BY <1>2, <1>3, <2>2, <2>3
  <2>5. work' \in Reconciles(work.kind) /\ work'.pc = "call" /\ work'.todo = work.todo
    BY <1>1, <1>3, <2>2, Ongoing, Going
  <2>6. QED
    BY <1>1, <1>2, <1>3, <1>4, <2>4, <2>5, TypeWork
<1>5. CASE work.todo = <<>>
  <2>1. PICK pc \in {"check", "status", "ready"}, k \in Kinds : Goto(pc, k, <<>>)
    <3>1. "services" \in Kinds /\ "ingresses" \in Kinds
      BY DEF Kinds
    <3>2. \/ Goto("status", "services", <<>>) \/ Goto("check", "ingresses", <<>>)
          \/ Goto("ready", "ingresses", <<>>)
      BY <1>3, <1>5 DEF Intend, Kinds
    <3>3. QED
      BY <3>1, <3>2
  <2>2. <<>> \in Seq(Ops(k)) /\ pc \in {"check", "sync", "intend", "call", "status", "ready"}
    OBVIOUS
  <2>3. work' \in Reconciles(k) /\ work'.pc = pc /\ work'.todo = <<>>
    BY <1>1, <2>1, <2>2, Going
  <2>4. exp' = exp
    BY <1>5 DEF Intend
  <2>5. QED
    BY <1>1, <1>2, <2>3, <2>4, TypeWork
<1>6. QED
  BY <1>4, <1>5

\* A call that takes effect changes one child, and there is an event of it.
LEMMA EffectTyped ==
  ASSUME TypeInv, NEW k \in Kinds, NEW op \in Ops(k), uids < MaxUid, Effect(k, op)
  PROVE  /\ DOMAIN api' = Kinds /\ DOMAIN events' = Kinds /\ uids' \in 0..MaxUid /\ uids <= uids'
         /\ \A j \in Kinds : /\ api'[j] \subseteq Children(j) /\ IsFiniteSet(api'[j])
                             /\ events'[j] \in Seq(Events(j))
<1>1. /\ DOMAIN api = Kinds /\ DOMAIN events = Kinds /\ uids \in 0..MaxUid
      /\ \A j \in Kinds : /\ api[j] \subseteq Children(j) /\ IsFiniteSet(api[j])
                          /\ events[j] \in Seq(Events(j))
  BY DEF TypeInv, TypeOK, Sized
<1>2. ASSUME NEW A \in SUBSET Children(k), IsFiniteSet(A), api' = [api EXCEPT ![k] = A],
             NEW type \in {"Create", "Update", "Delete"}, NEW obj \in Children(k), Event(k, type, obj),
             uids' \in {uids, uids + 1}
      PROVE  /\ DOMAIN api' = Kinds /\ DOMAIN events' = Kinds /\ uids' \in 0..MaxUid /\ uids <= uids'
             /\ \A j \in Kinds : /\ api'[j] \subseteq Children(j) /\ IsFiniteSet(api'[j])
                                 /\ events'[j] \in Seq(Events(j))
  <2>1. [type |-> type, obj |-> obj] \in Events(k)
    BY DEF Events
  <2>2. events' = [events EXCEPT ![k] = Append(@, [type |-> type, obj |-> obj])]
    BY <1>2 DEF Event
  <2>3. uids' \in 0..MaxUid /\ uids <= uids'
    BY <1>1, <1>2, BoundsAssumption
  <2>4. QED
    BY <1>1, <1>2, <2>1, <2>2, <2>3
<1>3. CASE op.verb = "create"
  <2> DEFINE obj == IF k = "services" THEN [op.obj EXCEPT !.uid = uids + 1] ELSE op.obj
  <2>1. op.obj \in [name : Names(k), owner : 1..MaxUid, rev : 1..MaxEdits, uid : {0}]
    BY <1>3, OpHas
  <2>2. obj \in Children(k)
    <3>1. uids + 1 \in 1..MaxUid
      BY <1>1, BoundsAssumption
    <3>2. CASE k = "services"
      BY <2>1, <3>1, <3>2 DEF Children
    <3>3. CASE k # "services"
      BY <2>1, <3>3 DEF Children
    <3>4. QED
      BY <3>2, <3>3
  <2>3. /\ api' = [api EXCEPT ![k] = @ \cup {obj}] /\ Event(k, "Create", obj)
        /\ uids' \in {uids, uids + 1}
    BY <1>3 DEF Effect
  <2> HIDE DEF obj
  <2>4. api[k] \cup {obj} \subseteq Children(k) /\ IsFiniteSet(api[k] \cup {obj})
    BY <1>1, <2>2, FS_AddElement
  <2>5. QED
    BY <1>2, <2>2, <2>3, <2>4
<1>4. CASE op.verb = "update"
  <2>1. op.obj \in Children(k)
    BY <1>4, OpHas
  <2>2. /\ api' = [api EXCEPT ![k] = (@ \ {op.old}) \cup {op.obj}] /\ Event(k, "Update", op.obj)
        /\ uids' = uids
    BY <1>4 DEF Effect
  <2>3. IsFiniteSet(api[k] \ {op.old})
    BY <1>1, FS_Subset
  <2>4. (api[k] \ {op.old}) \cup {op.obj} \subseteq Children(k) /\ IsFiniteSet((api[k] \ {op.old}) \cup {op.obj})
    BY <1>1, <2>1, <2>3, FS_AddElement
  <2>5. QED
    BY <1>2, <2>1, <2>2, <2>4
<1>5. CASE op.verb = "delete"
  <2>1. PICK o \in Named(k, op.obj.name) :
          /\ api' = [api EXCEPT ![k] = @ \ {o}] /\ Event(k, "Delete", o) /\ UNCHANGED uids
    BY <1>5 DEF Effect
  <2>2. o \in Children(k)
    BY <1>1 DEF Named
  <2>3. api[k] \ {o} \subseteq Children(k) /\ IsFiniteSet(api[k] \ {o})
    BY <1>1, FS_Subset
  <2>4. QED
    BY <1>2, <2>1, <2>2, <2>3
<1>6. QED
  BY <1>3, <1>4, <1>5, OpHas

LEMMA TypeCall == TypeInv /\ Call => TypeInv'
<1> SUFFICES ASSUME TypeInv, Call PROVE TypeInv'
  OBVIOUS
<1> DEFINE k == work.kind
           op == Head(work.todo)
<1>1. /\ UNCHANGED <<proxy, cache, seen, edits, deletes, crashes>>
      /\ work # Idle /\ work.pc = "call" /\ uids < MaxUid
  BY DEF Call
<1>2. work.todo # <<>> /\ k \in Kinds
  BY <1>1, Ongoing DEF TypeInv, Sized
<1>3. op \in Ops(k) /\ Tail(work.todo) \in Seq(Ops(k)) /\ op.obj.name \in Names(k)
  BY <1>1, <1>2, HeadHas, OpHas
<1> HIDE DEF k, op
<1>4. /\ DOMAIN exp = Kinds /\ (\A j \in Kinds : exp[j] \in [Actions -> SUBSET Names(j)])
      /\ queued \in BOOLEAN /\ errors \in 0..MaxErrors
  BY DEF TypeInv, TypeOK
<1>5. \/ /\ Effect(k, op) /\ Goto("intend", k, Tail(work.todo)) /\ UNCHANGED <<exp, queued, errors>>
      \/ /\ TakeBack(k, op) /\ (Finish \/ Requeue)
         /\ UNCHANGED <<children, uids, errors>>
      \/ /\ errors < MaxErrors /\ errors' = errors + 1
         /\ (UNCHANGED <<children, uids>> \/ Effect(k, op))
         /\ TakeBack(k, op) /\ Requeue
  BY DEF Call, k, op
<1>6. /\ DOMAIN api' = Kinds /\ DOMAIN events' = Kinds /\ uids' \in 0..MaxUid /\ uids <= uids'
      /\ \A j \in Kinds : /\ api'[j] \subseteq Children(j) /\ IsFiniteSet(api'[j])
                          /\ events'[j] \in Seq(Events(j))
  <2>1. CASE UNCHANGED <<children, uids>>
    BY <2>1, BoundsAssumption DEF children, TypeInv, TypeOK, Sized
  <2>2. CASE Effect(k, op)
    BY <1>1, <1>2, <1>3, <2>2, EffectTyped
  <2>3. QED
    BY <1>5, <2>1, <2>2
<1>7. TakeBack(k, op) => DOMAIN exp' = Kinds /\ \A j \in Kinds : exp'[j] \in [Actions -> SUBSET Names(j)]
  <2>1. \A act : Observe(exp[k], act, op.obj.name) \in [Actions -> SUBSET Names(k)]
    BY <1>2, <1>4 DEF Observe
  <2>2. QED
    BY <1>2, <1>4, <2>1 DEF TakeBack
<1>8. /\ DOMAIN exp' = Kinds /\ \A j \in Kinds : exp'[j] \in [Actions -> SUBSET Names(j)]
  BY <1>4, <1>5, <1>7
<1>9. Goto("intend", k, Tail(work.todo)) => work' \in Reconciles(k) /\ work'.pc = "intend"
  BY <1>1, <1>2, <1>3, Going
<1>10. /\ work' = Idle \/ (work' \in Reconciles(k) /\ work'.pc = "intend")
       /\ queued' \in BOOLEAN /\ errors' \in 0..MaxErrors
  <2>1. CASE Finish \/ Requeue
    <3>1. work' = Idle /\ queued' \in BOOLEAN
      BY <1>4, <2>1 DEF Finish, Requeue
    <3>2. QED
      BY <1>4, <1>5, <3>1, BoundsAssumption
  <2>2. CASE Goto("intend", k, Tail(work.todo)) /\ UNCHANGED <<exp, queued, errors>>
    BY <1>4, <1>9, <2>2
  <2>3. QED
    BY <1>5, <2>1, <2>2
<1>11. /\ proxy \in Proxies /\ seen \in Proxies /\ edits \in 0..MaxEdits /\ deletes \in 0..MaxDeletes
       /\ crashes \in 0..MaxCrashes /\ DOMAIN cache = Kinds
       /\ (\A j \in Kinds : cache[j] \subseteq Children(j) /\ IsFiniteSet(cache[j]))
       /\ uids \in 0..MaxUid /\ (proxy.exists => proxy.gen <= edits /\ proxy.uid <= uids)
  BY DEF TypeInv, TypeOK, Sized
<1>12. TypeOK'
  BY <1>1, <1>2, <1>6, <1>8, <1>10, <1>11 DEF TypeOK
<1>13. proxy'.exists => proxy'.gen <= edits' /\ proxy'.uid <= uids'
  BY <1>1, <1>6, <1>11, ProxyHas, BoundsAssumption
<1>14. Sized'
  <2>1. work' # Idle => work'.pc \in {"intend", "call"} \/ work'.todo = <<>>
    BY <1>10
  <2>2. work' # Idle => (work'.pc = "call" => work'.todo # <<>>)
    BY <1>10
  <2>3. QED
    BY <1>1, <1>6, <1>11, <1>13, <2>1, <2>2 DEF Sized
<1>15. QED
  BY <1>12, <1>14 DEF TypeInv

LEMMA TypeStatus == TypeInv /\ Status => TypeInv'
<1> SUFFICES ASSUME TypeInv, Status PROVE TypeInv'
  OBVIOUS
<1>1. UNCHANGED <<api, events, cache, seen, exp, uids, edits, deletes, errors, crashes>> /\ work # Idle
  BY DEF Status, children, bounds
<1>2. work.inst.gen \in 0..MaxEdits /\ 0 \in 0..MaxEdits
  BY <1>1, Ongoing, BoundsAssumption
<1>3. /\ proxy \in Proxies /\ queued \in BOOLEAN /\ seen \in Proxies
  BY DEF TypeInv, TypeOK
<1>4. \/ proxy' = proxy
      \/ /\ proxy.exists
         /\ \E ready \in BOOLEAN, observed \in 0..MaxEdits :
              proxy' = [proxy EXCEPT !.ready = ready, !.observed = observed]
  <2>1. ASSUME NEW ready \in BOOLEAN, NEW observed \in 0..MaxEdits, UpdateStatus(ready, observed)
        PROVE  <1>4!:
    BY <2>1 DEF UpdateStatus
  <2>2. FALSE \in BOOLEAN /\ TRUE \in BOOLEAN
    OBVIOUS
  <2>3. QED
    BY <1>2, <2>1, <2>2 DEF Status
<1>5. proxy' \in Proxies /\ (proxy'.exists => proxy.exists /\ proxy'.gen = proxy.gen /\ proxy'.uid = proxy.uid)
  <2> DEFINE R == [exists : {TRUE}, uid : 1..MaxUid, gen : 1..MaxEdits, spec : Specs,
                   ready : BOOLEAN, observed : 0..MaxEdits]
  <2>1. CASE proxy' = proxy
    BY <1>3, <2>1
  <2>2. ASSUME proxy.exists, NEW ready \in BOOLEAN, NEW observed \in 0..MaxEdits,
               proxy' = [proxy EXCEPT !.ready = ready, !.observed = observed]
        PROVE  <1>5!:
    <3>1. proxy \in R
      BY <1>3, <2>2, ProxyHas DEF Proxies
    <3>2. proxy' \in R /\ proxy'.gen = proxy.gen /\ proxy'.uid = proxy.uid
      BY <2>2, <3>1
    <3>3. R \subseteq Proxies
      BY DEF Proxies
    <3>4. QED
      BY <2>2, <3>2, <3>3
  <2>3. QED
    BY <1>4, <2>1, <2>2
<1>6. /\ queued' \in BOOLEAN
      /\ work' = Idle \/ \E k \in Kinds : work' \in Reconciles(k) /\ work'.pc = "check" /\ work'.todo = <<>>
  <2>1. Finish \/ Requeue \/ (Goto("check", "slices", <<>>) /\ UNCHANGED queued)
    BY DEF Status, UpdateStatus
  <2>2. CASE Finish \/ Requeue
    BY <1>3, <2>2 DEF Finish, Requeue
  <2>3. CASE Goto("check", "slices", <<>>) /\ UNCHANGED queued
    <3>1. "slices" \in Kinds /\ <<>> \in Seq(Ops("slices"))
      BY DEF Kinds
    <3>2. work' \in Reconciles("slices") /\ work'.pc = "check" /\ work'.todo = <<>>
      BY <1>1, <2>3, <3>1, Going
    <3>3. QED
      BY <1>3, <2>3, <3>1, <3>2
  <2>4. QED
    BY <2>1, <2>2, <2>3
<1>7. TypeOK'
  BY <1>1, <1>5, <1>6 DEF TypeInv, TypeOK
<1>8. Sized'
  <2>1. proxy'.exists => proxy'.gen <= edits' /\ proxy'.uid <= uids'
    BY <1>1, <1>5 DEF TypeInv, Sized
  <2>2. QED
    BY <1>1, <1>6, <2>1 DEF TypeInv, Sized
<1>9. QED
  BY <1>7, <1>8 DEF TypeInv

LEMMA TypeCrash == TypeInv /\ Crash => TypeInv'
<1> SUFFICES ASSUME TypeInv, Crash PROVE TypeInv'
  OBVIOUS
<1>1. /\ work' = Idle /\ exp' = [k \in Kinds |-> NoExpectations] /\ cache' = api /\ seen' = proxy
      /\ events' = [k \in Kinds |-> <<>>] /\ UNCHANGED <<proxy, api, uids, edits, deletes, errors>>
  BY DEF Crash
<1>2. queued' \in BOOLEAN
  BY DEF Crash
<1>3. crashes' \in 0..MaxCrashes
  BY BoundsAssumption DEF Crash, TypeInv, TypeOK
<1>4. \A k \in Kinds : NoExpectations \in [Actions -> SUBSET Names(k)] /\ <<>> \in Seq(Events(k))
  BY DEF NoExpectations
<1>5. TypeOK'
  BY <1>1, <1>2, <1>3, <1>4 DEF TypeInv, TypeOK
<1>6. Sized'
  BY <1>1 DEF TypeInv, Sized
<1>7. QED
  BY <1>5, <1>6 DEF TypeInv

LEMMA TypeStep == TypeInv /\ [Next]_vars => TypeInv'
<1> SUFFICES ASSUME TypeInv, [Next]_vars PROVE TypeInv'
  OBVIOUS
<1>1. CASE User
  BY <1>1, TypeUser
<1>2. CASE Reconcile
  BY <1>2, TypeBegin, TypeCheck, TypeSync, TypeIntend, TypeCall, TypeStatus DEF Reconcile
<1>3. CASE RefreshProxy \/ Crash
  BY <1>3, TypeRefresh, TypeCrash
<1>4. ASSUME NEW k \in Kinds, Deliver(k) \/ CollectGarbage(k) PROVE TypeInv'
  BY <1>4, TypeDeliver, TypeGarbage
<1>5. CASE UNCHANGED vars
  BY <1>5 DEF vars, children, bounds, TypeInv, TypeOK, Sized
<1>6. QED
  BY <1>1, <1>2, <1>3, <1>4, <1>5 DEF Next

(* The controller's state is always well typed: the plans of its syncs are *)
(* lists of operations on the names that the specs ask for, whatever the   *)
(* caches show, and no proxy has more generations than edits.              *)
THEOREM TypeInvariant == Spec => []TypeOK
<1>1. Init => TypeInv
  BY TypeInit
<1>2. TypeInv /\ [Next]_vars => TypeInv'
  BY TypeStep
<1>3. TypeInv => TypeOK
  BY DEF TypeInv
<1>4. QED
  BY <1>1, <1>2, <1>3, PTL DEF Spec

-----------------------------------------------------------------------------
(* One Service and one Ingress.                                            *)

\* What is left of a sync is a list of operations of its kind.
LEMMA TodoIs ==
  ASSUME TypeInv, NEW k \in Kinds
  PROVE  Todo(k) \in Seq(Ops(k))
<1>1. <<>> \in Seq(Ops(k))
  OBVIOUS
<1>2. QED
  BY <1>1, Ongoing DEF Todo

\* A step that leaves a kind's children and expectations alone, and its plan
\* or drops it.
LEMMA Frame ==
  ASSUME NEW k \in Solo, Single(k),
         api'[k] = api[k], events'[k] = events[k], cache'[k] = cache[k], exp'[k] = exp[k],
         seen.exists => seen'.exists /\ seen'.uid = seen.uid,
         Todo(k)' = Todo(k) \/ Todo(k)' = <<>>,
         work' # Idle /\ work'.kind = k /\ work'.pc = "sync" => SatisfiedExpectations(exp[k]),
         Announced(k)'
  PROVE  Single(k)'
<1>1. Todo(k)' = <<>> => Len(Todo(k)') = 0
  OBVIOUS
<1>2. Telling(k)' = Telling(k)
  BY DEF Telling
<1>3. Ours(k)'
  BY <1>1 DEF Single, Ours
<1>4. Known(k)'
  BY DEF Single, Known
<1>5. Awaited(k)'
  BY <1>2 DEF Single, Awaited
<1>6. Planned(k)'
  BY <1>1 DEF Single, Planned
<1>7. Undisturbed(k)'
  BY <1>2 DEF Single, Undisturbed
<1>8. QED
  BY <1>3, <1>4, <1>5, <1>6, <1>7 DEF Single

\* The same where the reconcile is not at a sync or a call of that kind.
LEMMA FrameIdle ==
  ASSUME NEW k \in Solo, Single(k),
         api'[k] = api[k], events'[k] = events[k], cache'[k] = cache[k], exp'[k] = exp[k],
         seen.exists => seen'.exists /\ seen'.uid = seen.uid,
         \/ work' = Idle
         \/ work'.kind # k
         \/ work'.pc \notin {"sync", "call"} /\ work'.todo = <<>>
  PROVE  Single(k)'
<1>1. Todo(k)' = <<>>
  BY DEF Todo
<1>2. Announced(k)'
  BY DEF Announced
<1>3. QED
  BY <1>1, <1>2, Frame

\* The same where the reconcile does not move.
LEMMA FrameStill ==
  ASSUME NEW k \in Solo, Single(k),
         api'[k] = api[k], events'[k] = events[k], cache'[k] = cache[k], exp'[k] = exp[k],
         seen.exists => seen'.exists /\ seen'.uid = seen.uid,
         work' = work
  PROVE  Single(k)'
<1>1. Todo(k)' = Todo(k)
  BY DEF Todo
<1>2. Announced(k)'
  BY DEF Single, Announced
<1>3. work' # Idle /\ work'.kind = k /\ work'.pc = "sync" => SatisfiedExpectations(exp[k])
  BY DEF Single, Planned
<1>4. QED
  BY <1>1, <1>2, <1>3, Frame

OneTyped == TypeInv /\ Followed /\ \A k \in Solo : Single(k)
OneAll == Followed /\ \A k \in Solo : Single(k)

LEMMA SoloKinds == Solo \subseteq Kinds /\ "slices" \notin Solo
BY DEF Solo, Kinds

LEMMA OneInit == Init => OneInv
<1> SUFFICES ASSUME Init PROVE Followed /\ \A k \in Solo : Single(k)
  BY DEF OneInv
<1>1. \A k \in Solo : /\ api[k] = {} /\ cache[k] = {} /\ events[k] = <<>> /\ Len(events[k]) = 0
  BY SoloKinds DEF Init, Nothing
<1>2. work = Idle /\ seen = Absent /\ ~seen.exists
  BY DEF Init, Absent
<1>3. \A k \in Solo : Todo(k) = <<>> /\ Len(Todo(k)) = 0
  BY <1>2 DEF Todo
<1>4. \A k \in Solo : Telling(k) = {}
  BY <1>1 DEF Telling
<1>5. Followed
  BY <1>2 DEF Followed
<1>6. ASSUME NEW k \in Solo PROVE Single(k)
  <2>1. Ours(k)
    BY <1>1, <1>3 DEF Ours
  <2>2. Known(k)
    BY <1>1 DEF Known
  <2>3. Awaited(k)
    BY <1>4 DEF Awaited
  <2>4. Planned(k) /\ Announced(k)
    BY <1>2, <1>3 DEF Planned, Announced
  <2>5. Undisturbed(k)
    BY <1>3 DEF Undisturbed
  <2>6. QED
    BY <2>1, <2>2, <2>3, <2>4, <2>5 DEF Single
<1>7. QED
  BY <1>5, <1>6

\* Users create the proxy, or change its spec.
LEMMA OneUser == OneTyped /\ User /\ deletes' = 0 => OneAll'
<1> SUFFICES ASSUME OneTyped, User, deletes' = 0 PROVE OneAll'
  OBVIOUS
<1>1. UNCHANGED <<api, events, cache, seen, exp, queued, work>>
  BY DEF User, CreateProxy, UpdateProxy, DeleteProxy, EditOnly, children
<1>2. \A k \in Solo : Single(k)'
  BY <1>1, FrameStill DEF OneTyped
<1>3. seen.exists => proxy'.exists /\ proxy'.uid = proxy.uid
  <2>1. proxy \in Proxies /\ (seen.exists => proxy # Absent)
    BY ProxyHas DEF OneTyped, TypeInv, TypeOK, Followed
  <2>2. ASSUME NEW s \in Specs, CreateProxy(s) PROVE <1>3!:
    BY <2>1, <2>2 DEF CreateProxy
  <2>3. ASSUME NEW s \in Specs, UpdateProxy(s) PROVE <1>3!:
    <3>1. proxy \in [exists : {TRUE}, uid : 1..MaxUid, gen : 1..MaxEdits, spec : Specs,
                     ready : BOOLEAN, observed : 0..MaxEdits]
      BY <2>1, <2>3 DEF UpdateProxy, Proxies
    <3>2. proxy' = [proxy EXCEPT !.spec = s, !.gen = @ + 1]
      BY <2>3 DEF UpdateProxy
    <3>3. QED
      BY <3>1, <3>2
  <2>4. ~DeleteProxy
    <3>1. deletes \in Nat
      BY BoundsAssumption DEF OneTyped, TypeInv, TypeOK
    <3>2. QED
      BY <3>1 DEF DeleteProxy
  <2>5. QED
    BY <2>2, <2>3, <2>4 DEF User
<1>4. Followed'
  BY <1>1, <1>3 DEF OneTyped, Followed
<1>5. QED
  BY <1>2, <1>4 DEF OneAll

\* The informer learns of the proxy; what it knew was of this one.
LEMMA OneRefresh == OneTyped /\ RefreshProxy => OneAll'
<1> SUFFICES ASSUME OneTyped, RefreshProxy PROVE OneAll'
  OBVIOUS
<1>1. seen' = proxy /\ UNCHANGED <<proxy, api, events, cache, exp, work>>
  BY DEF RefreshProxy, children
<1>2. seen.exists => seen'.exists /\ seen'.uid = seen.uid
  BY <1>1 DEF OneTyped, Followed
<1>3. \A k \in Solo : Single(k)'
  BY <1>1, <1>2, FrameStill DEF OneTyped
<1>4. Followed'
  BY <1>1, <1>2 DEF OneTyped, Followed
<1>5. QED
  BY <1>3, <1>4 DEF OneAll

\* No Service and no Ingress is an orphan.
LEMMA OneGarbage == ASSUME NEW k \in Kinds, OneTyped, CollectGarbage(k) PROVE OneAll'
<1>1. PICK o \in Orphans(k) : /\ api' = [api EXCEPT ![k] = @ \ {o}] /\ Event(k, "Delete", o)
                              /\ UNCHANGED <<proxy, cache, seen, exp, queued, work, uids, bounds>>
  BY DEF CollectGarbage
<1>2. k \notin Solo
  <2>1. SUFFICES ASSUME k \in Solo PROVE FALSE
    OBVIOUS
  <2>2. o \in api[k] /\ (~proxy.exists \/ proxy.uid # o.owner)
    BY <2>1 DEF Orphans, Solo
  <2>3. QED
    BY <2>1, <2>2 DEF OneTyped, Single, Ours, Followed
<1>3. DOMAIN api = Kinds /\ DOMAIN events = Kinds
  BY DEF OneTyped, TypeInv, TypeOK
<1>4. \A j \in Solo : api'[j] = api[j] /\ events'[j] = events[j]
  BY <1>1, <1>2, <1>3, SoloKinds DEF Event
<1>5. \A j \in Solo : Single(j)'
  BY <1>1, <1>4, FrameStill DEF OneTyped
<1>6. Followed'
  BY <1>1 DEF OneTyped, Followed
<1>7. QED
  BY <1>5, <1>6 DEF OneAll

\* The cache takes in the first event of a kind, and what it tells of is no
\* longer expected.
LEMMA OneDeliver == ASSUME NEW k \in Kinds, OneTyped, Deliver(k) PROVE OneAll'
<1> DEFINE e == Head(events[k])
           told == e.type # "Update"
<1>1. /\ events[k] # <<>> /\ events' = [events EXCEPT ![k] = Tail(@)]
      /\ cache' = [cache EXCEPT ![k] = Folded(@, e)]
      /\ exp' = IF told /\ Resolves(k, e.obj)
                  THEN [exp EXCEPT ![k] = Observe(@, Observed(e.type), e.obj.name)] ELSE exp
      /\ UNCHANGED <<proxy, api, seen, work, uids, bounds>>
  BY DEF Deliver
<1>2. /\ DOMAIN cache = Kinds /\ DOMAIN events = Kinds /\ DOMAIN exp = Kinds
      /\ events[k] \in Seq(Events(k)) /\ exp[k] \in [Actions -> SUBSET Names(k)]
  BY DEF OneTyped, TypeInv, TypeOK
<1>3. Followed'
  BY <1>1 DEF OneTyped, Followed
<1>4. ASSUME NEW j \in Solo, j # k PROVE Single(j)'
  <2>1. events'[j] = events[j] /\ cache'[j] = cache[j] /\ exp'[j] = exp[j]
    BY <1>1, <1>2, <1>4, SoloKinds
  <2>2. QED
    BY <1>1, <1>4, <2>1, FrameStill DEF OneTyped
<1>5. ASSUME k \in Solo PROVE Single(k)'
  <2>0. Resolves(k, e.obj)
    BY <1>5, SoloKinds DEF Resolves
  <2>1. /\ events'[k] = Tail(events[k]) /\ cache'[k] = Folded(cache[k], e)
        /\ exp'[k] = IF told THEN Observe(exp[k], Observed(e.type), e.obj.name) ELSE exp[k]
        /\ api'[k] = api[k] /\ work' = work /\ seen' = seen
    BY <1>1, <1>2, <2>0
  <2>2. /\ Len(events[k]) \in Nat /\ Len(events[k]) > 0 /\ Len(events'[k]) = Len(events[k]) - 1
        /\ e = events[k][1] /\ e \in Events(k)
        /\ \A i \in 1..Len(events'[k]) : i + 1 \in 1..Len(events[k]) /\ events'[k][i] = events[k][i + 1]
    BY <1>1, <1>2, <2>1
  <2> HIDE DEF e
  <2>3. Single(k) /\ Todo(k)' = Todo(k)
    BY <1>5, <2>1 DEF OneTyped, Todo
  <2>4. /\ \A i \in Telling(k)' : i + 1 \in Telling(k) /\ events'[k][i] = events[k][i + 1] /\ i \in Nat
        /\ told => 1 \in Telling(k)
    BY <2>2 DEF Telling
  \* What of the expectations stays.
  <2>5. \A act \in Actions : \A name \in exp[k][act] :
          name \in exp'[k][act] \/ (told /\ act = Observed(e.type) /\ name = e.obj.name)
    BY <1>2, <2>1 DEF Observe
  <2>6. \A act \in Actions : exp'[k][act] \subseteq exp[k][act]
    BY <1>2, <2>1 DEF Observe
  <2>7. \A i \in Telling(k) : events[k][i].type \in {"Create", "Delete"} /\ events[k][i] \in Events(k)
    <3>1. \A i \in 1..Len(events[k]) : events[k][i] \in Events(k)
      BY <1>2
    <3>2. \A x \in Events(k) : x.type # "Update" => x.type \in {"Create", "Delete"}
      BY DEF Events
    <3>3. QED
      BY <3>1, <3>2 DEF Telling
  <2>8. "creations" \in Actions /\ "deletions" \in Actions /\ \A type : Observed(type) \in Actions
    BY DEF Actions, Observed
  <2>9. Ours(k)'
    <3>1. \A o \in cache'[k] : o \in cache[k] \/ o = e.obj
      BY <2>1 DEF Folded
    <3>2. 1 \in 1..Len(events[k])
      BY <2>2
    <3>3. \A o \in api'[k] \cup cache'[k] : seen'.exists /\ o.owner = seen'.uid
      BY <2>1, <2>2, <2>3, <3>1, <3>2 DEF Single, Ours
    <3>4. \A i \in 1..Len(events'[k]) : seen'.exists /\ events'[k][i].obj.owner = seen'.uid
      BY <2>1, <2>2, <2>3 DEF Single, Ours
    <3>5. QED
      BY <2>1, <2>3, <3>3, <3>4 DEF Single, Ours
  <2>10. Known(k)'
    <3>1. \A o, q \in cache'[k] : o.name = q.name => o = q
      BY <2>1, <2>3 DEF Folded, Single, Known
    <3>2. ASSUME NEW o \in api[k]
          PROVE  o.name \in exp'[k]["creations"] \/ \E c \in cache'[k] : c.name = o.name
      <4>1. CASE e.type = "Delete"
        <5>1. o.name # e.obj.name
          BY <2>2, <2>3, <2>4, <3>2, <4>1 DEF Single, Awaited
        <5>2. CASE o.name \in exp[k]["creations"]
          BY <2>5, <2>8, <5>1, <5>2
        <5>3. ASSUME NEW c \in cache[k], c.name = o.name PROVE c \in cache'[k]
          BY <2>1, <5>1, <5>3 DEF Folded
        <5>4. QED
          BY <2>3, <3>2, <5>2, <5>3 DEF Single, Known
      <4>2. CASE e.type # "Delete"
        <5>1. e.obj \in cache'[k]
          BY <2>1, <4>2 DEF Folded
        <5>2. CASE o.name = e.obj.name
          BY <5>1, <5>2
        <5>3. CASE o.name # e.obj.name
          <6>1. CASE o.name \in exp[k]["creations"]
            BY <2>5, <2>8, <5>3, <6>1
          <6>2. ASSUME NEW c \in cache[k], c.name = o.name PROVE c \in cache'[k]
            BY <2>1, <5>3, <6>2 DEF Folded
          <6>3. QED
            BY <2>3, <3>2, <6>1, <6>2 DEF Single, Known
        <5>4. QED
          BY <5>2, <5>3
      <4>3. QED
        BY <4>1, <4>2
    <3>3. QED
      BY <2>1, <2>3, <3>1, <3>2 DEF Single, Known
  <2>11. Awaited(k)'
    <3>1. ASSUME NEW i \in Telling(k)'
          PROVE  events'[k][i].obj.name \in exp'[k][Observed(events'[k][i].type)]
      <4>1. i + 1 \in Telling(k) /\ events'[k][i] = events[k][i + 1] /\ i + 1 # 1
        BY <2>2, <2>4, <3>1 DEF Telling
      <4>2. events[k][i + 1].obj.name \in exp[k][Observed(events[k][i + 1].type)]
        BY <2>3, <4>1 DEF Single, Awaited
      <4>3. told => ~(events[k][i + 1].type = e.type /\ events[k][i + 1].obj.name = e.obj.name)
        BY <2>2, <2>3, <2>4, <4>1 DEF Single, Awaited
      <4>4. told => (Observed(events[k][i + 1].type) = Observed(e.type) => events[k][i + 1].type = e.type)
        BY <2>2, <2>4, <2>7, <4>1 DEF Observed
      <4>5. QED
        BY <2>5, <2>8, <4>1, <4>2, <4>3, <4>4
    <3>2. \A i, j \in Telling(k)' :
            events'[k][i].type = events'[k][j].type /\ events'[k][i].obj.name = events'[k][j].obj.name => i = j
      <4>1. SUFFICES ASSUME NEW i \in Telling(k)', NEW j \in Telling(k)',
                            events'[k][i].type = events'[k][j].type,
                            events'[k][i].obj.name = events'[k][j].obj.name
                     PROVE  i = j
        OBVIOUS
      <4>2. i + 1 = j + 1
        BY <2>3, <2>4, <4>1 DEF Single, Awaited
      <4>3. i \in Nat /\ j \in Nat
        BY <2>4, <4>1
      <4>4. QED
        BY <4>2, <4>3
    <3>3. \A i \in Telling(k)' : events'[k][i].type = "Delete" =>
            \A o \in api'[k] : o.name # events'[k][i].obj.name
      <4>1. SUFFICES ASSUME NEW i \in Telling(k)', events'[k][i].type = "Delete", NEW o \in api'[k]
                     PROVE  o.name # events'[k][i].obj.name
        OBVIOUS
      <4>2. i + 1 \in Telling(k) /\ events'[k][i] = events[k][i + 1]
        BY <2>4, <4>1
      <4>3. o \in api[k]
        BY <2>1
      <4>4. events[k][i + 1].type = "Delete"
        BY <4>1, <4>2
      <4>5. o.name # events[k][i + 1].obj.name
        BY <2>3, <4>2, <4>3, <4>4 DEF Single, Awaited
      <4>6. QED
        BY <4>2, <4>5
    <3>4. QED
      BY <3>1, <3>2, <3>3 DEF Awaited
  <2>12. Planned(k)'
    <3>1. SatisfiedExpectations(exp[k]) => SatisfiedExpectations(exp'[k])
      BY <2>6 DEF SatisfiedExpectations
    <3>2. QED
      BY <2>1, <2>3, <3>1 DEF Single, Planned
  <2>13. Undisturbed(k)'
    <3>1. SUFFICES ASSUME Todo(k) # <<>>, NEW i \in Telling(k)'
                   PROVE  /\ events'[k][i].type = "Delete" /\ api[k] = {}
                          /\ \A j \in 1..Len(Todo(k)) :
                               Todo(k)[j].verb # "update" => Todo(k)[j].obj.name # events'[k][i].obj.name
      BY <2>1, <2>3 DEF Undisturbed
    <3>2. i + 1 \in Telling(k) /\ events'[k][i] = events[k][i + 1]
      BY <2>4, <3>1
    <3>3. QED
      BY <2>3, <3>1, <3>2 DEF Single, Undisturbed
  <2>14. Announced(k)'
    <3>1. SUFFICES ASSUME work # Idle, work.kind = k, work.pc = "call", Head(work.todo).verb # "update"
                   PROVE  Head(work.todo).obj.name \in exp'[k][Intended(Head(work.todo).verb)]
      BY <2>1 DEF Announced
    <3>2. Head(work.todo).obj.name \in exp[k][Intended(Head(work.todo).verb)]
      BY <2>3, <3>1 DEF Single, Announced
    <3>3. work.todo # <<>> /\ work.todo \in Seq(Ops(k)) /\ Todo(k) = work.todo
      BY <3>1, Ongoing DEF OneTyped, TypeInv, Sized, Todo
    <3>4. 1 \in 1..Len(Todo(k)) /\ Head(work.todo) = Todo(k)[1]
      BY <3>3
    <3>5. told => Head(work.todo).obj.name # e.obj.name
      BY <2>2, <2>3, <2>4, <3>1, <3>3, <3>4 DEF Single, Undisturbed
    <3>6. Intended(Head(work.todo).verb) \in Actions
      BY DEF Intended, Actions
    <3>7. QED
      BY <2>5, <3>2, <3>5, <3>6
  <2>15. QED
    BY <2>9, <2>10, <2>11, <2>12, <2>13, <2>14 DEF Single
<1>6. QED
  BY <1>3, <1>4, <1>5 DEF OneAll

\* A reconcile begins where the informer shows the proxy; where it does not,
\* there is no child yet whose expectation could be dropped.
LEMMA OneBegin == OneTyped /\ Begin => OneAll'
<1> SUFFICES ASSUME OneTyped, Begin PROVE OneAll'
  OBVIOUS
<1>1. /\ UNCHANGED <<proxy, api, events, cache, seen>> /\ work = Idle
  BY DEF Begin, children
<1>2. CASE seen.exists
  <2>1. work' = [pc |-> "check", kind |-> "services", inst |-> seen, todo |-> <<>>] /\ exp' = exp
    BY <1>2 DEF Begin
  <2>2. work'.pc = "check" /\ work'.todo = <<>> /\ work'.inst = seen
    BY <2>1
  <2>3. \A k \in Solo : Single(k)'
    BY <1>1, <2>1, <2>2, FrameIdle DEF OneTyped
  <2>4. Followed'
    BY <1>1, <1>2, <2>2 DEF OneTyped, Followed
  <2>5. QED
    BY <2>3, <2>4 DEF OneAll
<1>3. CASE ~seen.exists
  <2>1. work' = Idle /\ exp' = [exp EXCEPT !["services"] = NoExpectations]
    BY <1>1, <1>3 DEF Begin
  <2>2. Followed'
    BY <1>1, <2>1 DEF OneTyped, Followed
  <2>3. ASSUME NEW k \in Solo PROVE Single(k)'
    <3>1. Single(k) /\ events[k] \in Seq(Events(k)) /\ Todo(k)' = <<>> /\ Len(Todo(k)') = 0
      BY <2>1, SoloKinds DEF OneTyped, TypeInv, TypeOK, Todo
    <3>2. api[k] = {} /\ cache[k] = {} /\ Len(events[k]) = 0
      BY <1>3, <3>1 DEF Single, Ours
    <3>3. Telling(k)' = {}
      BY <1>1, <3>2 DEF Telling
    <3>4. Ours(k)' /\ Known(k)'
      BY <1>1, <3>1, <3>2 DEF Ours, Known
    <3>5. Awaited(k)' /\ Undisturbed(k)'
      BY <3>1, <3>3 DEF Awaited, Undisturbed
    <3>6. Planned(k)' /\ Announced(k)'
      BY <2>1, <3>1 DEF Planned, Announced
    <3>7. QED
      BY <3>4, <3>5, <3>6 DEF Single
  <2>4. QED
    BY <2>2, <2>3 DEF OneAll
<1>4. QED
  BY <1>2, <1>3

\* A sync is planned only when nothing is expected.
LEMMA OneCheck == OneTyped /\ Check => OneAll'
<1> SUFFICES ASSUME OneTyped, Check PROVE OneAll'
  OBVIOUS
<1>1. /\ UNCHANGED <<proxy, api, events, cache, seen, exp>> /\ work # Idle /\ work.pc = "check"
  BY DEF Check, children
<1>2. CASE Goto("sync", work.kind, <<>>) /\ SatisfiedExpectations(exp[work.kind])
  <2>1. work.kind \in Kinds /\ <<>> \in Seq(Ops(work.kind))
    BY <1>1, Ongoing DEF OneTyped
  <2>2. /\ work' # Idle /\ work'.pc = "sync" /\ work'.todo = <<>> /\ work'.kind = work.kind
        /\ work'.inst = work.inst
    BY <1>1, <1>2, <2>1, Going DEF OneTyped
  <2>3. ASSUME NEW k \in Solo PROVE Single(k)'
    <3>1. Todo(k)' = <<>>
      BY <2>2 DEF Todo
    <3>2. Announced(k)'
      BY <2>2 DEF Announced
    <3>3. QED
      BY <1>1, <1>2, <2>2, <3>1, <3>2, Frame DEF OneTyped
  <2>4. Followed'
    BY <1>1, <2>2 DEF OneTyped, Followed
  <2>5. QED
    BY <2>3, <2>4 DEF OneAll
<1>3. CASE Requeue \/ Finish
  <2>1. work' = Idle
    BY <1>3 DEF Requeue, Finish
  <2>2. \A k \in Solo : Single(k)'
    BY <1>1, <2>1, FrameIdle DEF OneTyped
  <2>3. Followed'
    BY <1>1, <2>1 DEF OneTyped, Followed
  <2>4. QED
    BY <2>2, <2>3 DEF OneAll
<1>4. QED
  BY <1>2, <1>3 DEF Check

\* What the status says is none of the children's business.
LEMMA OneStatus == OneTyped /\ Status => OneAll'
<1> SUFFICES ASSUME OneTyped, Status PROVE OneAll'
  OBVIOUS
<1>1. UNCHANGED <<api, events, cache, seen, exp>> /\ work # Idle
  BY DEF Status, children
<1>2. \/ proxy' = proxy
      \/ \E ready, observed : proxy' = [proxy EXCEPT !.ready = ready, !.observed = observed]
  BY DEF Status, UpdateStatus
<1>3. proxy.exists => proxy'.exists /\ proxy'.uid = proxy.uid
  <2>1. proxy.exists => proxy \in [exists : {TRUE}, uid : 1..MaxUid, gen : 1..MaxEdits, spec : Specs,
                                   ready : BOOLEAN, observed : 0..MaxEdits]
    BY ProxyHas DEF OneTyped, TypeInv, TypeOK, Proxies
  <2>2. QED
    BY <1>2, <2>1
<1>4. \/ work' = Idle
      \/ work' # Idle /\ work'.pc = "check" /\ work'.todo = <<>> /\ work'.inst = work.inst
  <2>1. Finish \/ Requeue \/ Goto("check", "slices", <<>>)
    BY DEF Status, UpdateStatus
  <2>2. "slices" \in Kinds /\ <<>> \in Seq(Ops("slices"))
    BY DEF Kinds
  <2>3. QED
    BY <1>1, <2>1, <2>2, Going DEF Finish, Requeue, OneTyped
<1>5. \A k \in Solo : Single(k)'
  BY <1>1, <1>4, FrameIdle DEF OneTyped
<1>6. Followed'
  BY <1>1, <1>3, <1>4 DEF OneTyped, Followed
<1>7. QED
  BY <1>5, <1>6 DEF OneAll

\* After a restart nothing is expected, nothing is on its way, and the cache
\* shows what there is.
LEMMA OneCrash == OneTyped /\ Crash => OneAll'
<1> SUFFICES ASSUME OneTyped, Crash PROVE OneAll'
  OBVIOUS
<1>1. /\ work' = Idle /\ exp' = [k \in Kinds |-> NoExpectations] /\ cache' = api /\ seen' = proxy
      /\ events' = [k \in Kinds |-> <<>>] /\ UNCHANGED <<proxy, api>>
  BY DEF Crash
<1>2. Followed'
  BY <1>1 DEF Followed
<1>3. ASSUME NEW k \in Solo PROVE Single(k)'
  <2>1. Single(k) /\ Todo(k)' = <<>> /\ Len(Todo(k)') = 0 /\ Len(events'[k]) = 0 /\ cache'[k] = api[k]
    BY <1>1, <1>3, SoloKinds DEF OneTyped, Todo
  <2>2. Telling(k)' = {}
    BY <2>1 DEF Telling
  <2>3. Ours(k)'
    BY <1>1, <2>1 DEF Ours, Single, OneTyped, Followed
  <2>4. Known(k)'
    BY <1>1, <2>1 DEF Known, Single
  <2>5. Awaited(k)' /\ Undisturbed(k)'
    BY <2>1, <2>2 DEF Awaited, Undisturbed
  <2>6. Planned(k)' /\ Announced(k)'
    BY <1>1, <2>1 DEF Planned, Announced
  <2>7. QED
    BY <2>3, <2>4, <2>5, <2>6 DEF Single
<1>4. QED
  BY <1>2, <1>3 DEF OneAll

\* The plan of a kind, made when nothing is expected: it deletes every child
\* but the one with the desired name, and creates that one if there is none.
LEMMA OnePlan ==
  ASSUME OneTyped, NEW k \in Solo, work # Idle, work.kind = k, work.pc = "sync",
         NEW name \in Names(k) \cup {NoIngress},
         UNCHANGED <<proxy, api, events, cache, seen, exp>>,
         Goto("intend", k, SyncActivated(k, name))
  PROVE  Single(k)'
<1> DEFINE uid == work.inst.uid
           gen == work.inst.gen
           objects == Owned(k, uid)
           others == {o \in objects : o.name # name}
           D == Deletions(others)
           E == IF name = NoIngress THEN <<>> ELSE Ensure(objects, name, uid)
           todo == SyncActivated(k, name)
<1>1. k \in Kinds /\ uid \in 1..MaxUid /\ gen \in 1..MaxEdits /\ uid = seen.uid /\ seen.exists
  BY SoloKinds, Ongoing DEF OneTyped, Followed
<1>2. todo \in Seq(Ops(k))
  BY <1>1, PlanTyped DEF OneTyped
<1>3. /\ work' # Idle /\ work'.pc = "intend" /\ work'.kind = k /\ work'.todo = todo
      /\ work'.inst = work.inst
  <2> HIDE DEF todo
  <2>1. Goto("intend", k, todo)
    BY DEF todo
  <2>2. QED
    BY <1>1, <1>2, <2>1, Going DEF OneTyped
<1>4. Todo(k)' = todo
  <2> HIDE DEF todo
  <2> QED
    BY <1>3 DEF Todo
<1>5. objects = cache[k] /\ objects \in SUBSET Children(k) /\ IsFiniteSet(objects)
  <2>1. objects = cache[k]
    BY <1>1 DEF Owned, OneTyped, Single, Ours
  <2>2. QED
    BY <1>1, <2>1, OwnedAre DEF OneTyped
<1>6. others \in SUBSET Children(k) /\ IsFiniteSet(others) /\ others = {o \in cache[k] : o.name # name}
  <2>1. others \subseteq objects /\ others = {o \in cache[k] : o.name # name}
    BY <1>5
  <2> HIDE DEF others, objects
  <2>2. QED
    BY <1>5, <2>1, FS_Subset
<1>7. /\ D \in Seq(Ops(k))
      /\ \A i \in 1..Len(D) : \E o \in others : D[i] = Delete(o)
      /\ \A o \in others : \E i \in 1..Len(D) : D[i] = Delete(o)
      /\ \A i, j \in 1..Len(D) : D[i].obj = D[j].obj => i = j
  <2> HIDE DEF others
  <2> QED
    BY <1>1, <1>6, DeletionsAre
<1>8. E \in Seq(Ops(k)) /\
      \/ E = <<>>
      \/ /\ \A o \in cache[k] : o.name # name
         /\ Len(E) = 1 /\ E[1] = Create(Child(name, uid, gen, 0))
      \/ \A i \in 1..Len(E) : \E o \in cache[k] : E[i] = Update(o, gen)
  <2> HIDE DEF objects
  <2>1. CASE name = NoIngress
    BY <2>1
  <2>2. CASE name # NoIngress
    <3>1. E = Ensure(objects, name, uid) /\ name \in Names(k)
      BY <2>2
    <3>2. QED
      BY <1>1, <1>5, <3>1, EnsureIs
  <2>3. QED
    BY <2>1, <2>2
<1>9. todo = D \o E
  BY DEF SyncActivated
<1> HIDE DEF objects, others, D, E, todo
<1>10. \A o \in cache[k] : /\ Delete(o).verb = "delete" /\ Delete(o).obj = o /\ o.owner = uid
                           /\ Update(o, gen).verb = "update" /\ Update(o, gen).obj.owner = uid
                           /\ Update(o, gen).obj.name = o.name /\ Update(o, gen).old = o
  <2>1. \A o \in cache[k] : o.owner = uid /\ o \in Children(k)
    BY <1>1, <1>5 DEF OneTyped, Single, Ours
  <2>2. QED
    BY <2>1 DEF Delete, Update, Children
<1>11. /\ Create(Child(name, uid, gen, 0)).verb = "create"
       /\ Create(Child(name, uid, gen, 0)).obj.name = name
       /\ Create(Child(name, uid, gen, 0)).obj.owner = uid
  BY DEF Create, Child
<1>12. /\ Len(todo) = Len(D) + Len(E) /\ Len(D) \in Nat /\ Len(E) \in Nat
       /\ \A i \in 1..Len(D) : i \in 1..Len(todo) /\ todo[i] = D[i]
       /\ \A i \in 1..Len(todo) : i > Len(D) => i - Len(D) \in 1..Len(E) /\ todo[i] = E[i - Len(D)]
  BY <1>7, <1>8, <1>9
\* Each operation of the plan is one of three.
<1>13. ASSUME NEW i \in 1..Len(todo)
       PROVE  \/ /\ i \in 1..Len(D) /\ todo[i] = D[i] /\ todo[i].verb = "delete"
                 /\ todo[i].obj \in cache[k] /\ todo[i].obj.name # name
              \/ /\ i = Len(todo) /\ i = Len(D) + 1 /\ todo[i].verb = "create" /\ todo[i].obj.name = name
                 /\ todo[i].obj.owner = uid /\ \A o \in cache[k] : o.name # name
              \/ /\ todo[i].verb = "update" /\ todo[i].obj.owner = uid
                 /\ todo[i].obj.name = todo[i].old.name
  <2>1. CASE i \in 1..Len(D)
    BY <1>6, <1>7, <1>10, <1>12, <2>1
  <2>2. CASE i \notin 1..Len(D)
    <3>1. i > Len(D) /\ i - Len(D) \in 1..Len(E) /\ todo[i] = E[i - Len(D)]
      BY <1>12, <1>13, <2>2
    <3>2. CASE /\ \A o \in cache[k] : o.name # name
               /\ Len(E) = 1 /\ E[1] = Create(Child(name, uid, gen, 0))
      BY <1>11, <1>12, <3>1, <3>2
    <3>3. CASE \A j \in 1..Len(E) : \E o \in cache[k] : E[j] = Update(o, gen)
      BY <1>10, <3>1, <3>3
    <3>4. CASE E = <<>>
      BY <3>1, <3>4
    <3>5. QED
      BY <1>8, <3>2, <3>3, <3>4
  <2>3. QED
    BY <2>1, <2>2
<1>14. SatisfiedExpectations(exp[k]) /\ Single(k)
  BY DEF OneTyped, Single, Planned
<1>15. Telling(k) = {} /\ Telling(k)' = {}
  <2>1. \A type : Observed(type) \in Actions
    BY DEF Observed, Actions
  <2>2. QED
    BY <1>14, <2>1 DEF Single, Awaited, SatisfiedExpectations, Telling
<1>16. \A o \in api[k] : \E c \in cache[k] : c.name = o.name
  BY <1>14 DEF Single, Known, SatisfiedExpectations, Actions
<1>17. Ours(k)'
  <2>1. \A i \in 1..Len(todo) : /\ todo[i].obj.owner = uid
                                /\ todo[i].verb = "update" => todo[i].obj.name = todo[i].old.name
    BY <1>10, <1>13
  <2>2. QED
    BY <1>1, <1>4, <1>14, <2>1 DEF Single, Ours
<1>18. Known(k)' /\ Awaited(k)'
  BY <1>14, <1>15 DEF Single, Known, Awaited
<1>19. Planned(k)'
  <2>1. ASSUME NEW i \in 1..Len(todo), todo[i].verb = "create"
        PROVE  /\ i = Len(todo)
               /\ \A o \in api[k] : \E j \in 1..(i - 1) : todo[j].verb = "delete" /\ todo[j].obj.name = o.name
    <3>1. i = Len(todo) /\ i = Len(D) + 1 /\ \A o \in cache[k] : o.name # name
      BY <1>13, <2>1
    <3>2. ASSUME NEW o \in api[k]
          PROVE  \E j \in 1..(i - 1) : todo[j].verb = "delete" /\ todo[j].obj.name = o.name
      <4>1. PICK c \in cache[k] : c.name = o.name
        BY <1>16, <3>2
      <4>2. c \in others
        BY <1>6, <3>1, <4>1
      <4>3. PICK j \in 1..Len(D) : D[j] = Delete(c)
        BY <1>7, <4>2
      <4>4. todo[j] = Delete(c) /\ j \in 1..(i - 1)
        BY <1>12, <3>1, <4>3
      <4>5. QED
        BY <1>10, <4>1, <4>4
    <3>3. QED
      BY <3>1, <3>2
  <2>2. ASSUME NEW i \in 1..Len(todo), NEW j \in 1..Len(todo),
               todo[i].verb # "update", todo[j].verb # "update", todo[i].obj.name = todo[j].obj.name
        PROVE  i = j
    <3>1. CASE i \in 1..Len(D) /\ j \in 1..Len(D)
      <4>1. D[i].obj \in cache[k] /\ D[j].obj \in cache[k] /\ D[i].obj.name = D[j].obj.name
        <5>1. \A x \in 1..Len(D) : D[x].obj \in cache[k]
          BY <1>6, <1>7, <1>10
        <5>2. todo[i] = D[i] /\ todo[j] = D[j]
          BY <1>12, <3>1
        <5>3. QED
          BY <2>2, <3>1, <5>1, <5>2
      <4>2. D[i].obj = D[j].obj
        BY <1>14, <4>1 DEF Single, Known
      <4>3. QED
        BY <1>7, <3>1, <4>2
    <3>2. CASE ~(i \in 1..Len(D) /\ j \in 1..Len(D))
      <4>1. i = Len(D) + 1 \/ j = Len(D) + 1
        BY <1>13, <2>2, <3>2
      <4>2. (i = Len(D) + 1 => todo[i].obj.name = name) /\ (j = Len(D) + 1 => todo[j].obj.name = name)
        BY <1>12, <1>13, <2>2
      <4>3. (i \in 1..Len(D) => todo[i].obj.name # name) /\ (j \in 1..Len(D) => todo[j].obj.name # name)
        BY <1>12, <1>13, <2>2
      <4>4. (i \in 1..Len(D) \/ i = Len(D) + 1) /\ (j \in 1..Len(D) \/ j = Len(D) + 1)
        BY <1>13, <2>2
      <4>5. QED
        BY <2>2, <4>1, <4>2, <4>3, <4>4
    <3>3. QED
      BY <3>1, <3>2
  <2>3. ~(work' # Idle /\ work'.kind = k /\ work'.pc = "sync")
    BY <1>3
  <2>4. QED
    BY <1>4, <2>1, <2>2, <2>3 DEF Planned
<1>20. Undisturbed(k)'
  BY <1>15 DEF Undisturbed
<1>21. Announced(k)'
  BY <1>3 DEF Announced
<1>22. QED
  BY <1>17, <1>18, <1>19, <1>20, <1>21 DEF Single

LEMMA OneSync == OneTyped /\ Sync => OneAll'
<1> SUFFICES ASSUME OneTyped, Sync PROVE OneAll'
  OBVIOUS
<1>1. /\ UNCHANGED <<proxy, api, events, cache, seen, exp>> /\ work # Idle /\ work.pc = "sync"
  BY DEF Sync, children
<1>2. ASSUME NEW k \in Kinds, NEW todo \in Seq(Ops(k)), Goto("intend", k, todo)
      PROVE  Followed' /\ work'.kind = k
  <2>1. work'.inst = work.inst /\ work'.kind = k
    BY <1>1, <1>2, Going DEF OneTyped
  <2>2. QED
    BY <1>1, <2>1 DEF OneTyped, Followed
<1>3. ASSUME NEW k \in Solo, work.kind = k, NEW name \in Names(k) \cup {NoIngress},
             Goto("intend", k, SyncActivated(k, name))
      PROVE  OneAll'
  <2>1. SyncActivated(k, name) \in Seq(Ops(k)) /\ k \in Kinds
    BY <1>1, <1>3, PlanTyped, SoloKinds DEF OneTyped
  <2>2. Followed' /\ work'.kind = k
    BY <1>2, <1>3, <2>1
  <2>3. Single(k)'
    BY <1>1, <1>3, OnePlan
  <2>4. ASSUME NEW j \in Solo, j # k PROVE Single(j)'
    BY <1>1, <2>2, <2>4, FrameIdle DEF OneTyped
  <2>5. QED
    BY <2>2, <2>3, <2>4 DEF OneAll
<1>4. "services" \in Solo /\ "ingresses" \in Solo /\ "slices" \in Kinds
  BY DEF Solo, Kinds
<1>5. work.inst.spec.svc \in Names("services") /\ work.inst.spec.ing \in Names("ingresses") \cup {NoIngress}
  BY <1>1, Ongoing DEF Names, OneTyped
<1>6. CASE work.kind = "services" /\ Goto("intend", "services", SyncActivated("services", work.inst.spec.svc))
  BY <1>3, <1>4, <1>5, <1>6
<1>7. CASE work.kind = "ingresses" /\ Goto("intend", "ingresses", SyncActivated("ingresses", work.inst.spec.ing))
  BY <1>3, <1>4, <1>5, <1>7
<1>8. ASSUME NEW s \in cache["services"], s.name = work.inst.spec.svc,
             Goto("intend", "slices", SyncEndpointSlices(s))
      PROVE  OneAll'
  <2>1. Followed' /\ work'.kind = "slices"
    BY <1>1, <1>2, <1>4, <1>8, SlicePlanTyped DEF OneTyped
  <2>2. \A j \in Solo : Single(j)'
    BY <1>1, <2>1, FrameIdle, SoloKinds DEF OneTyped
  <2>3. QED
    BY <2>1, <2>2 DEF OneAll
<1>9. CASE work' = Idle
  <2>1. \A j \in Solo : Single(j)'
    BY <1>1, <1>9, FrameIdle DEF OneTyped
  <2>2. Followed'
    BY <1>1, <1>9 DEF OneTyped, Followed
  <2>3. QED
    BY <2>1, <2>2 DEF OneAll
<1>10. QED
  BY <1>6, <1>7, <1>8, <1>9 DEF Sync

\* What is about to be called is expected from now on.
LEMMA OneIntend == OneTyped /\ Intend => OneAll'
<1> SUFFICES ASSUME OneTyped, Intend PROVE OneAll'
  OBVIOUS
<1>1. /\ UNCHANGED <<proxy, api, events, cache, seen>> /\ work # Idle /\ work.pc = "intend"
  BY DEF Intend, children
<1>2. work.kind \in Kinds /\ DOMAIN exp = Kinds
  BY <1>1, Ongoing DEF OneTyped, TypeInv, TypeOK
<1>3. CASE work.todo # <<>>
  <2> DEFINE op == Head(work.todo)
  <2>0. PICK k \in Kinds : k = work.kind
    BY <1>2
  <2>1. /\ exp' = IF op.verb = "update" THEN exp
                  ELSE [exp EXCEPT ![k] = Expect(@, Intended(op.verb), op.obj.name)]
        /\ Goto("call", k, work.todo)
    BY <1>3, <2>0 DEF Intend
  <2>2. /\ work' # Idle /\ work'.pc = "call" /\ work'.kind = k /\ work'.todo = work.todo
        /\ work'.inst = work.inst
    BY <1>1, <2>0, <2>1, Ongoing, Going DEF OneTyped
  <2> HIDE DEF op
  <2>3. Followed'
    BY <1>1, <2>2 DEF OneTyped, Followed
  <2>4. ASSUME NEW j \in Solo, j # k PROVE Single(j)'
    <3>1. exp'[j] = exp[j]
      BY <1>2, <2>1, <2>4, SoloKinds
    <3>2. QED
      BY <1>1, <2>2, <2>4, <3>1, FrameIdle DEF OneTyped
  <2>5. ASSUME k \in Solo PROVE Single(k)'
    <3>1. Single(k) /\ Todo(k)' = Todo(k) /\ exp[k] \in [Actions -> SUBSET Names(k)]
      BY <1>1, <2>0, <2>2, <2>5 DEF OneTyped, TypeInv, TypeOK, Todo
    <3>2. exp'[k] = IF op.verb = "update" THEN exp[k]
                    ELSE [exp[k] EXCEPT ![Intended(op.verb)] = @ \cup {op.obj.name}]
      BY <1>2, <2>1 DEF Expect
    <3>3. Intended(op.verb) \in Actions /\ (\A type : Observed(type) \in Actions) /\ "creations" \in Actions
      BY DEF Intended, Observed, Actions
    <3>4. \A act \in Actions : exp[k][act] \subseteq exp'[k][act]
      BY <3>1, <3>2, <3>3
    <3>5. op.verb # "update" => op.obj.name \in exp'[k][Intended(op.verb)]
      BY <3>1, <3>2, <3>3
    <3>6. Telling(k)' = Telling(k)
      BY <1>1 DEF Telling
    <3>7. Ours(k)'
      BY <1>1, <3>1 DEF Single, Ours
    <3>8. Known(k)'
      BY <1>1, <3>1, <3>3, <3>4 DEF Single, Known
    <3>9. Awaited(k)'
      BY <1>1, <3>1, <3>3, <3>4, <3>6 DEF Single, Awaited
    <3>10. Planned(k)'
      BY <1>1, <2>2, <3>1 DEF Single, Planned
    <3>11. Undisturbed(k)'
      BY <1>1, <3>1, <3>6 DEF Single, Undisturbed
    <3>12. Announced(k)'
      BY <2>2, <3>5 DEF Announced, op
    <3>13. QED
      BY <3>7, <3>8, <3>9, <3>10, <3>11, <3>12 DEF Single
  <2>6. QED
    BY <2>3, <2>4, <2>5 DEF OneAll
<1>4. CASE work.todo = <<>>
  <2>1. PICK pc \in {"check", "status", "ready"}, k \in Kinds : Goto(pc, k, <<>>)
    <3>1. "services" \in Kinds /\ "ingresses" \in Kinds
      BY DEF Kinds
    <3>2. \/ Goto("status", "services", <<>>) \/ Goto("check", "ingresses", <<>>)
          \/ Goto("ready", "ingresses", <<>>)
      BY <1>2, <1>4 DEF Intend, Kinds
    <3>3. QED
      BY <3>1, <3>2
  <2>2. <<>> \in Seq(Ops(k)) /\ pc \in {"check", "sync", "intend", "call", "status", "ready"}
    OBVIOUS
  <2>3. /\ work' # Idle /\ work'.pc = pc /\ work'.todo = <<>> /\ work'.inst = work.inst
    BY <1>1, <2>1, <2>2, Going DEF OneTyped
  <2>4. exp' = exp /\ pc \notin {"sync", "call"}
    BY <1>4 DEF Intend
  <2>5. \A j \in Solo : Single(j)'
    BY <1>1, <2>3, <2>4, FrameIdle DEF OneTyped
  <2>6. Followed'
    BY <1>1, <2>3 DEF OneTyped, Followed
  <2>7. QED
    BY <2>5, <2>6 DEF OneAll
<1>5. QED
  BY <1>3, <1>4

\* A call that has no effect takes its expectation back: none of the events on
\* their way is about it.
LEMMA OneDropped ==
  ASSUME OneTyped, NEW k \in Solo, work # Idle, work.kind = k, work.pc = "call",
         UNCHANGED <<api, events, cache, seen>>, TakeBack(k, Head(work.todo)), work' = Idle
  PROVE  Single(k)'
<1> DEFINE op == Head(work.todo)
<1>1. k \in Kinds /\ work.todo # <<>> /\ work.todo \in Seq(Ops(k)) /\ Todo(k) = work.todo
  BY SoloKinds, Ongoing DEF OneTyped, TypeInv, Sized, Todo
<1>2. 1 \in 1..Len(Todo(k)) /\ op = Todo(k)[1]
  BY <1>1
<1>3. exp[k] \in [Actions -> SUBSET Names(k)] /\ DOMAIN exp = Kinds /\ Single(k)
  BY <1>1 DEF OneTyped, TypeInv, TypeOK
<1>4. exp'[k] = IF op.verb = "update" THEN exp[k]
                ELSE [exp[k] EXCEPT ![Intended(op.verb)] = @ \ {op.obj.name}]
  BY <1>1, <1>3 DEF TakeBack, Observe
<1> HIDE DEF op
<1>5. Intended(op.verb) \in Actions /\ (\A type : Observed(type) \in Actions) /\ "creations" \in Actions
  BY DEF Intended, Observed, Actions
<1>6. \A act \in Actions : \A name \in exp[k][act] :
        name \in exp'[k][act] \/ (op.verb # "update" /\ act = Intended(op.verb) /\ name = op.obj.name)
  BY <1>3, <1>4, <1>5
<1>7. Todo(k)' = <<>> /\ Len(Todo(k)') = 0 /\ Telling(k)' = Telling(k)
  BY DEF Todo, Telling
<1>8. op.verb = "create" => api[k] = {}
  BY <1>2, <1>3 DEF Single, Planned
<1>9. op.verb # "create" => Intended(op.verb) # "creations"
  BY DEF Intended
<1>10. Ours(k)'
  BY <1>3, <1>7 DEF Single, Ours
<1>11. Known(k)'
  <2>1. ASSUME NEW o \in api[k], o.name \in exp[k]["creations"] PROVE o.name \in exp'[k]["creations"]
    BY <1>5, <1>6, <1>8, <1>9, <2>1
  <2>2. QED
    BY <1>3, <2>1 DEF Single, Known
<1>12. Awaited(k)'
  <2>1. ASSUME NEW i \in Telling(k)
        PROVE  events[k][i].obj.name \in exp'[k][Observed(events[k][i].type)]
    <3>1. op.verb # "update" => op.obj.name # events[k][i].obj.name
      BY <1>1, <1>2, <1>3 DEF Single, Undisturbed
    <3>2. events[k][i].obj.name \in exp[k][Observed(events[k][i].type)]
      BY <1>3 DEF Single, Awaited
    <3>3. QED
      BY <1>5, <1>6, <3>1, <3>2
  <2>2. QED
    BY <1>3, <1>7, <2>1 DEF Single, Awaited
<1>13. Planned(k)' /\ Undisturbed(k)' /\ Announced(k)'
  BY <1>7 DEF Planned, Undisturbed, Announced
<1>14. QED
  BY <1>10, <1>11, <1>12, <1>13 DEF Single

\* A call that takes effect: what it creates is alone, what it deletes was,
\* and what it updates keeps its name.
LEMMA OneDone ==
  ASSUME OneTyped, NEW k \in Solo, work # Idle, work.kind = k, work.pc = "call",
         Accepted(k, Head(work.todo)), Effect(k, Head(work.todo)),
         work' # Idle, work'.kind = k, work'.pc = "intend", work'.todo = Tail(work.todo),
         UNCHANGED <<cache, seen, exp>>
  PROVE  Single(k)'
<1> DEFINE op == Head(work.todo)
           n == Len(events[k])
<1>1. k \in Kinds /\ work.todo # <<>> /\ work.todo \in Seq(Ops(k)) /\ Todo(k) = work.todo
  BY SoloKinds, Ongoing DEF OneTyped, TypeInv, Sized, Todo
<1>2. /\ Len(Todo(k)) \in Nat /\ 1 \in 1..Len(Todo(k)) /\ op = Todo(k)[1] /\ op \in Ops(k)
      /\ Todo(k)' = Tail(work.todo) /\ Len(Todo(k)') = Len(Todo(k)) - 1
      /\ \A i \in 1..Len(Todo(k)') : /\ i + 1 \in 1..Len(Todo(k)) /\ i + 1 # 1 /\ i \in Nat
                                     /\ Todo(k)'[i] = Todo(k)[i + 1]
  <2>1. Todo(k)' = Tail(work.todo)
    BY DEF Todo
  <2>2. QED
    BY <1>1, <2>1
<1>3. /\ exp[k] \in [Actions -> SUBSET Names(k)] /\ DOMAIN api = Kinds /\ DOMAIN events = Kinds
      /\ events[k] \in Seq(Events(k)) /\ n \in Nat /\ Single(k)
  <2>1. events[k] \in Seq(Events(k))
    BY <1>1 DEF OneTyped, TypeInv, TypeOK
  <2>2. QED
    BY <1>1, <2>1 DEF OneTyped, TypeInv, TypeOK
<1> HIDE DEF op
<1>4. op.verb # "update" => op.obj.name \in exp[k][Intended(op.verb)]
  BY <1>3 DEF Single, Announced, op
<1>5. /\ op.obj.owner = seen.uid /\ seen.exists /\ (op.verb = "update" => op.obj.name = op.old.name)
      /\ Todo(k) # <<>>
  BY <1>1, <1>2, <1>3 DEF Single, Ours
\* Whatever the call did, there is an event of it at the end.
<1>6. ASSUME NEW type, NEW obj, Event(k, type, obj)
      PROVE  /\ Len(events'[k]) = n + 1 /\ events'[k][n + 1].type = type /\ events'[k][n + 1].obj = obj
             /\ \A i \in 1..n : events'[k][i] = events[k][i]
             /\ Telling(k)' = Telling(k) \cup (IF type # "Update" THEN {n + 1} ELSE {})
             /\ n + 1 \notin Telling(k)
  <2>1. events'[k] = Append(events[k], [type |-> type, obj |-> obj])
    BY <1>1, <1>3, <1>6 DEF Event
  <2>2. /\ Len(events'[k]) = n + 1 /\ events'[k][n + 1] = [type |-> type, obj |-> obj]
        /\ \A i \in 1..n : events'[k][i] = events[k][i]
    BY <1>3, <2>1
  <2>3. Telling(k)' = {i \in 1..(n + 1) : events'[k][i].type # "Update"}
    BY <2>2 DEF Telling
  <2>4. Telling(k) = {i \in 1..n : events[k][i].type # "Update"}
    BY DEF Telling
  <2>5. 1..(n + 1) = (1..n) \cup {n + 1} /\ n + 1 \notin 1..n
    BY <1>3
  <2> HIDE DEF n
  <2>6. QED
    BY <2>2, <2>3, <2>4, <2>5
<1>7. \A i \in Telling(k) : i \in 1..n
  BY DEF Telling
<1>8. ASSUME NEW type, NEW obj, Event(k, type, obj), obj.owner = seen.uid,
             \A o \in api'[k] : o.owner = seen.uid
      PROVE  Ours(k)'
  <2>1. \A i \in 1..Len(events'[k]) : events'[k][i].obj.owner = seen.uid
    <3>1. \A i \in 1..Len(events'[k]) : i \in 1..n \/ i = n + 1
      BY <1>3, <1>6, <1>8
    <3>2. \A i \in 1..n : events[k][i].obj.owner = seen.uid
      BY <1>3 DEF Single, Ours
    <3>3. /\ events'[k][n + 1].obj = obj
          /\ \A i \in 1..n : events'[k][i] = events[k][i]
      BY <1>6, <1>8
    <3>4. QED
      BY <1>8, <3>1, <3>2, <3>3
  <2>2. \A i \in 1..Len(Todo(k)') :
          /\ Todo(k)'[i].obj.owner = seen.uid
          /\ Todo(k)'[i].verb = "update" => Todo(k)'[i].obj.name = Todo(k)'[i].old.name
    BY <1>2, <1>3 DEF Single, Ours
  <2>3. \A o \in cache[k] : o.owner = seen.uid
    BY <1>3 DEF Single, Ours
  <2>4. QED
    BY <1>1, <1>5, <1>8, <2>1, <2>2, <2>3 DEF Ours
<1>9. ~(work' # Idle /\ work'.kind = k /\ work'.pc = "sync") /\ Announced(k)'
  BY DEF Announced
<1>10. \A i, j \in 1..Len(Todo(k)') :
         Todo(k)'[i].verb # "update" /\ Todo(k)'[j].verb # "update"
           /\ Todo(k)'[i].obj.name = Todo(k)'[j].obj.name => i = j
  <2>1. ASSUME NEW i \in 1..Len(Todo(k)'), NEW j \in 1..Len(Todo(k)'),
               Todo(k)'[i].verb # "update", Todo(k)'[j].verb # "update",
               Todo(k)'[i].obj.name = Todo(k)'[j].obj.name
        PROVE  i = j
    <3>1. i + 1 = j + 1
      BY <1>2, <1>3, <2>1 DEF Single, Planned
    <3>2. i \in Nat /\ j \in Nat
      BY <2>1
    <3>3. QED
      BY <3>1, <3>2
  <2>2. QED
    BY <2>1
<1>11. CASE op.verb = "create"
  <2>1. /\ Len(Todo(k)) = 1 /\ Todo(k)' = <<>> /\ Len(Todo(k)') = 0 /\ api[k] = {}
    <3>1. Len(Todo(k)) = 1 /\ api[k] = {}
      <4>1. Todo(k)[1].verb = "create" /\ 1 \in 1..Len(Todo(k))
        BY <1>2, <1>11
      <4>2. 1 = Len(Todo(k)) /\ \A o \in api[k] : \E j \in 1..(1 - 1) :
              Todo(k)[j].verb = "delete" /\ Todo(k)[j].obj.name = o.name
        BY <1>3, <4>1 DEF Single, Planned
      <4>3. QED
        BY <4>2
    <3>2. Tail(work.todo) = <<>>
      <4>1. Tail(work.todo) \in Seq(Ops(k)) /\ Len(Tail(work.todo)) = 0
        BY <1>1, <1>2, <3>1
      <4>2. \A S : \A s \in Seq(S) : Len(s) = 0 => s = <<>>
        OBVIOUS
      <4>3. QED
        BY <4>1, <4>2
    <3>3. QED
      BY <1>2, <3>1, <3>2
  <2>2. PICK obj : /\ api' = [api EXCEPT ![k] = @ \cup {obj}] /\ Event(k, "Create", obj)
                   /\ obj.name = op.obj.name /\ obj.owner = op.obj.owner
    <3>1. op.obj \in [name : Names(k), owner : 1..MaxUid, rev : 1..MaxEdits, uid : {0}]
      BY <1>1, <1>2, <1>11, OpHas
    <3>2. CASE k = "services"
      <4>1. /\ api' = [api EXCEPT ![k] = @ \cup {[op.obj EXCEPT !.uid = uids + 1]}]
            /\ Event(k, "Create", [op.obj EXCEPT !.uid = uids + 1])
        BY <1>11, <3>2 DEF Effect, op
      <4>2. /\ [op.obj EXCEPT !.uid = uids + 1].name = op.obj.name
            /\ [op.obj EXCEPT !.uid = uids + 1].owner = op.obj.owner
        BY <3>1
      <4>3. QED
        BY <4>1, <4>2
    <3>3. CASE k # "services"
      BY <1>11, <3>3 DEF Effect, op
    <3>4. QED
      BY <3>2, <3>3
  <2>3. api'[k] = {obj}
    BY <1>1, <1>3, <2>1, <2>2
  <2>4. /\ events'[k][n + 1].type = "Create" /\ events'[k][n + 1].obj = obj
        /\ \A i \in 1..n : events'[k][i] = events[k][i]
        /\ Telling(k)' = Telling(k) \cup {n + 1} /\ n + 1 \notin Telling(k)
    BY <1>6, <2>2
  <2>5. op.obj.name \in exp[k]["creations"]
    BY <1>4, <1>11 DEF Intended
  <2>6. \A i \in Telling(k) : events'[k][i].type = "Delete" /\ events'[k][i].obj.name # obj.name
                              /\ events'[k][i] = events[k][i]
    BY <1>2, <1>3, <1>5, <1>7, <1>11, <2>2, <2>4 DEF Single, Undisturbed
  <2>7. Ours(k)'
    BY <1>5, <1>8, <2>2, <2>3
  <2>8. Known(k)'
    BY <1>3, <2>2, <2>3, <2>5 DEF Single, Known
  <2>9. Awaited(k)'
    <3>1. \A i \in Telling(k)' : events'[k][i].obj.name \in exp'[k][Observed(events'[k][i].type)]
      <4>1. events'[k][n + 1].obj.name \in exp'[k][Observed(events'[k][n + 1].type)]
        BY <2>2, <2>4, <2>5 DEF Observed
      <4>2. \A i \in Telling(k) : events'[k][i].obj.name \in exp'[k][Observed(events'[k][i].type)]
        BY <1>3, <2>6 DEF Single, Awaited
      <4>3. QED
        BY <2>4, <4>1, <4>2
    <3>2. \A i, j \in Telling(k)' :
            events'[k][i].type = events'[k][j].type /\ events'[k][i].obj.name = events'[k][j].obj.name => i = j
      <4>1. \A i, j \in Telling(k) :
              events'[k][i].type = events'[k][j].type /\ events'[k][i].obj.name = events'[k][j].obj.name => i = j
        BY <1>3, <2>6 DEF Single, Awaited
      <4>2. QED
        BY <2>4, <2>6, <4>1
    <3>3. \A i \in Telling(k)' : events'[k][i].type = "Delete" =>
            \A o \in api'[k] : o.name # events'[k][i].obj.name
      BY <2>3, <2>4, <2>6
    <3>4. QED
      BY <3>1, <3>2, <3>3 DEF Awaited
  <2>10. Planned(k)' /\ Undisturbed(k)'
    BY <1>9, <2>1 DEF Planned, Undisturbed
  <2>11. QED
    BY <1>9, <2>7, <2>8, <2>9, <2>10 DEF Single
<1>12. CASE op.verb = "update"
  <2>1. op.old \in api[k]
    BY <1>12 DEF Accepted, op
  <2>2. /\ api' = [api EXCEPT ![k] = (@ \ {op.old}) \cup {op.obj}] /\ Event(k, "Update", op.obj)
    BY <1>12 DEF Effect, op
  <2>3. api'[k] = {op.obj} /\ op.obj.name = op.old.name
    BY <1>1, <1>3, <1>5, <1>12, <2>1, <2>2 DEF Single, Known
  <2>4. Telling(k) = {} /\ Telling(k)' = {}
    BY <1>3, <1>5, <1>6, <2>1, <2>2 DEF Single, Undisturbed
  <2>5. Ours(k)'
    BY <1>5, <1>8, <2>2, <2>3
  <2>6. Known(k)'
    BY <1>3, <2>1, <2>3 DEF Single, Known
  <2>7. Awaited(k)' /\ Undisturbed(k)'
    BY <2>4 DEF Awaited, Undisturbed
  <2>8. Planned(k)'
    <3>1. ASSUME NEW i \in 1..Len(Todo(k)'), Todo(k)'[i].verb = "create"
          PROVE  /\ i = Len(Todo(k)')
                 /\ \A o \in api'[k] : \E j \in 1..(i - 1) :
                      Todo(k)'[j].verb = "delete" /\ Todo(k)'[j].obj.name = o.name
      <4>1. i + 1 \in 1..Len(Todo(k)) /\ Todo(k)[i + 1].verb = "create"
        BY <1>2, <3>1
      <4>2. i + 1 = Len(Todo(k)) /\ i \in Nat
        BY <1>3, <3>1, <4>1 DEF Single, Planned
      <4>3. PICK j \in 1..((i + 1) - 1) : Todo(k)[j].verb = "delete" /\ Todo(k)[j].obj.name = op.old.name
        BY <1>3, <2>1, <4>1 DEF Single, Planned
      <4>4. j # 1
        BY <1>2, <1>12, <4>3
      <4>5. j - 1 \in 1..(i - 1) /\ j - 1 \in 1..Len(Todo(k)') /\ (j - 1) + 1 = j
        BY <1>2, <4>2, <4>3, <4>4
      <4>6. Todo(k)'[j - 1] = Todo(k)[j]
        BY <1>2, <4>5
      <4>7. QED
        BY <1>2, <2>3, <4>2, <4>3, <4>5, <4>6
    <3>2. QED
      BY <1>9, <1>10, <3>1 DEF Planned
  <2>9. QED
    BY <1>9, <2>5, <2>6, <2>7, <2>8 DEF Single
<1>13. CASE op.verb = "delete"
  <2>1. PICK o \in Named(k, op.obj.name) : api' = [api EXCEPT ![k] = @ \ {o}] /\ Event(k, "Delete", o)
    BY <1>13 DEF Effect, op
  <2>2. o \in api[k] /\ o.name = op.obj.name
    BY DEF Named
  <2>3. api'[k] = {} /\ o.owner = seen.uid
    BY <1>1, <1>3, <2>1, <2>2 DEF Single, Known, Ours
  <2>4. /\ Telling(k)' = {n + 1} /\ events'[k][n + 1].type = "Delete" /\ events'[k][n + 1].obj = o
    BY <1>3, <1>5, <1>6, <2>1, <2>2 DEF Single, Undisturbed
  <2>5. o.name \in exp[k]["deletions"]
    BY <1>4, <1>13, <2>2 DEF Intended
  <2>6. Ours(k)'
    BY <1>8, <2>1, <2>3
  <2>7. Known(k)'
    BY <1>3, <2>3 DEF Single, Known
  <2>8. Awaited(k)'
    BY <2>3, <2>4, <2>5 DEF Awaited, Observed
  <2>9. Planned(k)'
    <3>1. \A i \in 1..Len(Todo(k)') : Todo(k)'[i].verb = "create" => i = Len(Todo(k)')
      <4>1. ASSUME NEW i \in 1..Len(Todo(k)'), Todo(k)'[i].verb = "create" PROVE i = Len(Todo(k)')
        <5>1. i + 1 = Len(Todo(k)) /\ i \in Nat
          BY <1>2, <1>3, <4>1 DEF Single, Planned
        <5>2. QED
          BY <1>2, <5>1
      <4>2. QED
        BY <4>1
    <3>2. QED
      BY <1>9, <1>10, <2>3, <3>1 DEF Planned
  <2>10. Undisturbed(k)'
    <3>1. \A j \in 1..Len(Todo(k)') :
            Todo(k)'[j].verb # "update" => Todo(k)'[j].obj.name # o.name
      BY <1>2, <1>3, <1>13, <2>2 DEF Single, Planned
    <3>2. QED
      BY <2>3, <2>4, <3>1 DEF Undisturbed
  <2>11. QED
    BY <1>9, <2>6, <2>7, <2>8, <2>9, <2>10 DEF Single
<1>14. QED
  BY <1>1, <1>2, <1>11, <1>12, <1>13, OpHas

LEMMA OneCall == ~LostReplies /\ OneTyped /\ Call => OneAll'
<1> SUFFICES ASSUME ~LostReplies, OneTyped, Call PROVE OneAll'
  OBVIOUS
<1>1. UNCHANGED <<proxy, cache, seen>> /\ work # Idle /\ work.pc = "call"
  BY DEF Call
<1>2. PICK k \in Kinds : k = work.kind
  BY <1>1, Ongoing DEF OneTyped
<1>3. DOMAIN api = Kinds /\ DOMAIN events = Kinds /\ DOMAIN exp = Kinds
  BY DEF OneTyped, TypeInv, TypeOK
<1>4. CASE /\ Accepted(k, Head(work.todo)) /\ Effect(k, Head(work.todo))
           /\ Goto("intend", k, Tail(work.todo)) /\ UNCHANGED exp
  <2>1. Tail(work.todo) \in Seq(Ops(k)) /\ Head(work.todo) \in Ops(k)
    BY <1>1, <1>2, HeadHas DEF OneTyped, TypeInv, Sized
  <2>2. /\ work' # Idle /\ work'.pc = "intend" /\ work'.kind = k /\ work'.todo = Tail(work.todo)
        /\ work'.inst = work.inst
    BY <1>1, <1>4, <2>1, Going DEF OneTyped
  <2>3. Followed'
    BY <1>1, <2>2 DEF OneTyped, Followed
  <2>4. ASSUME k \in Solo PROVE Single(k)'
    BY <1>1, <1>2, <1>4, <2>2, <2>4, OneDone
  <2>5. ASSUME NEW j \in Solo, j # k PROVE Single(j)'
    <3>1. api'[j] = api[j] /\ events'[j] = events[j]
      BY <1>3, <1>4, <2>1, <2>5, SoloKinds, OpHas DEF Effect, Event
    <3>2. QED
      BY <1>1, <1>4, <2>2, <2>5, <3>1, FrameIdle DEF OneTyped
  <2>6. QED
    BY <2>3, <2>4, <2>5 DEF OneAll
<1>5. CASE /\ UNCHANGED <<api, events>> /\ TakeBack(k, Head(work.todo)) /\ work' = Idle
  <2>1. Followed'
    BY <1>1, <1>5 DEF OneTyped, Followed
  <2>2. ASSUME k \in Solo PROVE Single(k)'
    BY <1>1, <1>2, <1>5, <2>2, OneDropped
  <2>3. ASSUME NEW j \in Solo, j # k PROVE Single(j)'
    <3>1. exp'[j] = exp[j]
      BY <1>3, <1>5, <2>3, SoloKinds DEF TakeBack
    <3>2. QED
      BY <1>1, <1>5, <2>3, <3>1, FrameIdle DEF OneTyped
  <2>4. QED
    BY <2>1, <2>2, <2>3 DEF OneAll
<1>6. QED
  BY <1>2, <1>4, <1>5 DEF Call, children, Requeue, Finish

LEMMA OneStep ==
  ASSUME ~LostReplies
  PROVE  TypeInv /\ OneInv /\ [Next]_vars => OneInv'
<1> SUFFICES ASSUME TypeInv, OneInv, [Next]_vars, deletes' = 0 PROVE OneAll'
  BY DEF OneInv, OneAll
<1>1. deletes = 0
  <2>1. deletes \in Nat
    BY BoundsAssumption DEF TypeInv, TypeOK
  <2>2. deletes' = deletes \/ deletes' = deletes + 1
    BY DEF Next, User, CreateProxy, UpdateProxy, DeleteProxy, Reconcile, Begin, Check, Sync, Intend, Call,
           Status, RefreshProxy, Crash, Deliver, CollectGarbage, vars, bounds
  <2>3. QED
    BY <2>1, <2>2
<1>2. OneTyped
  BY <1>1 DEF OneTyped, OneInv
<1>3. CASE User
  BY <1>2, <1>3, OneUser
<1>4. CASE Reconcile
  BY <1>2, <1>4, OneBegin, OneCheck, OneSync, OneIntend, OneCall, OneStatus DEF Reconcile
<1>5. CASE RefreshProxy \/ Crash
  BY <1>2, <1>5, OneRefresh, OneCrash
<1>6. ASSUME NEW k \in Kinds, Deliver(k) \/ CollectGarbage(k) PROVE OneAll'
  BY <1>2, <1>6, OneDeliver, OneGarbage
<1>7. CASE UNCHANGED vars
  <2>1. UNCHANGED <<proxy, api, events, cache, seen, exp, work>>
    BY <1>7 DEF vars, children
  <2>2. \A k \in Solo : Single(k)'
    BY <1>2, <2>1, FrameStill DEF OneTyped
  <2>3. Followed'
    BY <1>2, <2>1 DEF OneTyped, Followed
  <2>4. QED
    BY <2>2, <2>3 DEF OneAll
<1>8. QED
  BY <1>3, <1>4, <1>5, <1>6, <1>7 DEF Next

(* Where a call that fails has had no effect, a proxy never has two        *)
(* Services or two Ingresses at once, however late the events come,        *)
(* whatever calls fail and however often the controller restarts, until    *)
(* users delete the proxy.                                                 *)
THEOREM OneOfEach ==
  ASSUME ~LostReplies
  PROVE  Spec => []AtMostOneChild
<1>1. Init => TypeInv /\ OneInv
  BY TypeInit, OneInit
<1>2. TypeInv /\ OneInv /\ [Next]_vars => (TypeInv /\ OneInv)'
  BY TypeStep, OneStep
<1>3. TypeInv /\ OneInv => AtMostOneChild
  BY DEF OneInv, Single, Known, AtMostOneChild
<1>4. QED
  BY <1>1, <1>2, <1>3, PTL DEF Spec

-----------------------------------------------------------------------------
(* Expectations are met.                                                   *)

\* The Services are those of this proxy, and no one deletes them.
Kept ==
  /\ seen.exists => proxy.exists /\ seen.uid = proxy.uid
  /\ work # Idle => proxy.exists /\ work.inst.uid = proxy.uid
  /\ \A o \in api["services"] : proxy.exists /\ o.owner = proxy.uid
  /\ \A i \in 1..Len(Todo("services")) :
       Todo("services")[i].verb # "delete" /\ Todo("services")[i].obj.owner = work.inst.uid
  /\ \A i \in 1..Len(events["services"]) : events["services"][i].type # "Delete"

\* EndpointSlices are created and deleted with their Service in the cache.
Resolved ==
  work # Idle /\ work.kind = "slices" /\ work.pc \in {"intend", "call"} => cache["services"] # {}

\* The call that an expectation is for.
Calling(k, act, name) ==
  /\ work # Idle /\ work.pc = "call" /\ work.kind = k
  /\ Head(work.todo).verb # "update" /\ Intended(Head(work.todo).verb) = act
  /\ Head(work.todo).obj.name = name

\* The event that meets an expectation.
Coming(k, act, name) ==
  \E i \in 1..Len(events[k]) :
    /\ events[k][i].type # "Update" /\ Observed(events[k][i].type) = act
    /\ events[k][i].obj.name = name /\ Resolves(k, events[k][i].obj)

Flight == \A k \in Kinds, act \in Actions : \A name \in exp[k][act] :
            Calling(k, act, name) \/ Coming(k, act, name)

FlightInv == Kept /\ Resolved /\ Flight

\* Where the specs ask for one name, a Service in the cache is the one that an
\* EndpointSlice is found through.
LEMMA Found ==
  ASSUME \A s, t \in Specs : s.svc = t.svc,
         NEW C \in SUBSET Children("services"), NEW name \in Names("slices")
  PROVE  C # {} <=> \E s \in C : s.name = name[1]
<1>1. \E s \in Specs : name[1] = s.svc
  BY DEF Names, SliceName
<1>2. \A s \in C : \E t \in Specs : s.name = t.svc
  BY DEF Children, Names
<1>3. QED
  BY <1>1, <1>2

\* While no call is about to be made, what is expected is coming.
LEMMA FlightFrame ==
  ASSUME Flight,
         \A k \in Kinds, act \in Actions : exp'[k][act] \subseteq exp[k][act],
         UNCHANGED <<events, cache>>,
         work' = work \/ ~(work # Idle /\ work.pc = "call")
  PROVE  Flight'
<1>1. ASSUME NEW k \in Kinds, NEW act \in Actions, NEW name \in exp'[k][act]
      PROVE  Calling(k, act, name)' \/ Coming(k, act, name)'
  <2>1. Calling(k, act, name) \/ Coming(k, act, name)
    BY <1>1 DEF Flight
  <2>2. Coming(k, act, name) => Coming(k, act, name)'
    BY DEF Coming, Resolves
  <2>3. Calling(k, act, name) => Calling(k, act, name)'
    BY DEF Calling
  <2>4. QED
    BY <2>1, <2>2, <2>3
<1>2. QED
  BY <1>1 DEF Flight

FlightTyped == TypeInv /\ FlightInv

\* The users' edits leave the children and what is coming alone.
LEMMA FlightUser == MaxDeletes = 0 /\ FlightTyped /\ User => FlightInv'
<1> SUFFICES ASSUME MaxDeletes = 0, FlightTyped, User PROVE FlightInv'
  OBVIOUS
<1>1. UNCHANGED <<api, events, cache, seen, exp, queued, work>>
  BY DEF User, CreateProxy, UpdateProxy, DeleteProxy, EditOnly, children
<1>2. proxy \in Proxies
  BY DEF FlightTyped, TypeInv, TypeOK
<1>3. proxy.exists => proxy'.exists /\ proxy'.uid = proxy.uid
  <2>1. ASSUME NEW s \in Specs, CreateProxy(s) PROVE <1>3!:
    BY <1>2, <2>1, ProxyHas DEF CreateProxy
  <2>2. ASSUME NEW s \in Specs, UpdateProxy(s) PROVE <1>3!:
    <3>1. proxy \in [exists : {TRUE}, uid : 1..MaxUid, gen : 1..MaxEdits, spec : Specs,
                     ready : BOOLEAN, observed : 0..MaxEdits]
      BY <1>2, <2>2 DEF UpdateProxy, Proxies
    <3>2. proxy' = [proxy EXCEPT !.spec = s, !.gen = @ + 1]
      BY <2>2 DEF UpdateProxy
    <3>3. QED
      BY <3>1, <3>2
  <2>3. ~DeleteProxy
    BY DEF DeleteProxy, FlightTyped, TypeInv, TypeOK
  <2>4. QED
    BY <2>1, <2>2, <2>3 DEF User
<1>4. Todo("services")' = Todo("services")
  BY <1>1 DEF Todo
<1>5. Kept'
  BY <1>1, <1>3, <1>4 DEF FlightTyped, FlightInv, Kept
<1>6. Resolved'
  BY <1>1 DEF FlightTyped, FlightInv, Resolved
<1>7. Flight'
  BY <1>1, FlightFrame DEF FlightTyped, FlightInv
<1>8. QED
  BY <1>5, <1>6, <1>7 DEF FlightInv

LEMMA FlightRefresh == FlightTyped /\ RefreshProxy => FlightInv'
<1> SUFFICES ASSUME FlightTyped, RefreshProxy PROVE FlightInv'
  OBVIOUS
<1>1. seen' = proxy /\ UNCHANGED <<proxy, api, events, cache, exp, work>>
  BY DEF RefreshProxy, children
<1>2. Todo("services")' = Todo("services")
  BY <1>1 DEF Todo
<1>3. Kept'
  BY <1>1, <1>2 DEF FlightTyped, FlightInv, Kept
<1>4. Resolved'
  BY <1>1 DEF FlightTyped, FlightInv, Resolved
<1>5. Flight'
  BY <1>1, FlightFrame DEF FlightTyped, FlightInv
<1>6. QED
  BY <1>3, <1>4, <1>5 DEF FlightInv

\* No Service is an orphan; what else is collected has its event.
LEMMA FlightGarbage == ASSUME NEW k \in Kinds, FlightTyped, CollectGarbage(k) PROVE FlightInv'
<1>1. PICK o \in Orphans(k) : /\ api' = [api EXCEPT ![k] = @ \ {o}] /\ Event(k, "Delete", o)
                              /\ UNCHANGED <<proxy, cache, seen, exp, queued, work, uids, bounds>>
  BY DEF CollectGarbage
<1>2. k # "services"
  BY DEF Orphans, FlightTyped, FlightInv, Kept
<1>3. /\ DOMAIN api = Kinds /\ DOMAIN events = Kinds /\ "services" \in Kinds
      /\ \A j \in Kinds : events[j] \in Seq(Events(j))
  BY DEF FlightTyped, TypeInv, TypeOK, Kinds
<1>4. api'["services"] = api["services"] /\ events'["services"] = events["services"]
        /\ Todo("services")' = Todo("services")
  BY <1>1, <1>2, <1>3 DEF Event, Todo
<1>5. Kept'
  BY <1>1, <1>4 DEF FlightTyped, FlightInv, Kept
<1>6. Resolved'
  BY <1>1 DEF FlightTyped, FlightInv, Resolved
<1>7. \A j \in Kinds : /\ Len(events[j]) \in Nat /\ Len(events'[j]) >= Len(events[j]) /\ Len(events'[j]) \in Nat
                       /\ \A i \in 1..Len(events[j]) : events'[j][i] = events[j][i]
  <2>1. ASSUME NEW j \in Kinds
        PROVE  events'[j] = events[j] \/ \E x : events'[j] = Append(events[j], x)
    BY <1>1, <1>3 DEF Event
  <2>2. \A j \in Kinds : \A x : /\ Len(Append(events[j], x)) = Len(events[j]) + 1 /\ Len(events[j]) \in Nat
                               /\ \A i \in 1..Len(events[j]) : Append(events[j], x)[i] = events[j][i]
    BY <1>3
  <2>3. QED
    BY <2>1, <2>2
<1>8. Flight'
  <2>1. ASSUME NEW j \in Kinds, NEW act \in Actions, NEW name \in exp'[j][act]
        PROVE  Calling(j, act, name)' \/ Coming(j, act, name)'
    <3>1. Calling(j, act, name) \/ Coming(j, act, name)
      BY <1>1, <2>1 DEF FlightTyped, FlightInv, Flight
    <3>2. Coming(j, act, name) => Coming(j, act, name)'
      BY <1>1, <1>7 DEF Coming, Resolves
    <3>3. Calling(j, act, name) => Calling(j, act, name)'
      BY <1>1 DEF Calling
    <3>4. QED
      BY <3>1, <3>2, <3>3
  <2>2. QED
    BY <2>1 DEF Flight
<1>9. QED
  BY <1>5, <1>6, <1>8 DEF FlightInv

\* The first event meets its expectation; the others come one step nearer, and
\* a Service that is in the cache stays there.
LEMMA FlightDeliver ==
  ASSUME \A s, t \in Specs : s.svc = t.svc, NEW k \in Kinds, FlightTyped, Deliver(k)
  PROVE  FlightInv'
<1> DEFINE e == Head(events[k])
           told == e.type # "Update"
<1>1. /\ events[k] # <<>> /\ events' = [events EXCEPT ![k] = Tail(@)]
      /\ cache' = [cache EXCEPT ![k] = Folded(@, e)]
      /\ exp' = IF told /\ Resolves(k, e.obj)
                  THEN [exp EXCEPT ![k] = Observe(@, Observed(e.type), e.obj.name)] ELSE exp
      /\ UNCHANGED <<proxy, api, seen, work, uids, bounds>>
  BY DEF Deliver
<1>2. /\ DOMAIN cache = Kinds /\ DOMAIN events = Kinds /\ DOMAIN exp = Kinds /\ "services" \in Kinds
      /\ \A j \in Kinds : /\ events[j] \in Seq(Events(j)) /\ exp[j] \in [Actions -> SUBSET Names(j)]
                          /\ cache[j] \in SUBSET Children(j)
  BY DEF FlightTyped, TypeInv, TypeOK, Kinds
<1>3. /\ Len(events[k]) \in Nat /\ Len(events[k]) > 0 /\ Len(events'[k]) = Len(events[k]) - 1
      /\ e = events[k][1] /\ e \in Events(k) /\ 1 \in 1..Len(events[k])
      /\ \A i \in 1..Len(events'[k]) : i + 1 \in 1..Len(events[k]) /\ events'[k][i] = events[k][i + 1]
      /\ \A i \in 2..Len(events[k]) : i - 1 \in 1..Len(events'[k]) /\ events'[k][i - 1] = events[k][i]
  BY <1>1, <1>2
<1>4. cache'["services"] \in SUBSET Children("services")
        /\ (cache["services"] # {} => cache'["services"] # {})
  <2>1. CASE k # "services"
    BY <1>1, <1>2, <2>1
  <2>2. CASE k = "services"
    <3>1. e.type # "Delete" /\ e.obj \in Children(k)
      BY <1>3, <2>2 DEF FlightTyped, FlightInv, Kept, Events
    <3>2. cache'[k] = {o \in cache[k] : o.name # e.obj.name} \cup {e.obj}
      BY <1>1, <1>2, <3>1 DEF Folded
    <3>3. QED
      BY <1>2, <2>2, <3>1, <3>2
  <2>3. QED
    BY <2>1, <2>2
<1>5. Kept'
  <2>1. Todo("services")' = Todo("services")
    BY <1>1 DEF Todo
  <2>2. \A i \in 1..Len(events'["services"]) : events'["services"][i].type # "Delete"
    <3>1. CASE k = "services"
      BY <1>3, <3>1 DEF FlightTyped, FlightInv, Kept
    <3>2. CASE k # "services"
      BY <1>1, <1>2, <3>2 DEF FlightTyped, FlightInv, Kept
    <3>3. QED
      BY <3>1, <3>2
  <2>3. QED
    BY <1>1, <2>1, <2>2 DEF FlightTyped, FlightInv, Kept
<1>6. Resolved'
  BY <1>1, <1>4 DEF FlightTyped, FlightInv, Resolved
\* What resolved still does.
<1>7. ASSUME NEW j \in Kinds, NEW o \in Children(j), Resolves(j, o) PROVE Resolves(j, o)'
  <2>1. SUFFICES ASSUME j = "slices" PROVE \E s \in cache'["services"] : s.name = o.name[1]
    BY DEF Resolves
  <2>2. o.name \in Names("slices")
    BY <1>7, <2>1 DEF Children
  <2>3. cache["services"] # {}
    BY <1>7, <2>1 DEF Resolves
  <2>4. QED
    BY <1>4, <2>2, <2>3, Found
<1>8. Flight'
  <2>1. ASSUME NEW j \in Kinds, NEW act \in Actions, NEW name \in exp'[j][act]
        PROVE  Calling(j, act, name)' \/ Coming(j, act, name)'
    <3>1. name \in exp[j][act]
      BY <1>1, <1>2, <2>1 DEF Observe
    <3>2. Calling(j, act, name) => Calling(j, act, name)'
      BY <1>1 DEF Calling
    <3>3. ASSUME Coming(j, act, name) PROVE Coming(j, act, name)'
      <4>1. PICK i \in 1..Len(events[j]) :
              /\ events[j][i].type # "Update" /\ Observed(events[j][i].type) = act
              /\ events[j][i].obj.name = name /\ Resolves(j, events[j][i].obj)
        BY <3>3 DEF Coming
      <4>2. PICK x : x = events[j][i]
        OBVIOUS
      <4>3. x \in Events(j) /\ x.obj \in Children(j) /\ Resolves(j, x.obj)
        <5>1. x \in Events(j)
          BY <1>2, <4>1, <4>2
        <5>2. QED
          BY <4>1, <4>2, <5>1 DEF Events
      <4>4. Resolves(j, x.obj)'
        BY <1>7, <4>3
      <4>5. \E m \in 1..Len(events'[j]) : events'[j][m] = x
        <5>1. CASE j # k
          BY <1>1, <1>2, <4>1, <4>2, <5>1
        <5>2. CASE j = k /\ i # 1
          BY <1>3, <4>1, <4>2, <5>2
        <5>3. CASE j = k /\ i = 1
          <6>1. x = e /\ told /\ Resolves(k, e.obj)
            BY <1>3, <4>1, <4>2, <4>3, <5>3
          <6>2. exp'[k] = [exp[k] EXCEPT ![act] = @ \ {name}]
            BY <1>1, <1>2, <4>1, <4>2, <6>1 DEF Observe
          <6>3. name \notin exp'[k][act]
            BY <1>2, <2>1, <6>2
          <6>4. QED
            BY <2>1, <5>3, <6>3
        <5>4. QED
          BY <5>1, <5>2, <5>3
      <4>6. QED
        BY <4>1, <4>2, <4>4, <4>5 DEF Coming, Resolves
    <3>4. QED
      BY <3>1, <3>2, <3>3 DEF FlightTyped, FlightInv, Flight
  <2>2. QED
    BY <2>1 DEF Flight
<1>9. QED
  BY <1>5, <1>6, <1>8 DEF FlightInv

LEMMA FlightInit == Init => FlightInv
<1> SUFFICES ASSUME Init PROVE FlightInv
  OBVIOUS
<1>1. "services" \in Kinds /\ work = Idle /\ ~seen.exists
  BY DEF Init, Kinds, Absent
<1>2. api["services"] = {} /\ events["services"] = <<>> /\ Len(events["services"]) = 0
        /\ \A k \in Kinds, act \in Actions : exp[k][act] = {}
  BY <1>1 DEF Init, Nothing, NoExpectations
<1>3. Todo("services") = <<>> /\ Len(Todo("services")) = 0
  BY <1>1 DEF Todo
<1>4. QED
  BY <1>1, <1>2, <1>3 DEF FlightInv, Kept, Resolved, Flight

\* A step of the reconcile that plans nothing for the Services and calls
\* nothing.
LEMMA FlightQuiet ==
  ASSUME FlightTyped, UNCHANGED <<api, events, cache, seen>>,
         \A k \in Kinds, act \in Actions : exp'[k][act] \subseteq exp[k][act],
         ~(work # Idle /\ work.pc = "call"),
         proxy.exists => proxy'.exists /\ proxy'.uid = proxy.uid,
         \/ work' = Idle
         \/ /\ work' # Idle /\ proxy.exists /\ work'.inst.uid = proxy.uid
            /\ work'.todo = <<>> \/ work'.kind # "services"
            /\ work'.kind = "slices" /\ work'.pc \in {"intend", "call"} => cache["services"] # {}
  PROVE  FlightInv'
<1>1. Todo("services")' = <<>> /\ Len(Todo("services")') = 0
  BY DEF Todo
<1>2. Kept'
  BY <1>1 DEF FlightTyped, FlightInv, Kept
<1>3. Resolved'
  BY DEF Resolved
<1>4. Flight'
  BY FlightFrame DEF FlightTyped, FlightInv
<1>5. QED
  BY <1>2, <1>3, <1>4 DEF FlightInv

LEMMA FlightBegin == FlightTyped /\ Begin => FlightInv'
<1> SUFFICES ASSUME FlightTyped, Begin PROVE FlightInv'
  OBVIOUS
<1>1. UNCHANGED <<proxy, api, events, cache, seen>> /\ work = Idle
  BY DEF Begin, children
<1>2. CASE seen.exists
  <2>1. work' = [pc |-> "check", kind |-> "services", inst |-> seen, todo |-> <<>>] /\ exp' = exp
    BY <1>2 DEF Begin
  <2>2. work'.pc = "check" /\ work'.todo = <<>> /\ work'.inst = seen
    BY <2>1
  <2>3. proxy.exists /\ seen.uid = proxy.uid
    BY <1>2 DEF FlightTyped, FlightInv, Kept
  <2>4. work' # Idle
    BY <2>2 DEF Idle
  <2>5. QED
    BY <1>1, <2>1, <2>2, <2>3, <2>4, FlightQuiet
<1>3. CASE ~seen.exists
  <2>1. work' = Idle /\ exp' = [exp EXCEPT !["services"] = NoExpectations]
    BY <1>1, <1>3 DEF Begin
  <2>2. \A k \in Kinds, act \in Actions : exp'[k][act] \subseteq exp[k][act]
    BY <2>1 DEF NoExpectations, FlightTyped, TypeInv, TypeOK
  <2>3. QED
    BY <1>1, <2>1, <2>2, FlightQuiet
<1>4. QED
  BY <1>2, <1>3

LEMMA FlightCheck == FlightTyped /\ Check => FlightInv'
<1> SUFFICES ASSUME FlightTyped, Check PROVE FlightInv'
  OBVIOUS
<1>1. UNCHANGED <<proxy, api, events, cache, seen, exp>> /\ work # Idle /\ work.pc = "check"
  BY DEF Check, children
<1>2. CASE Goto("sync", work.kind, <<>>)
  <2>1. work.kind \in Kinds /\ <<>> \in Seq(Ops(work.kind))
    BY <1>1, Ongoing DEF FlightTyped
  <2>2. work' # Idle /\ work'.pc = "sync" /\ work'.todo = <<>> /\ work'.inst = work.inst
    BY <1>1, <1>2, <2>1, Going DEF FlightTyped
  <2>3. proxy.exists /\ work.inst.uid = proxy.uid
    BY <1>1 DEF FlightTyped, FlightInv, Kept
  <2>4. QED
    BY <1>1, <2>2, <2>3, FlightQuiet
<1>3. CASE Requeue \/ Finish
  BY <1>1, <1>3, FlightQuiet DEF Requeue, Finish
<1>4. QED
  BY <1>2, <1>3 DEF Check

LEMMA FlightStatus == FlightTyped /\ Status => FlightInv'
<1> SUFFICES ASSUME FlightTyped, Status PROVE FlightInv'
  OBVIOUS
<1>1. UNCHANGED <<api, events, cache, seen, exp>> /\ work # Idle /\ work.pc \in {"status", "ready"}
  BY DEF Status, children
<1>2. \/ proxy' = proxy
      \/ \E ready, observed : proxy' = [proxy EXCEPT !.ready = ready, !.observed = observed]
  BY DEF Status, UpdateStatus
<1>3. proxy.exists => proxy'.exists /\ proxy'.uid = proxy.uid
  <2>1. proxy.exists => proxy \in [exists : {TRUE}, uid : 1..MaxUid, gen : 1..MaxEdits, spec : Specs,
                                   ready : BOOLEAN, observed : 0..MaxEdits]
    BY ProxyHas DEF FlightTyped, TypeInv, TypeOK, Proxies
  <2>2. QED
    BY <1>2, <2>1
<1>4. \/ work' = Idle
      \/ work' # Idle /\ work'.pc = "check" /\ work'.todo = <<>> /\ work'.inst = work.inst
  <2>1. Finish \/ Requeue \/ Goto("check", "slices", <<>>)
    BY DEF Status, UpdateStatus
  <2>2. "slices" \in Kinds /\ <<>> \in Seq(Ops("slices"))
    BY DEF Kinds
  <2>3. QED
    BY <1>1, <2>1, <2>2, Going DEF Finish, Requeue, FlightTyped
<1>5. proxy.exists /\ work.inst.uid = proxy.uid
  BY <1>1 DEF FlightTyped, FlightInv, Kept
<1>6. QED
  BY <1>1, <1>3, <1>4, <1>5, FlightQuiet

\* After a restart nothing is expected.
LEMMA FlightCrash == FlightTyped /\ Crash => FlightInv'
<1> SUFFICES ASSUME FlightTyped, Crash PROVE FlightInv'
  OBVIOUS
<1>1. /\ work' = Idle /\ exp' = [k \in Kinds |-> NoExpectations] /\ cache' = api /\ seen' = proxy
      /\ events' = [k \in Kinds |-> <<>>] /\ UNCHANGED <<proxy, api>>
  BY DEF Crash
<1>2. Todo("services")' = <<>> /\ Len(Todo("services")') = 0
  BY <1>1 DEF Todo
<1>3. Len(events'["services"]) = 0
  BY <1>1 DEF Kinds
<1>4. \A k \in Kinds, act \in Actions : exp'[k][act] = {}
  BY <1>1 DEF NoExpectations
<1>5. QED
  BY <1>1, <1>2, <1>3, <1>4 DEF FlightTyped, FlightInv, Kept, Resolved, Flight

\* Where the specs ask for one name, a sync deletes no Service.
LEMMA PlanKeeps ==
  ASSUME \A s, t \in Specs : s.svc = t.svc, FlightTyped, work # Idle
  PROVE  \A i \in 1..Len(SyncActivated("services", work.inst.spec.svc)) :
           /\ SyncActivated("services", work.inst.spec.svc)[i].verb # "delete"
           /\ SyncActivated("services", work.inst.spec.svc)[i].obj.owner = work.inst.uid
<1> DEFINE k == "services"
           name == work.inst.spec.svc
           uid == work.inst.uid
           gen == work.inst.gen
           objects == Owned(k, uid)
           others == {o \in objects : o.name # name}
           D == Deletions(others)
           E == IF name = NoIngress THEN <<>> ELSE Ensure(objects, name, uid)
<1>1. k \in Kinds /\ objects \in SUBSET Children(k) /\ IsFiniteSet(objects)
  <2>1. k \in Kinds
    BY DEF Kinds
  <2>2. QED
    BY <2>1, OwnedAre DEF FlightTyped
<1>2. work.inst.spec \in Specs /\ uid \in 1..MaxUid /\ gen \in 1..MaxEdits /\ name \in Names(k)
  BY Ongoing DEF FlightTyped, Names
<1>3. others = {}
  BY <1>1, <1>2 DEF Children, Names
<1>4. D \in Seq(Ops(k)) /\ Len(D) = 0
  <2>1. others \in SUBSET Children(k) /\ IsFiniteSet(others)
    BY <1>3, FS_EmptySet
  <2>2. D \in Seq(Ops(k)) /\ \A i \in 1..Len(D) : \E o \in others : D[i] = Delete(o)
    <3> HIDE DEF others, k
    <3> QED
      BY <1>1, <2>1, DeletionsAre
  <2>3. Len(D) \in Nat /\ \A i \in 1..Len(D) : FALSE
    BY <1>3, <2>2
  <2>4. QED
    BY <2>2, <2>3
<1>5. /\ E \in Seq(Ops(k))
      /\ \A i \in 1..Len(E) : \/ E[i] = Create(Child(name, uid, gen, 0))
                              \/ \E o \in objects : E[i] = Update(o, gen)
  <2> HIDE DEF k, objects
  <2>1. CASE name = NoIngress
    BY <2>1
  <2>2. CASE name # NoIngress
    <3>1. E = Ensure(objects, name, uid)
      BY <2>2
    <3>2. QED
      BY <1>1, <1>2, <3>1, EnsureIs
  <2>3. QED
    BY <2>1, <2>2
<1>6. SyncActivated(k, name) = D \o E
  BY DEF SyncActivated
<1>7. \A o \in objects : Update(o, gen).verb = "update" /\ Update(o, gen).obj.owner = uid
  BY <1>1 DEF Owned, Update, Children
<1>8. Create(Child(name, uid, gen, 0)).verb = "create" /\ Create(Child(name, uid, gen, 0)).obj.owner = uid
  BY DEF Create, Child
<1> HIDE DEF D, E, objects, others
<1>9. \A i \in 1..Len(D \o E) : i \in 1..Len(E) /\ (D \o E)[i] = E[i]
  BY <1>4, <1>5
<1>10. \A i \in 1..Len(D \o E) : (D \o E)[i].verb # "delete" /\ (D \o E)[i].obj.owner = uid
  BY <1>5, <1>7, <1>8, <1>9
<1>11. QED
  BY <1>6, <1>10

LEMMA FlightSync ==
  ASSUME \A s, t \in Specs : s.svc = t.svc, FlightTyped, Sync
  PROVE  FlightInv'
<1>1. UNCHANGED <<proxy, api, events, cache, seen, exp>> /\ work # Idle /\ work.pc = "sync"
  BY DEF Sync, children
<1>2. proxy.exists /\ work.inst.uid = proxy.uid
  BY <1>1 DEF FlightTyped, FlightInv, Kept
<1>3. "services" \in Kinds /\ "ingresses" \in Kinds /\ "slices" \in Kinds
  BY DEF Kinds
<1>4. work.inst.spec.svc \in Names("services") /\ work.inst.spec.ing \in Names("ingresses") \cup {NoIngress}
  BY <1>1, Ongoing DEF Names, FlightTyped
<1>5. ASSUME NEW k \in Kinds, NEW todo \in Seq(Ops(k)), Goto("intend", k, todo),
             k # "services", k = "slices" => cache["services"] # {}
      PROVE  FlightInv'
  <2>1. work' # Idle /\ work'.kind = k /\ work'.inst = work.inst
    BY <1>1, <1>5, Going DEF FlightTyped
  <2>2. QED
    BY <1>1, <1>2, <1>5, <2>1, FlightQuiet
<1>6. CASE Goto("intend", "services", SyncActivated("services", work.inst.spec.svc))
  <2> DEFINE todo == SyncActivated("services", work.inst.spec.svc)
  <2>1. todo \in Seq(Ops("services"))
    BY <1>1, <1>3, <1>4, PlanTyped DEF FlightTyped
  <2>2. \A i \in 1..Len(todo) : todo[i].verb # "delete" /\ todo[i].obj.owner = work.inst.uid
    BY <1>1, PlanKeeps
  <2>3. Goto("intend", "services", todo)
    BY <1>6
  <2> HIDE DEF todo
  <2>4. /\ work' # Idle /\ work'.kind = "services" /\ work'.inst = work.inst /\ work'.todo = todo
        /\ work'.pc = "intend"
    BY <1>1, <1>3, <2>1, <2>3, Going DEF FlightTyped
  <2>5. Todo("services")' = todo
    BY <2>4 DEF Todo
  <2>6. Kept'
    BY <1>1, <1>2, <2>2, <2>4, <2>5 DEF FlightTyped, FlightInv, Kept
  <2>7. Resolved'
    BY <2>4 DEF Resolved
  <2>8. Flight'
    BY <1>1, FlightFrame DEF FlightTyped, FlightInv
  <2>9. QED
    BY <2>6, <2>7, <2>8 DEF FlightInv
<1>7. CASE Goto("intend", "ingresses", SyncActivated("ingresses", work.inst.spec.ing))
  BY <1>1, <1>3, <1>4, <1>5, <1>7, PlanTyped DEF FlightTyped
<1>8. ASSUME NEW s \in cache["services"], s.name = work.inst.spec.svc,
             Goto("intend", "slices", SyncEndpointSlices(s))
      PROVE  FlightInv'
  BY <1>1, <1>3, <1>5, <1>8, SlicePlanTyped DEF FlightTyped
<1>9. CASE work' = Idle
  BY <1>1, <1>9, FlightQuiet
<1>10. QED
  BY <1>6, <1>7, <1>8, <1>9 DEF Sync

LEMMA FlightIntend == FlightTyped /\ Intend => FlightInv'
<1> SUFFICES ASSUME FlightTyped, Intend PROVE FlightInv'
  OBVIOUS
<1>1. UNCHANGED <<proxy, api, events, cache, seen>> /\ work # Idle /\ work.pc = "intend"
  BY DEF Intend, children
<1>2. proxy.exists /\ work.inst.uid = proxy.uid
  BY <1>1 DEF FlightTyped, FlightInv, Kept
<1>3. PICK k \in Kinds : k = work.kind
  BY <1>1, Ongoing DEF FlightTyped
<1>4. CASE work.todo # <<>>
  <2> DEFINE op == Head(work.todo)
  <2>1. /\ exp' = IF op.verb = "update" THEN exp
                  ELSE [exp EXCEPT ![k] = Expect(@, Intended(op.verb), op.obj.name)]
        /\ Goto("call", k, work.todo)
    BY <1>3, <1>4 DEF Intend
  <2>2. /\ work' # Idle /\ work'.pc = "call" /\ work'.kind = k /\ work'.todo = work.todo
        /\ work'.inst = work.inst
    BY <1>1, <1>3, <2>1, Ongoing, Going DEF FlightTyped
  <2>3. Todo("services")' = Todo("services")
    BY <1>1, <1>3, <2>2 DEF Todo
  <2>4. Kept'
    BY <1>1, <1>2, <2>2, <2>3 DEF FlightTyped, FlightInv, Kept
  <2>5. Resolved'
    BY <1>1, <1>3, <2>2 DEF FlightTyped, FlightInv, Resolved
  <2>6. ASSUME NEW j \in Kinds, NEW act \in Actions, NEW name \in exp'[j][act]
        PROVE  Calling(j, act, name)' \/ Coming(j, act, name)'
    <3>1. DOMAIN exp = Kinds /\ exp[k] \in [Actions -> SUBSET Names(k)]
      BY DEF FlightTyped, TypeInv, TypeOK
    <3>2. CASE name \in exp[j][act]
      <4>1. Coming(j, act, name)
        BY <1>1, <2>6, <3>2 DEF FlightTyped, FlightInv, Flight, Calling
      <4>2. QED
        BY <1>1, <4>1 DEF Coming, Resolves
    <3>3. CASE name \notin exp[j][act]
      <4>1. op.verb # "update" /\ j = k /\ act = Intended(op.verb) /\ name = op.obj.name
        BY <2>1, <2>6, <3>1, <3>3 DEF Expect
      <4>2. QED
        BY <2>2, <4>1 DEF Calling
    <3>4. QED
      BY <3>2, <3>3
  <2>7. Flight'
    BY <2>6 DEF Flight
  <2>8. QED
    BY <2>4, <2>5, <2>7 DEF FlightInv
<1>5. CASE work.todo = <<>>
  <2>1. PICK pc \in {"check", "status", "ready"}, j \in Kinds : Goto(pc, j, <<>>)
    <3>1. "services" \in Kinds /\ "ingresses" \in Kinds
      BY DEF Kinds
    <3>2. \/ Goto("status", "services", <<>>) \/ Goto("check", "ingresses", <<>>)
          \/ Goto("ready", "ingresses", <<>>)
      BY <1>3, <1>5 DEF Intend, Kinds
    <3>3. QED
      BY <3>1, <3>2
  <2>2. <<>> \in Seq(Ops(j)) /\ pc \in {"check", "sync", "intend", "call", "status", "ready"}
    OBVIOUS
  <2>3. /\ work' # Idle /\ work'.pc = pc /\ work'.todo = <<>> /\ work'.inst = work.inst
    BY <1>1, <2>1, <2>2, Going DEF FlightTyped
  <2>4. exp' = exp /\ pc \notin {"intend", "call"}
    BY <1>5 DEF Intend
  <2>5. QED
    BY <1>1, <1>2, <2>3, <2>4, FlightQuiet
<1>6. QED
  BY <1>4, <1>5

\* What a call that takes effect changes, and the event that tells of it.
LEMMA EffectSays ==
  ASSUME TypeInv, NEW k \in Kinds, NEW op \in Ops(k), Effect(k, op)
  PROVE  /\ \A j \in Kinds : j # k => api'[j] = api[j]
         /\ \A o \in api'[k] : o \in api[k] \/ o.owner = op.obj.owner
         /\ \E type, obj : /\ Event(k, type, obj) /\ obj.name = op.obj.name
                           /\ op.verb = "create" => type = "Create"
                           /\ op.verb = "update" => type = "Update"
                           /\ op.verb = "delete" => type = "Delete"
<1>1. DOMAIN api = Kinds
  BY DEF TypeInv, TypeOK
<1>2. CASE op.verb = "create"
  <2>1. op.obj \in [name : Names(k), owner : 1..MaxUid, rev : 1..MaxEdits, uid : {0}]
    BY <1>2, OpHas
  <2>2. PICK obj : /\ api' = [api EXCEPT ![k] = @ \cup {obj}] /\ Event(k, "Create", obj)
                   /\ obj.name = op.obj.name /\ obj.owner = op.obj.owner
    <3>1. CASE k = "services"
      <4>1. /\ api' = [api EXCEPT ![k] = @ \cup {[op.obj EXCEPT !.uid = uids + 1]}]
            /\ Event(k, "Create", [op.obj EXCEPT !.uid = uids + 1])
        BY <1>2, <3>1 DEF Effect
      <4>2. /\ [op.obj EXCEPT !.uid = uids + 1].name = op.obj.name
            /\ [op.obj EXCEPT !.uid = uids + 1].owner = op.obj.owner
        BY <2>1
      <4>3. QED
        BY <4>1, <4>2
    <3>2. CASE k # "services"
      BY <1>2, <3>2 DEF Effect
    <3>3. QED
      BY <3>1, <3>2
  <2>3. QED
    BY <1>1, <1>2, <2>2
<1>3. CASE op.verb = "update"
  <2>1. /\ api' = [api EXCEPT ![k] = (@ \ {op.old}) \cup {op.obj}] /\ Event(k, "Update", op.obj)
    BY <1>3 DEF Effect
  <2>2. QED
    BY <1>1, <1>3, <2>1
<1>4. CASE op.verb = "delete"
  <2>1. PICK o \in Named(k, op.obj.name) : api' = [api EXCEPT ![k] = @ \ {o}] /\ Event(k, "Delete", o)
    BY <1>4 DEF Effect
  <2>2. o.name = op.obj.name
    BY DEF Named
  <2>3. QED
    BY <1>1, <1>4, <2>1, <2>2
<1>5. QED
  BY <1>2, <1>3, <1>4, OpHas

\* A call that takes effect has its event, and one that fails has taken its
\* expectation back.
LEMMA FlightCall ==
  ASSUME \A s, t \in Specs : s.svc = t.svc, FlightTyped, Call
  PROVE  FlightInv'
<1> DEFINE op == Head(work.todo)
<1>1. UNCHANGED <<proxy, cache, seen>> /\ work # Idle /\ work.pc = "call" /\ work.todo # <<>>
  BY DEF Call, FlightTyped, TypeInv, Sized
<1>2. proxy.exists /\ work.inst.uid = proxy.uid
  BY <1>1 DEF FlightTyped, FlightInv, Kept
<1>3. PICK k \in Kinds : k = work.kind
  BY <1>1, Ongoing DEF FlightTyped
<1>4. op \in Ops(k) /\ Tail(work.todo) \in Seq(Ops(k)) /\ work.todo \in Seq(Ops(k))
  BY <1>1, <1>3, HeadHas, Ongoing DEF FlightTyped
<1>5. /\ DOMAIN api = Kinds /\ DOMAIN events = Kinds /\ DOMAIN exp = Kinds /\ "services" \in Kinds
      /\ \A j \in Kinds : /\ events[j] \in Seq(Events(j)) /\ exp[j] \in [Actions -> SUBSET Names(j)]
                          /\ cache[j] \in SUBSET Children(j)
  BY DEF FlightTyped, TypeInv, TypeOK, Kinds
<1>6. k = "services" => op.verb # "delete" /\ op.obj.owner = proxy.uid
  <2>1. k = "services" => Todo("services") = work.todo
    BY <1>1, <1>3 DEF Todo
  <2>2. 1 \in 1..Len(work.todo) /\ op = work.todo[1]
    BY <1>1, <1>4
  <2>3. QED
    BY <1>2, <2>1, <2>2 DEF FlightTyped, FlightInv, Kept
<1> HIDE DEF op
\* The call took effect, or nothing happened to the children.
<1>7. Effect(k, op) \/ UNCHANGED <<api, events>>
  BY <1>3 DEF Call, children, op
<1>8. \/ UNCHANGED exp /\ Effect(k, op) /\ Goto("intend", k, Tail(work.todo))
      \/ TakeBack(k, op) /\ work' = Idle
  BY <1>3 DEF Call, Finish, Requeue, op
\* Events are added at the end.
<1>9. ASSUME NEW type, NEW obj, Event(k, type, obj)
      PROVE  /\ Len(events'[k]) = Len(events[k]) + 1 /\ Len(events[k]) \in Nat
             /\ Len(events[k]) + 1 \in 1..Len(events'[k])
             /\ events'[k][Len(events[k]) + 1].type = type
             /\ events'[k][Len(events[k]) + 1].obj = obj
             /\ \A i \in 1..Len(events[k]) : i \in 1..Len(events'[k]) /\ events'[k][i] = events[k][i]
             /\ \A j \in Kinds : j # k => events'[j] = events[j]
  <2>1. events'[k] = Append(events[k], [type |-> type, obj |-> obj])
        /\ \A j \in Kinds : j # k => events'[j] = events[j]
    BY <1>5, <1>9 DEF Event
  <2>2. events[k] \in Seq(Events(k))
    BY <1>5
  <2>3. /\ Len(events'[k]) = Len(events[k]) + 1 /\ Len(events[k]) \in Nat
        /\ events'[k][Len(events[k]) + 1] = [type |-> type, obj |-> obj]
        /\ \A i \in 1..Len(events[k]) : events'[k][i] = events[k][i]
    BY <2>1, <2>2
  <2>4. /\ Len(events[k]) + 1 \in 1..Len(events'[k])
        /\ \A i \in 1..Len(events[k]) : i \in 1..Len(events'[k])
    BY <2>3
  <2>5. QED
    BY <2>1, <2>3, <2>4
<1>10. \A j \in Kinds : \A i \in 1..Len(events[j]) : i \in 1..Len(events'[j]) /\ events'[j][i] = events[j][i]
  <2>1. CASE UNCHANGED <<api, events>>
    BY <2>1
  <2>2. CASE Effect(k, op)
    <3>1. PICK type, obj : Event(k, type, obj)
      BY <1>4, <2>2, EffectSays DEF FlightTyped
    <3>2. \A j \in Kinds : j = k \/ events'[j] = events[j]
      BY <1>9, <3>1
    <3>3. \A i \in 1..Len(events[k]) : i \in 1..Len(events'[k]) /\ events'[k][i] = events[k][i]
      BY <1>9, <3>1
    <3>4. QED
      BY <3>2, <3>3
  <2>3. QED
    BY <1>7, <2>1, <2>2
<1>11. \A j \in Kinds, act \in Actions : \A name : Coming(j, act, name) => Coming(j, act, name)'
  BY <1>1, <1>10 DEF Coming, Resolves
<1>12. Kept'
  <2>1. \A o \in api'["services"] : proxy'.exists /\ o.owner = proxy'.uid
    <3>1. CASE UNCHANGED <<api, events>>
      BY <1>1, <3>1 DEF FlightTyped, FlightInv, Kept
    <3>2. CASE Effect(k, op)
      BY <1>1, <1>2, <1>4, <1>5, <1>6, <3>2, EffectSays DEF FlightTyped, FlightInv, Kept
    <3>3. QED
      BY <1>7, <3>1, <3>2
  <2>2. \A i \in 1..Len(events'["services"]) : events'["services"][i].type # "Delete"
    <3>1. CASE UNCHANGED <<api, events>>
      BY <3>1 DEF FlightTyped, FlightInv, Kept
    <3>2. CASE Effect(k, op)
      <4>1. PICK type, obj : /\ Event(k, type, obj) /\ obj.name = op.obj.name
                             /\ op.verb = "create" => type = "Create"
                             /\ op.verb = "update" => type = "Update"
                             /\ op.verb = "delete" => type = "Delete"
        BY <1>4, <3>2, EffectSays DEF FlightTyped
      <4>2. CASE k # "services"
        BY <1>5, <1>9, <4>1, <4>2 DEF FlightTyped, FlightInv, Kept
      <4>3. CASE k = "services"
        <5>1. type # "Delete"
          BY <1>4, <1>6, <4>1, <4>3, OpHas
        <5>2. /\ Len(events'[k]) = Len(events[k]) + 1 /\ Len(events[k]) \in Nat
              /\ events'[k][Len(events[k]) + 1].type = type
              /\ \A i \in 1..Len(events[k]) : events'[k][i] = events[k][i]
          BY <1>9, <4>1
        <5>3. \A i \in 1..Len(events[k]) : events[k][i].type # "Delete"
          BY <4>3 DEF FlightTyped, FlightInv, Kept
        <5>4. \A i \in 1..Len(events'[k]) : i \in 1..Len(events[k]) \/ i = Len(events[k]) + 1
          BY <5>2
        <5>5. \A i \in 1..Len(events'[k]) : events'[k][i].type # "Delete"
          BY <5>1, <5>2, <5>3, <5>4
        <5>6. QED
          BY <4>3, <5>5
      <4>4. QED
        BY <4>2, <4>3
    <3>3. QED
      BY <1>7, <3>1, <3>2
  <2>3. (work' # Idle => work'.inst = work.inst) /\
        \A i \in 1..Len(Todo("services")') : /\ Todo("services")'[i].verb # "delete"
                                             /\ Todo("services")'[i].obj.owner = work'.inst.uid
    <3>1. CASE work' = Idle
      <4>1. Todo("services")' = <<>> /\ Len(Todo("services")') = 0
        BY <3>1 DEF Todo
      <4>2. QED
        BY <3>1, <4>1
    <3>2. CASE Goto("intend", k, Tail(work.todo))
      <4>1. work' # Idle /\ work'.kind = k /\ work'.inst = work.inst /\ work'.todo = Tail(work.todo)
        BY <1>1, <1>4, <3>2, Going DEF FlightTyped
      <4>2. CASE k = "services"
        <5>1. Todo("services") = work.todo /\ Todo("services")' = Tail(work.todo)
          BY <1>1, <1>3, <4>1, <4>2 DEF Todo
        <5>2. \A i \in 1..Len(Tail(work.todo)) :
                i + 1 \in 1..Len(work.todo) /\ Tail(work.todo)[i] = work.todo[i + 1]
          BY <1>1, <1>4
        <5>3. \A i \in 1..Len(work.todo) : work.todo[i].verb # "delete" /\ work.todo[i].obj.owner = work.inst.uid
          BY <5>1 DEF FlightTyped, FlightInv, Kept
        <5>4. \A i \in 1..Len(Tail(work.todo)) :
                Tail(work.todo)[i].verb # "delete" /\ Tail(work.todo)[i].obj.owner = work'.inst.uid
          BY <4>1, <5>2, <5>3
        <5>5. QED
          BY <4>1, <5>1, <5>4
      <4>3. CASE k # "services"
        <5>1. Todo("services")' = <<>> /\ Len(Todo("services")') = 0
          BY <4>1, <4>3 DEF Todo
        <5>2. QED
          BY <4>1, <5>1
      <4>4. QED
        BY <4>2, <4>3
    <3>3. QED
      BY <1>8, <3>1, <3>2
  <2>4. QED
    BY <1>1, <1>2, <2>1, <2>2, <2>3 DEF FlightTyped, FlightInv, Kept
<1>13. Resolved'
  <2>1. CASE work' = Idle
    BY <2>1 DEF Resolved
  <2>2. CASE Goto("intend", k, Tail(work.todo))
    <3>1. work'.kind = k
      BY <1>1, <1>4, <2>2, Going DEF FlightTyped
    <3>2. QED
      BY <1>1, <1>3, <3>1 DEF FlightTyped, FlightInv, Resolved
  <2>3. QED
    BY <1>8, <2>1, <2>2
<1>14. Flight'
  <2>1. ASSUME NEW j \in Kinds, NEW act \in Actions, NEW name \in exp'[j][act]
        PROVE  Calling(j, act, name)' \/ Coming(j, act, name)'
    <3>1. CASE UNCHANGED exp /\ Effect(k, op)
      <4>1. CASE Coming(j, act, name)
        BY <1>11, <4>1
      <4>2. CASE Calling(j, act, name)
        <5>1. j = k /\ op.verb # "update" /\ Intended(op.verb) = act /\ op.obj.name = name
          BY <1>3, <4>2 DEF Calling, op
        <5>2. PICK type, obj : /\ Event(k, type, obj) /\ obj.name = op.obj.name
                               /\ op.verb = "create" => type = "Create"
                               /\ op.verb = "update" => type = "Update"
                               /\ op.verb = "delete" => type = "Delete"
          BY <1>4, <3>1, EffectSays DEF FlightTyped
        <5>3. type # "Update" /\ Observed(type) = act
          BY <1>4, <5>1, <5>2, OpHas DEF Observed, Intended
        <5>4. Resolves(k, obj)'
          <6>1. SUFFICES ASSUME k = "slices" PROVE \E s \in cache'["services"] : s.name = obj.name[1]
            BY DEF Resolves
          <6>2. cache["services"] # {}
            BY <1>1, <1>3, <6>1 DEF FlightTyped, FlightInv, Resolved
          <6>3. obj.name \in Names("slices")
            BY <1>4, <5>2, <6>1, OpHas
          <6>4. QED
            BY <1>1, <1>5, <6>2, <6>3, Found
        <5>5. /\ Len(events[k]) + 1 \in 1..Len(events'[k])
              /\ events'[k][Len(events[k]) + 1].type = type /\ events'[k][Len(events[k]) + 1].obj = obj
          BY <1>9, <5>2
        <5>6. QED
          BY <5>1, <5>2, <5>3, <5>4, <5>5 DEF Coming, Resolves
      <4>3. QED
        BY <2>1, <3>1, <4>1, <4>2 DEF FlightTyped, FlightInv, Flight
    <3>2. CASE TakeBack(k, op)
      <4>1. name \in exp[j][act]
        BY <1>5, <2>1, <3>2 DEF TakeBack, Observe
      <4>2. ~Calling(j, act, name)
        <5>1. SUFFICES ASSUME Calling(j, act, name) PROVE FALSE
          OBVIOUS
        <5>2. j = k /\ op.verb # "update" /\ Intended(op.verb) = act /\ op.obj.name = name
          BY <1>3, <5>1 DEF Calling, op
        <5>3. exp'[k] = [exp[k] EXCEPT ![act] = @ \ {name}]
          BY <1>5, <3>2, <5>2 DEF TakeBack, Observe
        <5>4. QED
          BY <1>5, <2>1, <5>2, <5>3
      <4>3. QED
        BY <1>11, <2>1, <4>1, <4>2 DEF FlightTyped, FlightInv, Flight
    <3>3. QED
      BY <1>8, <3>1, <3>2
  <2>2. QED
    BY <2>1 DEF Flight
<1>15. QED
  BY <1>12, <1>13, <1>14 DEF FlightInv

(* While users do not delete the proxy and its specs keep the Service's    *)
(* name, an expectation is met sooner or later, whatever calls fail, with  *)
(* or without effect, and however often the controller restarts: the call  *)
(* it is for is about to be made, or an event that meets it is on its way. *)
THEOREM ExpectationsAreMet ==
  ASSUME MaxDeletes = 0, \A s, t \in Specs : s.svc = t.svc
  PROVE  Spec => []ExpectationsInFlight
<1>1. Init => FlightTyped
  BY TypeInit, FlightInit DEF FlightTyped
<1>2. FlightTyped /\ [Next]_vars => FlightTyped'
  <2> SUFFICES ASSUME FlightTyped, [Next]_vars PROVE FlightInv'
    BY TypeStep DEF FlightTyped
  <2>1. CASE User
    BY <2>1, FlightUser
  <2>2. CASE Reconcile
    BY <2>2, FlightBegin, FlightCheck, FlightSync, FlightIntend, FlightCall, FlightStatus DEF Reconcile
  <2>3. CASE RefreshProxy \/ Crash
    BY <2>3, FlightRefresh, FlightCrash
  <2>4. ASSUME NEW k \in Kinds, Deliver(k) \/ CollectGarbage(k) PROVE FlightInv'
    BY <2>4, FlightDeliver, FlightGarbage
  <2>5. CASE UNCHANGED vars
    <3>1. UNCHANGED <<proxy, api, events, cache, seen, exp, work>>
      BY <2>5 DEF vars, children
    <3>2. Todo("services")' = Todo("services")
      BY <3>1 DEF Todo
    <3>3. Kept' /\ Resolved'
      BY <3>1, <3>2 DEF FlightTyped, FlightInv, Kept, Resolved
    <3>4. Flight'
      BY <3>1, FlightFrame DEF FlightTyped, FlightInv
    <3>5. QED
      BY <3>3, <3>4 DEF FlightInv
  <2>6. QED
    BY <2>1, <2>2, <2>3, <2>4, <2>5 DEF Next
<1>3. FlightTyped => ExpectationsInFlight
  BY DEF FlightTyped, FlightInv, Flight, Calling, Coming, ExpectationsInFlight
<1>4. QED
  BY <1>1, <1>2, <1>3, PTL DEF Spec

-----------------------------------------------------------------------------
(* What the cache and the events on their way say of the children.         *)

Same(o, x) == o.name = x.name /\ o.owner = x.owner /\ o.uid = x.uid

Unique(objects) == \A o, q \in objects : o.name = q.name => o = q

\* An event after the i-th tells that o was created.
Told(k, o, i) ==
  \E j \in 1..Len(events[k]) : j > i /\ events[k][j].type = "Create" /\ Same(events[k][j].obj, o)

\* What was x when the i-th event was sent is there, maybe of a later
\* generation, or a later event tells that it was deleted.
Lasts(k, x, i) ==
  \/ \E o \in api[k] : Same(o, x) /\ x.rev <= o.rev
  \/ \E j \in 1..Len(events[k]) : j > i /\ events[k][j].type = "Delete" /\ Same(events[k][j].obj, x)

\* The event tells of o, or another one after it does.
Renews(k, o, i) ==
  \/ events[k][i].type # "Delete" /\ Same(o, events[k][i].obj)
  \/ Told(k, o, i)

Traced(k) ==
  /\ Unique(api[k]) /\ Unique(cache[k])
  /\ \A c \in cache[k] : Lasts(k, c, 0)
  /\ \A o \in api[k] : (\E c \in cache[k] : Same(c, o)) \/ Told(k, o, 0)
  /\ \A i \in 1..Len(events[k]) :
       /\ events[k][i].type # "Delete" => Lasts(k, events[k][i].obj, i)
       /\ \A o \in api[k] : o.name = events[k][i].obj.name => Renews(k, o, i)

\* How a step changes the children of a kind and tells of it.
Only(k) == \A j \in Kinds : j # k => api'[j] = api[j] /\ events'[j] = events[j]

Tells(k, type, o) == events'[k] = Append(events[k], [type |-> type, obj |-> o])

Adds(k, o) ==
  Tells(k, "Create", o) /\ api'[k] = api[k] \cup {o} /\ \A x \in api[k] : x.name # o.name

Replaces(k, old, o) ==
  /\ Tells(k, "Update", o) /\ api'[k] = (api[k] \ {old}) \cup {o}
  /\ old \in api[k] /\ Same(old, o) /\ old.rev <= o.rev

Removes(k, o) ==
  Tells(k, "Delete", o) /\ api'[k] = api[k] \ {o} /\ o \in api[k]

\* An event that is sent is the last.
LEMMA Sending ==
  ASSUME TypeInv, NEW k \in Kinds, NEW type, NEW o, Tells(k, type, o)
  PROVE  /\ Len(events[k]) \in Nat /\ Len(events'[k]) = Len(events[k]) + 1
         /\ \A i \in 1..Len(events[k]) : i \in 1..Len(events'[k]) /\ events'[k][i] = events[k][i]
         /\ Len(events[k]) + 1 \in 1..Len(events'[k])
         /\ events'[k][Len(events[k]) + 1].type = type /\ events'[k][Len(events[k]) + 1].obj = o
         /\ \A i \in 1..Len(events'[k]) : i \in 1..Len(events[k]) \/ i = Len(events[k]) + 1
<1>1. events[k] \in Seq(Events(k))
  BY DEF TypeInv, TypeOK
<1>2. events'[k] = Append(events[k], [type |-> type, obj |-> o])
  BY DEF Tells
<1>3. \A e : /\ Len(Append(events[k], e)) = Len(events[k]) + 1
             /\ Append(events[k], e)[Len(events[k]) + 1] = e
             /\ \A i \in 1..Len(events[k]) : Append(events[k], e)[i] = events[k][i]
  BY <1>1
<1>4. Len(events[k]) \in Nat
  BY <1>1
<1>5. Len(events'[k]) = Len(events[k]) + 1
  BY <1>2, <1>3
<1>6. \A i \in 1..Len(events[k]) : i \in 1..Len(events'[k]) /\ events'[k][i] = events[k][i]
  BY <1>2, <1>3, <1>4, <1>5
<1>7. events'[k][Len(events[k]) + 1] = [type |-> type, obj |-> o]
  BY <1>2, <1>3
<1>8. /\ Len(events[k]) + 1 \in 1..Len(events'[k])
      /\ \A i \in 1..Len(events'[k]) : i \in 1..Len(events[k]) \/ i = Len(events[k]) + 1
  BY <1>4, <1>5
<1>9. QED
  BY <1>4, <1>5, <1>6, <1>7, <1>8

\* A child that is created, changed or deleted keeps to what is told of it.
LEMMA TracedChange ==
  ASSUME TypeInv, NEW k \in Kinds, Traced(k), cache'[k] = cache[k], NEW o \in Children(k),
         Adds(k, o) \/ (\E old : Replaces(k, old, o)) \/ Removes(k, o)
  PROVE  Traced(k)'
<1> DEFINE n == Len(events[k])
<1>1. PICK type \in {"Create", "Update", "Delete"} :
        /\ Tells(k, type, o)
        /\ type = "Create" => api'[k] = api[k] \cup {o} /\ \A x \in api[k] : x.name # o.name
        /\ type = "Update" => \E old \in api[k] : /\ api'[k] = (api[k] \ {old}) \cup {o}
                                                  /\ Same(old, o) /\ old.rev <= o.rev
        /\ type = "Delete" => api'[k] = api[k] \ {o} /\ o \in api[k]
  BY DEF Adds, Replaces, Removes
<1>2. /\ n \in Nat /\ Len(events'[k]) = n + 1 /\ n + 1 \in 1..Len(events'[k])
      /\ events'[k][n + 1].type = type /\ events'[k][n + 1].obj = o
      /\ \A i \in 1..n : i \in 1..Len(events'[k]) /\ events'[k][i] = events[k][i]
      /\ \A i \in 1..Len(events'[k]) : i \in 1..n \/ i = n + 1
  <2>1. Tells(k, type, o)
    BY <1>1
  <2>2. QED
    BY <2>1, Sending
<1>3. /\ \A x \in api[k] : x.rev \in Nat
      /\ \A x \in cache[k] : x.rev \in Nat
      /\ \A i \in 1..n : events[k][i].obj.rev \in Nat
  <2>1. api[k] \in SUBSET Children(k) /\ cache[k] \in SUBSET Children(k) /\ events[k] \in Seq(Events(k))
    BY DEF TypeInv, TypeOK
  <2>2. \A i \in 1..n : events[k][i] \in Events(k)
    BY <2>1
  <2>3. \A x \in Children(k) : x.rev \in Nat
    BY BoundsAssumption DEF Children
  <2>4. \A e \in Events(k) : e.obj \in Children(k)
    BY DEF Events
  <2>5. QED
    BY <2>1, <2>2, <2>3, <2>4
<1> HIDE DEF n
\* What there was is there, maybe of a later generation, or it was o.
<1>4. ASSUME NEW x \in api[k]
      PROVE  \/ \E y \in api'[k] : Same(y, x) /\ x.rev <= y.rev /\ y.rev \in Nat
             \/ type = "Delete" /\ x = o
  <2>1. CASE type = "Create"
    BY <1>1, <1>3, <2>1 DEF Same
  <2>2. CASE type = "Update"
    <3>1. PICK old \in api[k] : /\ api'[k] = (api[k] \ {old}) \cup {o}
                                /\ Same(old, o) /\ old.rev <= o.rev
      BY <1>1, <2>2
    <3>2. CASE x = old
      <4>1. o.rev \in Nat
        BY BoundsAssumption DEF Children
      <4>2. QED
        BY <3>1, <3>2, <4>1 DEF Same
    <3>3. CASE x # old
      BY <1>3, <3>1, <3>3 DEF Same
    <3>4. QED
      BY <3>2, <3>3
  <2>3. CASE type = "Delete"
    BY <1>1, <1>3, <2>3 DEF Same
  <2>4. QED
    BY <2>1, <2>2, <2>3
<1>5. ASSUME NEW x \in api'[k]
      PROVE  \/ x = o /\ type # "Delete" /\ (type = "Update" => \E old \in api[k] : Same(old, x))
             \/ x \in api[k] /\ (type = "Create" => x.name # o.name)
  BY <1>1
\* What later events told they still tell.
<1>6. ASSUME NEW x, NEW i \in 0..n, Told(k, x, i) PROVE Told(k, x, i)'
  <2>1. PICK j \in 1..n : j > i /\ events[k][j].type = "Create" /\ Same(events[k][j].obj, x)
    BY <1>6 DEF Told, n
  <2>2. j \in 1..Len(events'[k]) /\ events'[k][j] = events[k][j]
    BY <1>2
  <2>3. QED
    BY <2>1, <2>2 DEF Told
<1>7. ASSUME NEW x, x.rev \in Nat, NEW i \in 0..n, Lasts(k, x, i) PROVE Lasts(k, x, i)'
  <2>1. ASSUME NEW j \in 1..n, j > i, events[k][j].type = "Delete", Same(events[k][j].obj, x)
        PROVE  Lasts(k, x, i)'
    <3>1. j \in 1..Len(events'[k]) /\ events'[k][j] = events[k][j]
      BY <1>2
    <3>2. QED
      BY <2>1, <3>1 DEF Lasts
  <2>2. ASSUME NEW y \in api[k], Same(y, x), x.rev <= y.rev PROVE Lasts(k, x, i)'
    <3>1. CASE \E z \in api'[k] : Same(z, y) /\ y.rev <= z.rev /\ z.rev \in Nat
      <4>1. PICK z \in api'[k] : Same(z, y) /\ y.rev <= z.rev /\ z.rev \in Nat
        BY <3>1
      <4>2. Same(z, x) /\ x.rev <= z.rev
        BY <1>3, <1>7, <2>2, <4>1 DEF Same
      <4>3. QED
        BY <4>2 DEF Lasts
    <3>2. CASE type = "Delete" /\ y = o
      <4>1. n + 1 > i /\ n + 1 \in 1..Len(events'[k])
        BY <1>2
      <4>2. QED
        BY <1>2, <2>2, <3>2, <4>1 DEF Lasts
    <3>3. QED
      BY <1>4, <3>1, <3>2
  <2>3. QED
    BY <1>7, <2>1, <2>2 DEF Lasts, n
<1>8. Unique(api'[k])
  <2>1. Unique(api[k])
    BY DEF Traced
  <2>2. \A x \in api'[k], y \in api'[k] : x.name = y.name => x = y
    <3>1. SUFFICES ASSUME NEW x \in api'[k], NEW y \in api'[k], x.name = y.name PROVE x = y
      OBVIOUS
    <3>2. CASE type = "Update"
      BY <1>1, <2>1, <3>1, <3>2 DEF Unique, Same
    <3>3. CASE type # "Update"
      BY <1>1, <2>1, <3>1, <3>3 DEF Unique
    <3>4. QED
      BY <3>2, <3>3
  <2>3. QED
    BY <2>2 DEF Unique
\* The event that is sent tells of a child that is created.
<1>9. ASSUME type = "Create", NEW i \in 0..n PROVE Told(k, o, i)'
  <2>1. n + 1 > i /\ n + 1 \in 1..Len(events'[k])
    BY <1>2
  <2>2. QED
    BY <1>2, <1>9, <2>1 DEF Told, Same
<1>10. \A c \in cache'[k] : Lasts(k, c, 0)'
  <2>1. 0 \in 0..n
    BY <1>2
  <2>2. QED
    BY <1>3, <1>7, <2>1 DEF Traced
<1>11. ASSUME NEW x \in api'[k] PROVE (\E c \in cache'[k] : Same(c, x)) \/ Told(k, x, 0)'
  <2>0. 0 \in 0..n
    BY <1>2
  <2>1. CASE x = o /\ type = "Create"
    BY <1>9, <2>0, <2>1
  <2>2. ASSUME NEW y \in api[k], Same(y, x)
        PROVE  (\E c \in cache'[k] : Same(c, x)) \/ Told(k, x, 0)'
    <3>1. CASE \E c \in cache[k] : Same(c, y)
      BY <2>2, <3>1 DEF Same
    <3>2. CASE Told(k, y, 0)
      <4>1. Told(k, x, 0)
        BY <2>2, <3>2 DEF Told, Same
      <4>2. QED
        BY <1>6, <2>0, <4>1
    <3>3. QED
      BY <3>1, <3>2 DEF Traced
  <2>3. x \in api[k] => Same(x, x)
    BY DEF Same
  <2>4. QED
    BY <1>5, <2>1, <2>2, <2>3
<1>12. ASSUME NEW i \in 1..Len(events'[k])
       PROVE  /\ (events[k][i].type # "Delete" => Lasts(k, events[k][i].obj, i))'
              /\ \A x \in api'[k] : x.name = events'[k][i].obj.name => Renews(k, x, i)'
  <2>1. CASE i \in 1..n
    <3>0. events'[k][i] = events[k][i] /\ i \in 0..n
      BY <1>2, <2>1
    <3>1. /\ events[k][i].type # "Delete" => Lasts(k, events[k][i].obj, i)
          /\ \A x \in api[k] : x.name = events[k][i].obj.name => Renews(k, x, i)
      BY <2>1 DEF Traced, n
    <3>2. (events[k][i].type # "Delete" => Lasts(k, events[k][i].obj, i))'
      <4>1. ASSUME NEW x, x = events[k][i].obj, events[k][i].type # "Delete" PROVE Lasts(k, x, i)'
        BY <1>3, <1>7, <2>1, <3>0, <3>1, <4>1
      <4>2. QED
        BY <3>0, <4>1
    <3>3. ASSUME NEW x \in api'[k], x.name = events'[k][i].obj.name PROVE Renews(k, x, i)'
      <4>1. CASE x = o /\ type = "Create"
        BY <1>9, <3>0, <4>1 DEF Renews
      <4>2. ASSUME NEW y \in api[k], Same(y, x) PROVE Renews(k, x, i)'
        <5>1. Renews(k, y, i)
          BY <3>0, <3>1, <3>3, <4>2 DEF Same
        <5>2. CASE events[k][i].type # "Delete" /\ Same(y, events[k][i].obj)
          BY <3>0, <4>2, <5>2 DEF Renews, Same
        <5>3. CASE Told(k, y, i)
          <6>1. Told(k, x, i)
            BY <4>2, <5>3 DEF Told, Same
          <6>2. QED
            BY <1>6, <3>0, <6>1 DEF Renews
        <5>4. QED
          BY <5>1, <5>2, <5>3 DEF Renews
      <4>3. x \in api[k] => Same(x, x)
        BY DEF Same
      <4>4. QED
        BY <1>5, <4>1, <4>2, <4>3
    <3>4. QED
      BY <3>2, <3>3
  <2>2. CASE i = n + 1
    <3>1. events'[k][i].type = type /\ events'[k][i].obj = o
      BY <1>2, <2>2
    <3>2. type # "Delete" => o \in api'[k]
      BY <1>1
    <3>3. type # "Delete" => Lasts(k, o, i)'
      <4>1. o.rev <= o.rev
        BY BoundsAssumption DEF Children
      <4>2. QED
        BY <3>2, <4>1 DEF Lasts, Same
    <3>4. ASSUME NEW x \in api'[k], x.name = o.name PROVE x = o /\ type # "Delete"
      <4>1. CASE type = "Delete"
        <5>1. x \in api[k] /\ x # o /\ o \in api[k]
          BY <1>1, <4>1
        <5>2. QED
          BY <3>4, <5>1 DEF Traced, Unique
      <4>2. CASE type # "Delete"
        BY <1>8, <3>2, <3>4, <4>2 DEF Unique
      <4>3. QED
        BY <4>1, <4>2
    <3>5. QED
      BY <3>1, <3>3, <3>4 DEF Renews, Same
  <2>3. QED
    BY <1>2, <2>1, <2>2
<1>13. Unique(cache'[k])
  BY DEF Traced
<1>14. QED
  BY <1>8, <1>10, <1>11, <1>12, <1>13 DEF Traced

\* The first event is delivered: the cache takes in what it tells of.
LEMMA TracedDeliver ==
  ASSUME TypeInv, NEW k \in Kinds, Traced(k), events[k] # <<>>, api'[k] = api[k],
         events'[k] = Tail(events[k]), cache'[k] = Folded(cache[k], Head(events[k]))
  PROVE  Traced(k)'
<1> DEFINE n == Len(events[k])
<1>1. events[k] \in Seq(Events(k))
  BY DEF TypeInv, TypeOK
<1>2. /\ n \in Nat /\ n > 0 /\ Len(events'[k]) = n - 1 /\ Head(events[k]) = events[k][1]
      /\ \A i \in 1..(n - 1) : i + 1 \in 1..n /\ events'[k][i] = events[k][i + 1]
  BY <1>1
<1>3. PICK e : e = events[k][1]
  OBVIOUS
<1>4. /\ cache'[k] = {c \in cache[k] : c.name # e.obj.name}
                       \cup (IF e.type = "Delete" THEN {} ELSE {e.obj})
  BY <1>2, <1>3 DEF Folded
<1>5. Traced(k)
  OBVIOUS
<1> HIDE DEF n
\* What is told later is told one event earlier now.
<1>6. ASSUME NEW x, NEW i \in 0..(n - 1), Told(k, x, i + 1) PROVE Told(k, x, i)'
  <2>1. PICK j \in 1..n : j > i + 1 /\ events[k][j].type = "Create" /\ Same(events[k][j].obj, x)
    BY <1>6 DEF Told, n
  <2>2. j - 1 \in 1..(n - 1) /\ j - 1 > i /\ (j - 1) + 1 = j
    BY <1>2, <2>1
  <2>3. events'[k][j - 1] = events[k][j] /\ j - 1 \in 1..Len(events'[k])
    BY <1>2, <2>2
  <2>4. QED
    BY <2>1, <2>2, <2>3 DEF Told
<1>7. ASSUME NEW x, NEW i \in 0..(n - 1), Lasts(k, x, i + 1) PROVE Lasts(k, x, i)'
  <2>1. ASSUME NEW j \in 1..n, j > i + 1, events[k][j].type = "Delete", Same(events[k][j].obj, x)
        PROVE  Lasts(k, x, i)'
    <3>1. j - 1 \in 1..(n - 1) /\ j - 1 > i /\ (j - 1) + 1 = j
      BY <1>2, <2>1
    <3>2. events'[k][j - 1] = events[k][j] /\ j - 1 \in 1..Len(events'[k])
      BY <1>2, <3>1
    <3>3. QED
      BY <2>1, <3>1, <3>2 DEF Lasts
  <2>2. (\E o \in api[k] : Same(o, x) /\ x.rev <= o.rev) => Lasts(k, x, i)'
    BY DEF Lasts
  <2>3. QED
    BY <1>7, <2>1, <2>2 DEF Lasts, n
<1>8. 1 \in 1..n /\ 0 \in 0..(n - 1) /\ 0 + 1 = 1
  BY <1>2
\* What is told now is told later or by the first event.
<1>9. ASSUME NEW x, Told(k, x, 0)
      PROVE  Told(k, x, 1) \/ (e.type = "Create" /\ Same(e.obj, x))
  <2>1. PICK j \in 1..n : j > 0 /\ events[k][j].type = "Create" /\ Same(events[k][j].obj, x)
    BY <1>9 DEF Told, n
  <2>2. j = 1 \/ j > 1
    BY <1>2, <2>1
  <2>3. QED
    BY <1>3, <2>1, <2>2 DEF Told, n
<1>10. ASSUME NEW x, Lasts(k, x, 0)
       PROVE  Lasts(k, x, 1) \/ (e.type = "Delete" /\ Same(e.obj, x))
  <2>1. ASSUME NEW j \in 1..n, j > 0, events[k][j].type = "Delete", Same(events[k][j].obj, x)
        PROVE  Lasts(k, x, 1) \/ (e.type = "Delete" /\ Same(e.obj, x))
    <3>1. j = 1 \/ j > 1
      BY <1>2, <2>1
    <3>2. QED
      BY <1>3, <2>1, <3>1 DEF Lasts, n
  <2>2. (\E o \in api[k] : Same(o, x) /\ x.rev <= o.rev) => Lasts(k, x, 1)
    BY DEF Lasts
  <2>3. QED
    BY <1>10, <2>1, <2>2 DEF Lasts, n
<1>11. /\ e.type # "Delete" => Lasts(k, e.obj, 1)
       /\ \A x \in api[k] : x.name = e.obj.name => Renews(k, x, 1)
  BY <1>3, <1>5, <1>8 DEF Traced, n
<1>12. Unique(api'[k]) /\ Unique(cache'[k])
  BY <1>4, <1>5 DEF Traced, Unique
<1>13. \A c \in cache'[k] : Lasts(k, c, 0)'
  <2>1. SUFFICES ASSUME NEW c \in cache'[k] PROVE Lasts(k, c, 1)
    BY <1>7, <1>8
  <2>2. CASE c = e.obj /\ e.type # "Delete"
    BY <1>11, <2>2
  <2>3. CASE c \in cache[k] /\ c.name # e.obj.name
    BY <1>5, <1>10, <2>3 DEF Traced, Same
  <2>4. QED
    BY <1>4, <2>2, <2>3
<1>14. ASSUME NEW x \in api[k] PROVE (\E c \in cache'[k] : Same(c, x)) \/ Told(k, x, 0)'
  <2>1. Told(k, x, 1) => Told(k, x, 0)'
    BY <1>6, <1>8
  <2>2. CASE x.name = e.obj.name
    <3>1. Renews(k, x, 1)
      BY <1>11, <2>2
    <3>2. CASE e.type # "Delete" /\ Same(x, e.obj)
      BY <1>4, <3>2 DEF Same
    <3>3. QED
      BY <1>3, <2>1, <3>1, <3>2 DEF Renews
  <2>3. CASE x.name # e.obj.name
    <3>1. CASE \E c \in cache[k] : Same(c, x)
      BY <1>4, <2>3, <3>1 DEF Same
    <3>2. CASE Told(k, x, 0)
      BY <1>9, <2>1, <2>3, <3>2 DEF Same
    <3>3. QED
      BY <1>5, <3>1, <3>2 DEF Traced
  <2>4. QED
    BY <2>2, <2>3
<1>15. ASSUME NEW i \in 1..Len(events'[k])
       PROVE  /\ (events[k][i].type # "Delete" => Lasts(k, events[k][i].obj, i))'
              /\ \A x \in api'[k] : x.name = events'[k][i].obj.name => Renews(k, x, i)'
  <2>1. i \in 1..(n - 1) /\ i \in 0..(n - 1) /\ i + 1 \in 1..n /\ events'[k][i] = events[k][i + 1]
    BY <1>2, <1>15
  <2>2. /\ events[k][i + 1].type # "Delete" => Lasts(k, events[k][i + 1].obj, i + 1)
        /\ \A x \in api[k] : x.name = events[k][i + 1].obj.name => Renews(k, x, i + 1)
    BY <1>5, <2>1 DEF Traced, n
  <2>3. (events[k][i].type # "Delete" => Lasts(k, events[k][i].obj, i))'
    <3>1. ASSUME NEW x, x = events[k][i + 1].obj, events[k][i + 1].type # "Delete" PROVE Lasts(k, x, i)'
      BY <1>7, <2>1, <2>2, <3>1
    <3>2. QED
      BY <2>1, <3>1
  <2>4. ASSUME NEW x \in api[k], Renews(k, x, i + 1) PROVE Renews(k, x, i)'
    BY <1>6, <2>1, <2>4 DEF Renews
  <2>5. QED
    BY <2>1, <2>2, <2>3, <2>4
<1>16. QED
  BY <1>12, <1>13, <1>14, <1>15 DEF Traced

\* After a restart the cache shows what there is.
LEMMA TracedCrash ==
  ASSUME TypeInv, NEW k \in Kinds, Traced(k), api'[k] = api[k], events'[k] = <<>>, cache'[k] = api[k]
  PROVE  Traced(k)'
<1>1. Len(events'[k]) = 0
  OBVIOUS
<1>2. \A x \in api[k] : x.rev <= x.rev
  BY BoundsAssumption DEF TypeInv, TypeOK, Children
<1>3. \A c \in cache'[k] : Lasts(k, c, 0)'
  BY <1>2 DEF Lasts, Same
<1>4. QED
  BY <1>1, <1>3 DEF Traced, Same, Unique

\* What a reconcile may take from the cache: what lasts is there, and what is
\* there is shown, unless an event on its way says otherwise.
LEMMA TracedShows ==
  ASSUME TypeInv, NEW k \in Kinds, Traced(k), NEW u,
         \A i \in 1..Len(events[k]) : events[k][i].obj.owner = u => events[k][i].type = "Update"
  PROVE  /\ \A c \in cache[k] : c.owner = u => \E o \in api[k] : Same(o, c) /\ c.rev <= o.rev
         /\ \A o \in api[k] : o.owner = u => \E c \in cache[k] : Same(c, o)
<1>1. \A x : x.owner = u /\ Lasts(k, x, 0) => \E o \in api[k] : Same(o, x) /\ x.rev <= o.rev
  BY DEF Lasts, Same
<1>2. \A x : x.owner = u => ~Told(k, x, 0)
  BY DEF Told, Same
<1>3. QED
  BY <1>1, <1>2 DEF Traced

-----------------------------------------------------------------------------
(* What a step of a reconcile does.                                        *)

\* The reconcile goes on at pc, for the children of kind k.
Goes(pc, k, todo) ==
  work' # Idle /\ work'.pc = pc /\ work'.kind = k /\ work'.todo = todo /\ work'.inst = work.inst

LEMMA BeginSays ==
  ASSUME OneTyped, Begin
  PROVE  /\ UNCHANGED <<proxy, api, events, cache, seen, uids>> /\ exp'["slices"] = exp["slices"]
         /\ work = Idle
         /\ \/ work' = Idle
            \/ /\ seen.exists /\ work' # Idle /\ work'.pc = "check" /\ work'.kind = "services"
               /\ work'.todo = <<>> /\ work'.inst = seen
<1>1. UNCHANGED <<proxy, api, events, cache, seen, uids>> /\ work = Idle
  BY DEF Begin, children
<1>2. CASE seen.exists
  <2>1. work' = [pc |-> "check", kind |-> "services", inst |-> seen, todo |-> <<>>] /\ exp' = exp
    BY <1>2 DEF Begin
  <2>2. work' # Idle
    BY <2>1 DEF Idle
  <2>3. QED
    BY <1>1, <1>2, <2>1, <2>2
<1>3. CASE ~seen.exists
  <2>1. work' = work /\ exp' = [exp EXCEPT !["services"] = NoExpectations]
    BY <1>3 DEF Begin
  <2>2. exp'["slices"] = exp["slices"]
    BY <2>1 DEF OneTyped, TypeInv, TypeOK, Kinds
  <2>3. QED
    BY <1>1, <2>1, <2>2
<1>4. QED
  BY <1>2, <1>3

LEMMA CheckSays ==
  ASSUME OneTyped, Check
  PROVE  /\ UNCHANGED <<proxy, api, events, cache, seen, exp, uids>> /\ work # Idle /\ work.pc = "check"
         /\ \/ work' = Idle
            \/ Goes("sync", work.kind, <<>>) /\ SatisfiedExpectations(exp[work.kind])
<1>1. UNCHANGED <<proxy, api, events, cache, seen, exp, uids>> /\ work # Idle /\ work.pc = "check"
  BY DEF Check, children
<1>2. CASE Goto("sync", work.kind, <<>>) /\ SatisfiedExpectations(exp[work.kind])
  <2>1. work.kind \in Kinds /\ <<>> \in Seq(Ops(work.kind))
    BY <1>1, Ongoing DEF OneTyped
  <2>2. Goes("sync", work.kind, <<>>)
    BY <1>1, <1>2, <2>1, Going DEF OneTyped, Goes
  <2>3. QED
    BY <1>1, <1>2, <2>2
<1>3. QED
  BY <1>1, <1>2 DEF Check, Requeue, Finish

LEMMA SyncSays ==
  ASSUME OneTyped, Sync
  PROVE  /\ UNCHANGED <<proxy, api, events, cache, seen, exp, uids>> /\ work # Idle /\ work.pc = "sync"
         /\ \/ work' = Idle
            \/ /\ work.kind = "services"
               /\ Goes("intend", "services", SyncActivated("services", work.inst.spec.svc))
            \/ /\ work.kind = "ingresses"
               /\ Goes("intend", "ingresses", SyncActivated("ingresses", work.inst.spec.ing))
            \/ /\ work.kind = "slices"
               /\ \E s \in cache["services"] : /\ s.name = work.inst.spec.svc
                                               /\ Goes("intend", "slices", SyncEndpointSlices(s))
<1>1. UNCHANGED <<proxy, api, events, cache, seen, exp, uids>> /\ work # Idle /\ work.pc = "sync"
  BY DEF Sync, children
<1>2. "services" \in Kinds /\ "ingresses" \in Kinds /\ "slices" \in Kinds /\ TypeInv
  BY DEF Kinds, OneTyped
<1>3. ASSUME NEW k \in Kinds, NEW todo \in Seq(Ops(k)), Goto("intend", k, todo)
      PROVE  Goes("intend", k, todo)
  BY <1>1, <1>2, <1>3, Going DEF Goes
<1>4. work.inst.spec.svc \in Names("services") /\ work.inst.spec.ing \in Names("ingresses") \cup {NoIngress}
  BY <1>1, <1>2, Ongoing DEF Names
<1>5. /\ SyncActivated("services", work.inst.spec.svc) \in Seq(Ops("services"))
      /\ SyncActivated("ingresses", work.inst.spec.ing) \in Seq(Ops("ingresses"))
  BY <1>1, <1>2, <1>4, PlanTyped
<1>6. \A s \in cache["services"] : s.name = work.inst.spec.svc =>
        SyncEndpointSlices(s) \in Seq(Ops("slices"))
  BY <1>1, <1>2, SlicePlanTyped
<1>7. CASE work.kind = "services" /\ Goto("intend", "services", SyncActivated("services", work.inst.spec.svc))
  BY <1>1, <1>2, <1>3, <1>5, <1>7
<1>8. CASE work.kind = "ingresses" /\ Goto("intend", "ingresses", SyncActivated("ingresses", work.inst.spec.ing))
  BY <1>1, <1>2, <1>3, <1>5, <1>8
<1>9. ASSUME work.kind = "slices", NEW s \in cache["services"], s.name = work.inst.spec.svc,
             Goto("intend", "slices", SyncEndpointSlices(s))
      PROVE  Goes("intend", "slices", SyncEndpointSlices(s))
  BY <1>2, <1>3, <1>6, <1>9
<1>10. QED
  BY <1>1, <1>7, <1>8, <1>9 DEF Sync

LEMMA IntendSays ==
  ASSUME OneTyped, Intend
  PROVE  /\ UNCHANGED <<proxy, api, events, cache, seen, uids>> /\ work # Idle /\ work.pc = "intend"
         /\ \/ /\ work.todo # <<>> /\ Goes("call", work.kind, work.todo)
               /\ exp' = IF Head(work.todo).verb = "update" THEN exp
                         ELSE [exp EXCEPT ![work.kind] =
                                 Expect(@, Intended(Head(work.todo).verb), Head(work.todo).obj.name)]
            \/ /\ work.todo = <<>> /\ exp' = exp
               /\ \/ work.kind = "services" /\ Goes("status", "services", <<>>)
                  \/ work.kind = "slices" /\ Goes("check", "ingresses", <<>>)
                  \/ work.kind = "ingresses" /\ Goes("ready", "ingresses", <<>>)
<1>1. UNCHANGED <<proxy, api, events, cache, seen, uids>> /\ work # Idle /\ work.pc = "intend"
  BY DEF Intend, children
<1>2. "services" \in Kinds /\ "ingresses" \in Kinds /\ "slices" \in Kinds /\ TypeInv
  BY DEF Kinds, OneTyped
<1>3. work.kind \in Kinds /\ work.todo \in Seq(Ops(work.kind))
  BY <1>1, <1>2, Ongoing
<1>4. ASSUME NEW pc \in {"check", "call", "status", "ready"}, NEW k \in Kinds, NEW todo \in Seq(Ops(k)),
             Goto(pc, k, todo)
      PROVE  Goes(pc, k, todo)
  <2>1. pc \in {"check", "sync", "intend", "call", "status", "ready"}
    OBVIOUS
  <2>2. QED
    BY <1>1, <1>2, <1>4, <2>1, Going DEF Goes
<1>5. \A k \in Kinds : <<>> \in Seq(Ops(k))
  OBVIOUS
<1>6. CASE work.todo # <<>>
  <2>1. Goto("call", work.kind, work.todo)
    BY <1>6 DEF Intend
  <2>2. Goes("call", work.kind, work.todo)
    BY <1>3, <1>4, <2>1
  <2>3. QED
    BY <1>1, <1>6, <2>2 DEF Intend
<1>7. CASE work.todo = <<>>
  <2>1. exp' = exp
    BY <1>7 DEF Intend
  <2>2. CASE work.kind = "services"
    <3>1. Goto("status", "services", <<>>)
      BY <1>7, <2>2 DEF Intend
    <3>2. QED
      BY <1>1, <1>2, <1>4, <1>5, <1>7, <2>1, <2>2, <3>1
  <2>3. CASE work.kind = "slices"
    <3>1. Goto("check", "ingresses", <<>>)
      BY <1>7, <2>3 DEF Intend
    <3>2. QED
      BY <1>1, <1>2, <1>4, <1>5, <1>7, <2>1, <2>3, <3>1
  <2>4. CASE work.kind = "ingresses"
    <3>1. Goto("ready", "ingresses", <<>>)
      BY <1>7, <2>4 DEF Intend
    <3>2. QED
      BY <1>1, <1>2, <1>4, <1>5, <1>7, <2>1, <2>4, <3>1
  <2>5. QED
    BY <1>3, <2>2, <2>3, <2>4 DEF Kinds
<1>8. QED
  BY <1>6, <1>7

LEMMA StatusSays ==
  ASSUME OneTyped, Status
  PROVE  /\ UNCHANGED <<api, events, cache, seen, exp, uids>> /\ work # Idle
         /\ \/ work' = Idle
            \/ work.pc = "status" /\ Goes("check", "slices", <<>>)
         /\ proxy.exists => proxy'.exists /\ proxy'.uid = proxy.uid /\ proxy'.gen = proxy.gen
<1>1. UNCHANGED <<api, events, cache, seen, exp, uids>> /\ work # Idle
  BY DEF Status, children
<1>2. \/ proxy' = proxy
      \/ \E ready, observed : proxy' = [proxy EXCEPT !.ready = ready, !.observed = observed]
  BY DEF Status, UpdateStatus
<1>3. proxy.exists => proxy'.exists /\ proxy'.uid = proxy.uid /\ proxy'.gen = proxy.gen
  <2>1. proxy.exists => proxy \in [exists : {TRUE}, uid : 1..MaxUid, gen : 1..MaxEdits, spec : Specs,
                                   ready : BOOLEAN, observed : 0..MaxEdits]
    BY ProxyHas DEF OneTyped, TypeInv, TypeOK, Proxies
  <2>2. QED
    BY <1>2, <2>1
<1>4. work' = Idle \/ (work.pc = "status" /\ Goto("check", "slices", <<>>))
  BY DEF Status, UpdateStatus, Finish, Requeue
<1>5. "slices" \in Kinds /\ <<>> \in Seq(Ops("slices")) /\ TypeInv
  BY DEF Kinds, OneTyped
<1>6. Goto("check", "slices", <<>>) => Goes("check", "slices", <<>>)
  BY <1>1, <1>5, Going DEF Goes
<1>7. QED
  BY <1>1, <1>3, <1>4, <1>6

\* The parts of a call: where it took effect, and where it did not.
Effective(k, op) ==
  /\ Accepted(k, op) /\ Effect(k, op) /\ uids < MaxUid
  /\ Goes("intend", k, Tail(work.todo)) /\ exp' = exp

Dropped(k, op) == TakeBack(k, op) /\ UNCHANGED <<api, events, uids>> /\ work' = Idle

LEMMA CallSays ==
  ASSUME ~LostReplies, OneTyped, Call
  PROVE  /\ UNCHANGED <<proxy, cache, seen>>
         /\ work # Idle /\ work.pc = "call" /\ work.kind \in Kinds
         /\ work.todo \in Seq(Ops(work.kind)) /\ work.todo # <<>> /\ Head(work.todo) \in Ops(work.kind)
         /\ Effective(work.kind, Head(work.todo)) \/ Dropped(work.kind, Head(work.todo))
<1>1. UNCHANGED <<proxy, cache, seen>> /\ work # Idle /\ work.pc = "call" /\ uids < MaxUid
  BY DEF Call
<1>2. work.kind \in Kinds /\ work.todo \in Seq(Ops(work.kind)) /\ work.todo # <<>> /\ TypeInv
  BY <1>1, Ongoing DEF OneTyped, TypeInv, Sized
<1>3. Head(work.todo) \in Ops(work.kind) /\ Tail(work.todo) \in Seq(Ops(work.kind))
  BY <1>1, <1>2, HeadHas
<1>4. Goto("intend", work.kind, Tail(work.todo)) => Goes("intend", work.kind, Tail(work.todo))
  BY <1>1, <1>2, <1>3, Going DEF Goes
<1>5. \/ /\ Accepted(work.kind, Head(work.todo)) /\ Effect(work.kind, Head(work.todo))
         /\ Goto("intend", work.kind, Tail(work.todo)) /\ UNCHANGED exp
      \/ /\ UNCHANGED <<api, events, uids>> /\ TakeBack(work.kind, Head(work.todo)) /\ work' = Idle
  BY DEF Call, children, Requeue, Finish
<1>6. QED
  BY <1>1, <1>2, <1>3, <1>4, <1>5 DEF Effective, Dropped

\* A call that takes effect creates, changes or deletes one child.
LEMMA EffectIs ==
  ASSUME TypeInv, NEW k \in Kinds, NEW op \in Ops(k), Effective(k, op),
         op.verb = "update" => Same(op.old, op.obj) /\ op.old.rev <= op.obj.rev
  PROVE  /\ Only(k)
         /\ \E o \in Children(k) :
              /\ o.name = op.obj.name
              /\ op.verb = "create" => /\ Adds(k, o) /\ o.owner = op.obj.owner /\ o.rev = op.obj.rev
                                       /\ k = "services" => o.uid = uids + 1 /\ uids' = uids + 1
                                       /\ k # "services" => uids' = uids
              /\ op.verb = "update" => Replaces(k, op.old, o) /\ o = op.obj /\ uids' = uids
              /\ op.verb = "delete" => Removes(k, o) /\ uids' = uids
<1>1. /\ DOMAIN api = Kinds /\ DOMAIN events = Kinds /\ uids \in 0..MaxUid
      /\ api[k] \in SUBSET Children(k)
  BY DEF TypeInv, TypeOK
<1>2. Accepted(k, op) /\ Effect(k, op) /\ uids < MaxUid
  BY DEF Effective
<1>3. ASSUME NEW A, api' = [api EXCEPT ![k] = A], NEW type, NEW o, Event(k, type, o)
      PROVE  Only(k) /\ api'[k] = A /\ Tells(k, type, o)
  BY <1>1, <1>3 DEF Only, Tells, Event
<1>4. CASE op.verb = "create"
  <2> DEFINE o == IF k = "services" THEN [op.obj EXCEPT !.uid = uids + 1] ELSE op.obj
  <2>1. op.obj \in [name : Names(k), owner : 1..MaxUid, rev : 1..MaxEdits, uid : {0}]
    BY <1>4, OpHas
  <2>2. uids + 1 \in 1..MaxUid
    BY <1>1, <1>2, BoundsAssumption
  <2>3. /\ o \in Children(k) /\ o.name = op.obj.name /\ o.owner = op.obj.owner /\ o.rev = op.obj.rev
        /\ k = "services" => o.uid = uids + 1
    <3>1. CASE k = "services"
      BY <2>1, <2>2, <3>1 DEF Children
    <3>2. CASE k # "services"
      BY <2>1, <3>2 DEF Children
    <3>3. QED
      BY <3>1, <3>2
  <2>4. /\ api' = [api EXCEPT ![k] = @ \cup {o}] /\ Event(k, "Create", o)
        /\ uids' = IF k = "services" THEN uids + 1 ELSE uids
    BY <1>2, <1>4 DEF Effect
  <2>5. \A x \in api[k] : x.name # op.obj.name
    BY <1>2, <1>4 DEF Accepted, Named
  <2> HIDE DEF o
  <2>6. Only(k) /\ Adds(k, o)
    BY <1>3, <2>3, <2>4, <2>5 DEF Adds
  <2>7. QED
    BY <1>4, <2>3, <2>4, <2>6
<1>5. CASE op.verb = "update"
  <2>1. /\ api' = [api EXCEPT ![k] = (@ \ {op.old}) \cup {op.obj}] /\ Event(k, "Update", op.obj)
        /\ uids' = uids /\ op.old \in api[k]
    BY <1>2, <1>5 DEF Effect, Accepted
  <2>2. Only(k) /\ Replaces(k, op.old, op.obj)
    BY <1>3, <1>5, <2>1 DEF Replaces
  <2>3. op.obj \in Children(k)
    BY <1>5, OpHas
  <2>4. QED
    BY <1>5, <2>1, <2>2, <2>3
<1>6. CASE op.verb = "delete"
  <2>1. PICK o \in Named(k, op.obj.name) :
          /\ api' = [api EXCEPT ![k] = @ \ {o}] /\ Event(k, "Delete", o) /\ UNCHANGED uids
    BY <1>2, <1>6 DEF Effect
  <2>2. o \in api[k] /\ o.name = op.obj.name /\ o \in Children(k)
    BY <1>1 DEF Named
  <2>3. Only(k) /\ Removes(k, o)
    BY <1>3, <2>1, <2>2 DEF Removes
  <2>4. QED
    BY <1>6, <2>1, <2>2, <2>3
<1>7. QED
  BY <1>4, <1>5, <1>6, OpHas

\* The garbage collector has nothing to do with Services and Ingresses.
LEMMA GarbageSays ==
  ASSUME OneTyped, NEW k \in Kinds, CollectGarbage(k)
  PROVE  /\ k = "slices" /\ Only(k) /\ UNCHANGED <<proxy, cache, seen, exp, work, uids>>
         /\ \E o \in Children(k) : Removes(k, o) /\ \A s \in api["services"] : s.uid # o.owner
<1>1. PICK o \in Orphans(k) : /\ api' = [api EXCEPT ![k] = @ \ {o}] /\ Event(k, "Delete", o)
                              /\ UNCHANGED <<proxy, cache, seen, exp, queued, work, uids, bounds>>
  BY DEF CollectGarbage
<1>2. k = "slices"
  <2>1. SUFFICES ASSUME k \in Solo PROVE FALSE
    BY DEF Solo, Kinds
  <2>2. o \in api[k] /\ (~proxy.exists \/ proxy.uid # o.owner)
    BY <2>1 DEF Orphans, Solo
  <2>3. QED
    BY <2>1, <2>2 DEF OneTyped, Single, Ours, Followed
<1>3. /\ o \in api[k] /\ o \in Children(k) /\ \A s \in api["services"] : s.uid # o.owner
  BY <1>2 DEF Orphans, OneTyped, TypeInv, TypeOK
<1>4. Only(k) /\ Removes(k, o)
  BY <1>1, <1>3 DEF Only, Removes, Tells, Event, OneTyped, TypeInv, TypeOK
<1>5. QED
  BY <1>1, <1>2, <1>3, <1>4

-----------------------------------------------------------------------------
(* What a sync plans, as the cache shows the children.                     *)

\* The names that the spec asks for.
Goal(k) ==
  CASE k = "services" -> {work.inst.spec.svc}
    [] k = "slices" -> {SliceName(work.inst.spec.svc, i) : i \in 1..work.inst.spec.backends}
    [] k = "ingresses" -> {work.inst.spec.ing} \ {NoIngress}

\* An operation on a child of u, by its name's place in the goal.
OpFor(k, u, op) ==
  \/ /\ op.verb = "create" /\ op.obj.owner = u /\ op.obj.rev = work.inst.gen
     /\ op.obj.name \in Goal(k) /\ \A c \in Owned(k, u) : c.name # op.obj.name
  \/ /\ op.verb = "update" /\ op.old \in Owned(k, u) /\ Same(op.old, op.obj)
     /\ op.obj.rev = work.inst.gen /\ op.obj.name \in Goal(k)
  \/ op.verb = "delete" /\ op.obj \in Owned(k, u) /\ op.obj.name \notin Goal(k)

\* What is to be done with a name that is there.
Remedy(k, name) == IF name \in Goal(k) THEN "update" ELSE "delete"

Has(todo, verb, name) == \E i \in 1..Len(todo) : todo[i].verb = verb /\ todo[i].obj.name = name

\* The list has what is to be done about the names in N, and no more.
PlanOf(k, u, N, todo) ==
  /\ \A i \in 1..Len(todo) : todo[i].obj.name \in N /\ OpFor(k, u, todo[i])
  /\ \A c \in Owned(k, u) : c.name \in N =>
       \/ c.name \in Goal(k) /\ c.rev = work.inst.gen
       \/ Has(todo, Remedy(k, c.name), c.name)
  /\ \A name \in Goal(k) \cap N :
       (\E c \in Owned(k, u) : c.name = name) \/ Has(todo, "create", name)
  /\ \A i, j \in 1..Len(todo) :
       todo[i].verb # "update" /\ todo[j].verb # "update" /\ todo[i].obj.name = todo[j].obj.name => i = j

LEMMA PlanOfNothing ==
  ASSUME NEW k, NEW u
  PROVE  PlanOf(k, u, {}, <<>>)
<1>1. Len(<<>>) = 0
  OBVIOUS
<1>2. QED
  BY <1>1 DEF PlanOf

\* Plans for different names can be joined.
LEMMA PlanJoins ==
  ASSUME NEW S, NEW s \in Seq(S), NEW t \in Seq(S), NEW k, NEW u, NEW N, NEW M, N \cap M = {},
         PlanOf(k, u, N, s), PlanOf(k, u, M, t)
  PROVE  PlanOf(k, u, N \cup M, s \o t)
<1> DEFINE r == s \o t
<1>1. /\ Len(r) = Len(s) + Len(t) /\ Len(s) \in Nat /\ Len(t) \in Nat
      /\ \A i \in 1..Len(s) : r[i] = s[i]
      /\ \A i \in 1..Len(t) : r[Len(s) + i] = t[i]
      /\ \A i \in 1..Len(r) : i > Len(s) => i - Len(s) \in 1..Len(t)
  BY Joining
<1> HIDE DEF r
<1>2. ASSUME NEW i \in 1..Len(r)
      PROVE  \/ i \in 1..Len(s) /\ r[i] = s[i]
             \/ i - Len(s) \in 1..Len(t) /\ r[i] = t[i - Len(s)] /\ i > Len(s)
  <2>1. CASE i > Len(s)
    <3>1. i - Len(s) \in 1..Len(t) /\ Len(s) + (i - Len(s)) = i
      BY <1>1, <2>1
    <3>2. QED
      BY <1>1, <2>1, <3>1
  <2>2. CASE ~(i > Len(s))
    BY <1>1, <2>2
  <2>3. QED
    BY <2>1, <2>2
<1>3. \A i \in 1..Len(s) : i \in 1..Len(r)
  BY <1>1
<1>4. \A i \in 1..Len(t) : Len(s) + i \in 1..Len(r)
  BY <1>1
<1>5. \A verb, name : Has(s, verb, name) \/ Has(t, verb, name) => Has(r, verb, name)
  BY <1>1, <1>3, <1>4 DEF Has
<1>6. \A i \in 1..Len(r) : r[i].obj.name \in N \cup M /\ OpFor(k, u, r[i])
  BY <1>2 DEF PlanOf
<1>7. \A c \in Owned(k, u) : c.name \in N \cup M =>
        (c.name \in Goal(k) /\ c.rev = work.inst.gen) \/ Has(r, Remedy(k, c.name), c.name)
  BY <1>5 DEF PlanOf
<1>8. \A name \in Goal(k) \cap (N \cup M) :
        (\E c \in Owned(k, u) : c.name = name) \/ Has(r, "create", name)
  BY <1>5 DEF PlanOf
<1>9. ASSUME NEW i \in 1..Len(r), NEW j \in 1..Len(r), r[i].verb # "update", r[j].verb # "update",
             r[i].obj.name = r[j].obj.name
      PROVE  i = j
  <2>1. (\A m \in 1..Len(s) : s[m].obj.name \in N) /\ (\A m \in 1..Len(t) : t[m].obj.name \in M)
    BY DEF PlanOf
  <2>2. CASE i \in 1..Len(s) /\ r[i] = s[i] /\ j \in 1..Len(s) /\ r[j] = s[j]
    BY <1>9, <2>2 DEF PlanOf
  <2>3. CASE /\ i - Len(s) \in 1..Len(t) /\ r[i] = t[i - Len(s)]
             /\ j - Len(s) \in 1..Len(t) /\ r[j] = t[j - Len(s)]
    <3>1. i - Len(s) = j - Len(s)
      BY <1>9, <2>3 DEF PlanOf
    <3>2. QED
      BY <1>1, <3>1
  <2>4. QED
    BY <1>2, <1>9, <2>1, <2>2, <2>3
<1>10. QED
  BY <1>6, <1>7, <1>8, <1>9 DEF PlanOf, r

\* The object of the name is created, or updated where it is out of date.
LEMMA EnsurePlans ==
  ASSUME TypeInv, work # Idle, NEW k \in Kinds, NEW u \in 1..MaxUid,
         NEW name \in Names(k), name \in Goal(k)
  PROVE  /\ Ensure(Owned(k, u), name, u) \in Seq(Ops(k))
         /\ PlanOf(k, u, {name}, Ensure(Owned(k, u), name, u))
<1> DEFINE O == Owned(k, u)
           active == {o \in O : o.name = name}
           gen == work.inst.gen
           create == Create(Child(name, u, gen, 0))
           stale == {x \in active : x.rev # gen}
           U == {Update(o, gen) : o \in stale}
           E == Ensure(O, name, u)
<1>1. O \in SUBSET Children(k) /\ IsFiniteSet(O) /\ gen \in 1..MaxEdits
  BY OwnedAre, Ongoing
<1>2. E \in Seq(Ops(k))
  <2> HIDE DEF O
  <2> QED
    BY <1>1, EnsureIs
<1>3. E = IF active = {} THEN <<create>> ELSE SetToSeq(U)
  BY DEF Ensure
<1>4. CASE active = {}
  <2>1. E = <<create>> /\ Len(E) = 1 /\ E[1] = create
    BY <1>3, <1>4
  <2>2. create.verb = "create" /\ create.obj.name = name /\ create.obj.owner = u /\ create.obj.rev = gen
    BY DEF Create, Child
  <2>3. \A c \in O : c.name # name
    BY <1>4
  <2> HIDE DEF O, E, create, gen, active
  <2>4. OpFor(k, u, create)
    BY <2>2, <2>3 DEF OpFor, O, gen
  <2>5. \A i \in 1..Len(E) : i = 1
    BY <2>1
  <2>6. Has(E, "create", name)
    BY <2>1, <2>2 DEF Has
  <2>7. PlanOf(k, u, {name}, E)
    <3>1. \A i \in 1..Len(E) : E[i].obj.name \in {name} /\ OpFor(k, u, E[i])
      BY <2>1, <2>2, <2>4, <2>5
    <3>2. QED
      BY <2>3, <2>5, <2>6, <3>1 DEF PlanOf, O
  <2>8. QED
    BY <1>2, <2>7 DEF E, O
<1>5. CASE active # {}
  <2>1. E = SetToSeq(U)
    BY <1>3, <1>5
  <2>2. IsFiniteSet(U)
    <3> DEFINE g == [x \in stale |-> Update(x, gen)]
    <3>1. IsFiniteSet(stale)
      BY <1>1, FS_Subset
    <3>2. g \in Surjection(stale, U)
      BY DEF Surjection
    <3> HIDE DEF stale, U
    <3>3. QED
      BY <3>1, <3>2, FS_Surjection
  <2>3. \A o \in stale : /\ Update(o, gen).verb = "update" /\ Update(o, gen).old = o
                         /\ Same(o, Update(o, gen).obj) /\ Update(o, gen).obj.rev = gen
                         /\ Update(o, gen).obj.name = name /\ o \in O
    BY <1>1 DEF Update, Children, Same
  <2>4. /\ \A i \in 1..Len(E) : \E o \in stale : E[i] = Update(o, gen)
        /\ \A o \in stale : \E i \in 1..Len(E) : E[i] = Update(o, gen)
    <3> HIDE DEF U
    <3>1. /\ SetToSeq(U) \in Seq(U) /\ Len(SetToSeq(U)) = Cardinality(U) /\ Cardinality(U) \in Nat
          /\ \A x \in U : \E i \in 1..Cardinality(U) : SetToSeq(U)[i] = x
      BY <2>2, Listing
    <3>2. \A i \in 1..Len(SetToSeq(U)) : SetToSeq(U)[i] \in U
      BY <3>1
    <3> HIDE DEF E, stale
    <3>3. \A o \in stale : Update(o, gen) \in U
      BY DEF U
    <3>4. \A x \in U : \E o \in stale : x = Update(o, gen)
      BY DEF U
    <3>5. QED
      BY <2>1, <3>1, <3>2, <3>3, <3>4
  <2>5. \A c \in O : c.name = name => c.rev = gen \/ c \in stale
    OBVIOUS
  <2>6. \E c \in O : c.name = name
    BY <1>5
  <2> HIDE DEF O, E, gen, active, stale, U
  <2>7. \A i \in 1..Len(E) : E[i].obj.name = name /\ E[i].verb = "update" /\ OpFor(k, u, E[i])
    BY <2>3, <2>4 DEF OpFor, O, gen
  <2>8. \A c \in stale : Has(E, "update", name)
    BY <2>3, <2>4 DEF Has
  <2>9. PlanOf(k, u, {name}, E)
    BY <2>5, <2>6, <2>7, <2>8 DEF PlanOf, O, gen, Remedy
  <2>10. QED
    BY <1>2, <2>9 DEF E, O
<1>6. QED
  BY <1>4, <1>5

\* What is owned and not in the goal is deleted.
LEMMA DeletionsPlan ==
  ASSUME TypeInv, work # Idle, NEW k \in Kinds, NEW u, Unique(cache[k]),
         NEW O, \A o : o \in O <=> o \in Owned(k, u) /\ o.name \notin Goal(k)
  PROVE  /\ Deletions(O) \in Seq(Ops(k))
         /\ PlanOf(k, u, Names(k) \ Goal(k), Deletions(O))
<1>1. Owned(k, u) \in SUBSET Children(k) /\ IsFiniteSet(Owned(k, u))
  BY OwnedAre
<1>2. O \in SUBSET Children(k) /\ IsFiniteSet(O)
  <2>1. O \subseteq Owned(k, u)
    OBVIOUS
  <2>2. QED
    BY <1>1, <2>1, FS_Subset
<1>3. PICK D : D = Deletions(O)
  OBVIOUS
<1>4. /\ D \in Seq(Ops(k))
      /\ \A i \in 1..Len(D) : \E o \in O : D[i] = Delete(o)
      /\ \A o \in O : \E i \in 1..Len(D) : D[i] = Delete(o)
      /\ \A i, j \in 1..Len(D) : D[i].obj = D[j].obj => i = j
  <2>1. /\ Deletions(O) \in Seq(Ops(k))
        /\ \A i \in 1..Len(Deletions(O)) : \E o \in O : Deletions(O)[i] = Delete(o)
        /\ \A o \in O : \E i \in 1..Len(Deletions(O)) : Deletions(O)[i] = Delete(o)
        /\ \A i, j \in 1..Len(Deletions(O)) : Deletions(O)[i].obj = Deletions(O)[j].obj => i = j
    BY <1>2, DeletionsAre
  <2>2. QED
    BY <1>3, <2>1
<1>5. \A o \in O : /\ Delete(o).verb = "delete" /\ Delete(o).obj = o
                   /\ o.name \in Names(k) \ Goal(k) /\ o \in Owned(k, u) /\ o \in cache[k]
  BY <1>2 DEF Delete, Children, Owned
<1>6. \A i \in 1..Len(D) : /\ D[i].verb = "delete" /\ D[i].obj \in cache[k]
                           /\ D[i].obj.name \in Names(k) \ Goal(k) /\ OpFor(k, u, D[i])
  BY <1>4, <1>5 DEF OpFor
<1>7. \A i, j \in 1..Len(D) : D[i].obj.name = D[j].obj.name => i = j
  BY <1>4, <1>6 DEF Unique
<1>8. ASSUME NEW o \in O PROVE Has(D, "delete", o.name)
  <2>1. PICK i \in 1..Len(D) : D[i] = Delete(o)
    BY <1>4
  <2>2. D[i].verb = "delete" /\ D[i].obj.name = o.name
    BY <1>5, <2>1
  <2>3. QED
    BY <2>2 DEF Has
<1>9. \A c \in Owned(k, u) : c.name \in Names(k) \ Goal(k) => Has(D, Remedy(k, c.name), c.name)
  BY <1>8 DEF Remedy
<1>10. QED
  BY <1>3, <1>4, <1>6, <1>7, <1>9 DEF PlanOf

\* seqs are the plans for different names, those in N, which are in the goal.
PlanForEach(k, u, n, desired, seqs, N) ==
  /\ \A i \in 1..n : desired[i] \in Names(k) /\ desired[i] \in Goal(k)
  /\ \A i, j \in 1..n : desired[i] = desired[j] => i = j
  /\ seqs \in [1..n -> Seq(Ops(k))]
  /\ \A i \in 1..n : seqs[i] = Ensure(Owned(k, u), desired[i], u)
  /\ \A x : x \in N <=> \E i \in 1..n : x = desired[i]

\* One after another they are the plan for all of them.
LEMMA FlatPlans ==
  ASSUME TypeInv, work # Idle, NEW k \in Kinds, NEW u \in 1..MaxUid, NEW n \in Nat,
         NEW desired, NEW seqs, NEW N, PlanForEach(k, u, n, desired, seqs, N)
  PROVE  FlattenSeq(seqs) \in Seq(Ops(k)) /\ PlanOf(k, u, N, FlattenSeq(seqs))
<1>0. /\ \A i \in 1..n : desired[i] \in Names(k) /\ desired[i] \in Goal(k)
      /\ \A i, j \in 1..n : desired[i] = desired[j] => i = j
      /\ seqs \in [1..n -> Seq(Ops(k))]
      /\ \A i \in 1..n : seqs[i] = Ensure(Owned(k, u), desired[i], u)
      /\ \A x : x \in N <=> \E i \in 1..n : x = desired[i]
  BY DEF PlanForEach
<1> DEFINE Upto(m) == {desired[i] : i \in 1..m}
           S == Ops(k)
           G == {x \in (0..n) \X Seq(S) : PlanOf(k, u, Upto(x[1]), x[2])}
<1>1. \A i \in 1..n : /\ desired[i] \in Names(k) /\ desired[i] \in Goal(k)
                      /\ Ensure(Owned(k, u), desired[i], u) \in Seq(S)
                      /\ PlanOf(k, u, {desired[i]}, Ensure(Owned(k, u), desired[i], u))
  BY <1>0, EnsurePlans
<1>2. \A m, s : <<m, s>> \in G <=> m \in 0..n /\ s \in Seq(S) /\ PlanOf(k, u, Upto(m), s)
  <2> HIDE DEF S, Upto
  <2> QED
    OBVIOUS
<1>3. Upto(0) = {}
  OBVIOUS
<1>4. \A m \in 0..(n - 1) : Upto(m + 1) = Upto(m) \cup {desired[m + 1]} /\ Upto(m) \cap {desired[m + 1]} = {}
  <2>1. SUFFICES ASSUME NEW m \in 0..(n - 1)
                 PROVE  Upto(m + 1) = Upto(m) \cup {desired[m + 1]} /\ desired[m + 1] \notin Upto(m)
    OBVIOUS
  <2>2. 1..(m + 1) = (1..m) \cup {m + 1} /\ m + 1 \in 1..n /\ m + 1 \notin 1..m /\ 1..m \subseteq 1..n
    OBVIOUS
  <2>3. QED
    BY <1>0, <2>2
<1>5. seqs \in [1..n -> Seq(S)] /\ \A i \in 1..n : seqs[i] = Ensure(Owned(k, u), desired[i], u)
  BY <1>0 DEF S
<1> HIDE DEF Upto, S, G
<1>6. \A s \in Seq(S) : Len(s) = 0 => <<0, s>> \in G
  <2>1. SUFFICES ASSUME NEW s \in Seq(S), Len(s) = 0 PROVE <<0, s>> \in G
    OBVIOUS
  <2>2. s = <<>> /\ 0 \in 0..n
    BY <2>1
  <2>3. PlanOf(k, u, {}, s)
    BY <2>2, PlanOfNothing
  <2>4. QED
    BY <1>2, <1>3, <2>2, <2>3
<1>7. ASSUME NEW m \in 0..(n - 1), NEW s \in Seq(S), <<m, s>> \in G
      PROVE  <<m + 1, s \o seqs[m + 1]>> \in G
  <2>1. m + 1 \in 1..n /\ m + 1 \in 0..n
    BY <1>7
  <2>2. seqs[m + 1] \in Seq(S) /\ PlanOf(k, u, {desired[m + 1]}, seqs[m + 1])
    BY <1>1, <1>5, <2>1
  <2>3. PlanOf(k, u, Upto(m), s) /\ Upto(m) \cap {desired[m + 1]} = {}
    BY <1>2, <1>4, <1>7
  <2>4. PlanOf(k, u, Upto(m) \cup {desired[m + 1]}, s \o seqs[m + 1])
    BY <1>7, <2>2, <2>3, PlanJoins
  <2>5. s \o seqs[m + 1] \in Seq(S)
    BY <1>7, <2>2
  <2>6. QED
    BY <1>2, <1>4, <1>7, <2>1, <2>4, <2>5
<1>8. <<n, FlattenSeq(seqs)>> \in G /\ FlattenSeq(seqs) \in Seq(S)
  BY <1>5, <1>6, <1>7, FlatteningKeeps
<1>9. Upto(n) = N
  BY <1>0 DEF Upto
<1>10. QED
  BY <1>2, <1>8, <1>9 DEF S

\* The plan for a Service or an Ingress.
LEMMA ActivatedPlan ==
  ASSUME TypeInv, work # Idle, NEW k \in Solo, Unique(cache[k]),
         NEW name, name = IF k = "services" THEN work.inst.spec.svc ELSE work.inst.spec.ing
  PROVE  /\ SyncActivated(k, name) \in Seq(Ops(k))
         /\ PlanOf(k, work.inst.uid, Names(k), SyncActivated(k, name))
<1>1. k \in Kinds /\ work.inst.uid \in 1..MaxUid /\ work.inst.spec \in Specs
  BY SoloKinds, Ongoing
<1>2. Goal(k) = {name} \ {NoIngress} /\ Goal(k) \subseteq Names(k)
  BY <1>1, SpecsAssumption DEF Goal, Solo, Names
<1>3. PICK u \in 1..MaxUid : u = work.inst.uid
  BY <1>1
<1>4. PICK O : O = {o \in Owned(k, u) : o.name # name}
  OBVIOUS
<1>5. PICK E : E = IF name = NoIngress THEN <<>> ELSE Ensure(Owned(k, u), name, u)
  OBVIOUS
<1>6. SyncActivated(k, name) = Deletions(O) \o E
  BY <1>3, <1>4, <1>5 DEF SyncActivated
<1>7. NoIngress \notin Names(k)
  BY SpecsAssumption DEF Solo, Names
<1>8. \A o \in Owned(k, u) : o.name \in Names(k)
  BY <1>1, OwnedAre DEF Children
<1>9. \A o : o \in O <=> o \in Owned(k, u) /\ o.name \notin Goal(k)
  BY <1>2, <1>4, <1>7, <1>8
<1>10. Deletions(O) \in Seq(Ops(k)) /\ PlanOf(k, u, Names(k) \ Goal(k), Deletions(O))
  BY <1>1, <1>9, DeletionsPlan
<1>11. E \in Seq(Ops(k)) /\ PlanOf(k, u, Goal(k), E)
  <2>1. CASE name = NoIngress
    <3>1. E = <<>> /\ Goal(k) = {} /\ <<>> \in Seq(Ops(k))
      BY <1>2, <1>5, <2>1
    <3>2. QED
      BY <3>1, PlanOfNothing
  <2>2. CASE name # NoIngress
    <3>1. E = Ensure(Owned(k, u), name, u) /\ Goal(k) = {name} /\ name \in Names(k) /\ name \in Goal(k)
      BY <1>2, <1>5, <2>2
    <3>2. QED
      BY <1>1, <3>1, EnsurePlans
  <2>3. QED
    BY <2>1, <2>2
<1>12. PlanOf(k, u, (Names(k) \ Goal(k)) \cup Goal(k), Deletions(O) \o E) /\ Deletions(O) \o E \in Seq(Ops(k))
  BY <1>10, <1>11, PlanJoins
<1>13. (Names(k) \ Goal(k)) \cup Goal(k) = Names(k)
  BY <1>2
<1>14. QED
  BY <1>3, <1>6, <1>12, <1>13

\* The plan for the EndpointSlices of a Service.
LEMMA SlicesPlan ==
  ASSUME TypeInv, work # Idle, Unique(cache["slices"]),
         NEW s \in cache["services"], s.name = work.inst.spec.svc
  PROVE  /\ SyncEndpointSlices(s) \in Seq(Ops("slices"))
         /\ PlanOf("slices", s.uid, Names("slices"), SyncEndpointSlices(s))
<1>1. PICK k \in Kinds : k = "slices"
  BY DEF Kinds
<1>2. PICK n \in Nat : n = work.inst.spec.backends /\ work.inst.spec \in Specs
  BY Ongoing, SpecsAssumption
<1>3. PICK u \in 1..MaxUid : u = s.uid
  BY DEF TypeInv, TypeOK, Kinds, Children
<1>4. PICK desired : desired = [i \in 1..n |-> SliceName(s.name, i)]
  OBVIOUS
<1>5. Goal(k) = {SliceName(s.name, i) : i \in 1..n}
  BY <1>1, <1>2 DEF Goal
<1>6. Goal(k) \subseteq Names(k)
  BY <1>1, <1>2, <1>5 DEF Names
<1>7. desired \in [1..n -> Names(k) \cap Goal(k)]
  <2>1. \A i \in 1..n : SliceName(s.name, i) \in Names(k) \cap Goal(k)
    BY <1>5, <1>6
  <2>2. QED
    BY <1>4, <2>1
<1>8. {desired[i] : i \in 1..n} = Goal(k) /\ \A i \in 1..n : desired[i] = SliceName(s.name, i)
  BY <1>4, <1>5
<1>9. \A i, j \in 1..n : desired[i] = desired[j] => i = j
  BY <1>8 DEF SliceName
<1>10. Len(desired) = n /\ Range(desired) = Goal(k)
  <2>1. DOMAIN desired = 1..n
    BY <1>7
  <2>2. Range(desired) = {desired[i] : i \in 1..n}
    BY <2>1 DEF Range
  <2>3. Len(desired) = n
    BY <1>2, <1>7
  <2>4. QED
    BY <1>8, <2>2, <2>3
<1>11. PICK seqs : seqs = [i \in 1..n |-> Ensure(Owned(k, u), desired[i], u)]
  OBVIOUS
<1>12. PICK O : O = {o \in Owned(k, u) : o.name \notin Goal(k)}
  OBVIOUS
<1>13. SyncEndpointSlices(s) = FlattenSeq(seqs) \o Deletions(O)
  <2>1. SyncEndpointSlices(s) =
          FlattenSeq([i \in 1..Len(desired) |-> Ensure(Owned("slices", s.uid), desired[i], s.uid)])
            \o Deletions({o \in Owned("slices", s.uid) : o.name \notin Range(desired)})
    BY <1>2, <1>4 DEF SyncEndpointSlices
  <2>2. QED
    BY <1>1, <1>3, <1>10, <1>11, <1>12, <2>1
<1>14. FlattenSeq(seqs) \in Seq(Ops(k)) /\ PlanOf(k, u, Goal(k), FlattenSeq(seqs))
  <2>1. \A i \in 1..n : /\ seqs[i] = Ensure(Owned(k, u), desired[i], u)
                        /\ Ensure(Owned(k, u), desired[i], u) \in Seq(Ops(k))
    <3>1. \A i \in 1..n : desired[i] \in Names(k) /\ desired[i] \in Goal(k)
      BY <1>7
    <3>2. QED
      BY <1>11, <3>1, EnsurePlans
  <2>2. seqs \in [1..n -> Seq(Ops(k))]
    BY <1>11, <2>1
  <2>3. \A i \in 1..n : desired[i] \in Names(k) /\ desired[i] \in Goal(k)
    BY <1>7
  <2>4. \A x : x \in Goal(k) <=> \E i \in 1..n : x = desired[i]
    BY <1>8
  <2>5. \A i \in 1..n : seqs[i] = Ensure(Owned(k, u), desired[i], u)
    BY <2>1
  <2>6. PlanForEach(k, u, n, desired, seqs, Goal(k))
    BY <1>9, <2>2, <2>3, <2>4, <2>5 DEF PlanForEach
  <2>7. QED
    BY <2>6, FlatPlans
<1>15. \A o : o \in O <=> o \in Owned(k, u) /\ o.name \notin Goal(k)
  BY <1>12
<1>16. Deletions(O) \in Seq(Ops(k)) /\ PlanOf(k, u, Names(k) \ Goal(k), Deletions(O))
  BY <1>1, <1>15, DeletionsPlan
<1>17. /\ PlanOf(k, u, Goal(k) \cup (Names(k) \ Goal(k)), FlattenSeq(seqs) \o Deletions(O))
       /\ FlattenSeq(seqs) \o Deletions(O) \in Seq(Ops(k))
  BY <1>14, <1>16, PlanJoins
<1>18. Goal(k) \cup (Names(k) \ Goal(k)) = Names(k)
  BY <1>6
<1>19. QED
  BY <1>1, <1>3, <1>13, <1>17, <1>18

-----------------------------------------------------------------------------
(* What holds until users delete the proxy.                                *)

\* What children of this uid of kind k belong to is there.
Live(k, u) ==
  IF k = "slices" THEN \E s \in api["services"] : s.uid = u ELSE seen.exists /\ u = seen.uid

Tracing == \A k \in Kinds : Traced(k)

\* No child and no copy of the proxy is of a later generation than the next
\* one on the way back to the proxy.
Aged ==
  /\ seen.exists => seen.gen <= proxy.gen
  /\ work # Idle => work.inst.gen <= seen.gen
  /\ \A k \in Kinds : \A o \in api[k] :
       seen.exists /\ o.rev <= seen.gen /\ (work # Idle => o.rev <= work.inst.gen)

\* A Service created from now on has no EndpointSlices yet.
Dated ==
  /\ \A s \in api["services"] : s.uid <= uids
  /\ \A o \in api["slices"] : o.owner <= uids
  /\ \A i \in 1..Len(events["slices"]) : events["slices"][i].obj.owner <= uids

\* The creations of EndpointSlices on their way are expected, and so are the
\* deletions but those by the garbage collector.
Heard ==
  /\ \A i \in Telling("slices") : events["slices"][i].type = "Create" =>
       events["slices"][i].obj.name \in exp["slices"]["creations"]
  /\ \A i, j \in Telling("slices") :
       events["slices"][i].type = "Create" /\ events["slices"][j].type = "Create"
         /\ events["slices"][i].obj.name = events["slices"][j].obj.name => i = j
  /\ \A j \in Telling("slices") :
       events["slices"][j].type = "Delete" /\ Live("slices", events["slices"][j].obj.owner) =>
         /\ events["slices"][j].obj.name \in exp["slices"]["deletions"]
         /\ \A i \in Telling("slices") : i < j => events["slices"][i].obj.name # events["slices"][j].obj.name

\* What is left of the plan does not repeat what events on their way tell.
Clear(todo) ==
  /\ \A i \in 1..Len(todo), j \in Telling("slices") :
       events["slices"][j].obj.name = todo[i].obj.name =>
         todo[i].verb # "delete" /\ (todo[i].verb = "create" => events["slices"][j].type # "Create")
  /\ \A i \in 1..Len(todo) : todo[i].verb = "delete" =>
       \E o \in api["slices"] : o.name = todo[i].obj.name /\ Live("slices", o.owner)
  /\ \A i, j \in 1..Len(todo) :
       todo[i].verb # "update" /\ todo[j].verb # "update" /\ todo[i].obj.name = todo[j].obj.name => i = j

Cleared ==
  work # Idle /\ work.kind = "slices" =>
    Clear(work.todo) /\ (work.pc = "sync" => SatisfiedExpectations(exp["slices"]))

\* An operation on a child of u that leads to the goal.
Apt(k, u, op) ==
  /\ op.obj.owner = u /\ (op.verb = "delete" <=> op.obj.name \notin Goal(k))
  /\ op.verb # "delete" => op.obj.rev = work.inst.gen
  /\ op.verb = "update" => Same(op.old, op.obj)

\* The plan leads from what there is to the goal.
Covers(k, u, todo) ==
  /\ \A o \in api[k] : o.owner = u =>
       (o.name \in Goal(k) /\ o.rev = work.inst.gen) \/ Has(todo, Remedy(k, o.name), o.name)
  /\ \A n \in Goal(k) : (\E o \in api[k] : o.owner = u /\ o.name = n) \/ Has(todo, "create", n)
  /\ \A i \in 1..Len(todo) : Apt(k, u, todo[i])

Progress ==
  work # Idle /\ work.pc \in {"intend", "call"} =>
    \A u \in 1..MaxUid : Live(work.kind, u) => Covers(work.kind, u, work.todo)

\* The children of u are those that are asked for.
Part(k, u) ==
  /\ \A o \in api[k] : o.owner = u => o.name \in Goal(k) /\ o.rev = work.inst.gen
  /\ \A n \in Goal(k) : \E o \in api[k] : o.owner = u /\ o.name = n

\* The kinds that the reconcile has done are as they should be.
Stages ==
  work # Idle =>
    /\ work.pc = "status" \/ work.kind # "services" => Part("services", seen.uid)
    /\ work.kind = "ingresses" => \A u \in 1..MaxUid : Live("slices", u) => Part("slices", u)
    /\ work.pc = "ready" => work.kind = "ingresses" /\ Part("ingresses", seen.uid)
    /\ work.pc = "status" => work.kind = "services"

ReadyAll == Tracing /\ Aged /\ Dated /\ Heard /\ Cleared /\ Announced("slices") /\ Progress /\ Stages

\* Where the children of u stay as they are, what was said of them holds.
LEMMA CoversFrame ==
  ASSUME NEW k \in Kinds, NEW u, \A o : o.owner = u => (o \in api'[k] <=> o \in api[k]),
         work'.inst = work.inst
  PROVE  /\ Part(k, u) => Part(k, u)'
         /\ \A todo : Covers(k, u, todo) => Covers(k, u, todo)'
<1>1. Goal(k)' = Goal(k)
  BY DEF Goal
<1>2. Part(k, u) => Part(k, u)'
  BY <1>1 DEF Part
<1>3. ASSUME NEW todo, Covers(k, u, todo) PROVE Covers(k, u, todo)'
  <2>1. \A n : Remedy(k, n)' = Remedy(k, n)
    BY <1>1 DEF Remedy
  <2>2. \A i \in 1..Len(todo) : Apt(k, u, todo[i])'
    BY <1>1, <1>3 DEF Covers, Apt
  <2>3. \A o \in api'[k] : o.owner = u =>
          (o.name \in Goal(k)' /\ o.rev = work'.inst.gen) \/ Has(todo, Remedy(k, o.name)', o.name)
    BY <1>1, <1>3, <2>1 DEF Covers
  <2>4. \A n \in Goal(k)' : (\E o \in api'[k] : o.owner = u /\ o.name = n) \/ Has(todo, "create", n)
    BY <1>1, <1>3 DEF Covers
  <2>5. QED
    BY <2>2, <2>3, <2>4 DEF Covers, Has
<1>4. QED
  BY <1>2, <1>3

\* A plan that is carried out has led to the goal.
LEMMA CoversDone ==
  ASSUME NEW k, NEW u, Covers(k, u, <<>>) PROVE Part(k, u)
<1>1. Len(<<>>) = 0
  OBVIOUS
<1>2. \A verb, n : ~Has(<<>>, verb, n)
  BY <1>1 DEF Has
<1>3. QED
  BY <1>2 DEF Covers, Part

\* Names, owners, generations and uids of what there is.
LEMMA Numbers ==
  ASSUME TypeInv
  PROVE  /\ uids \in Nat /\ uids <= MaxUid
         /\ \A k \in Kinds : \A o \in api[k] : /\ o \in Children(k) /\ o.name \in Names(k)
                                             /\ o.owner \in 1..MaxUid /\ o.rev \in Nat /\ o.uid \in Nat
         /\ \A k \in Kinds : \A o \in cache[k] : /\ o \in Children(k) /\ o.name \in Names(k)
                                               /\ o.owner \in 1..MaxUid /\ o.rev \in Nat /\ o.uid \in Nat
         /\ \A k \in Kinds : \A i \in 1..Len(events[k]) : events[k][i] \in Events(k)
         /\ \A s \in api["services"] \cup cache["services"] : s.uid \in 1..MaxUid
<1>1. \A k \in Kinds : \A o \in Children(k) : /\ o.name \in Names(k) /\ o.owner \in 1..MaxUid /\ o.rev \in Nat
                                         /\ o.uid \in Nat /\ (k = "services" => o.uid \in 1..MaxUid)
  BY BoundsAssumption DEF Children
<1>2. "services" \in Kinds /\ uids \in 0..MaxUid
  BY DEF Kinds, TypeInv, TypeOK
<1>3. \A k \in Kinds : /\ api[k] \in SUBSET Children(k) /\ cache[k] \in SUBSET Children(k)
                      /\ events[k] \in Seq(Events(k))
  BY DEF TypeInv, TypeOK
<1>4. \A k \in Kinds : \A i \in 1..Len(events[k]) : events[k][i] \in Events(k)
  BY <1>3
<1>5. uids \in Nat /\ uids <= MaxUid
  BY <1>2, BoundsAssumption
<1>6. QED
  BY <1>1, <1>2, <1>3, <1>4, <1>5

\* Steps that leave Services, EndpointSlices and what is told of the latter.
LEMMA HeardFrame ==
  ASSUME TypeInv, Dated, Heard, api'["services"] = api["services"], api'["slices"] = api["slices"],
         events'["slices"] = events["slices"], uids' \in {uids, uids + 1},
         \A act \in Actions : exp["slices"][act] \subseteq exp'["slices"][act]
  PROVE  Dated' /\ Heard'
<1>1. "services" \in Kinds /\ "slices" \in Kinds
  BY DEF Kinds
<1>2. Dated'
  <2>1. /\ \A s \in api["services"] : s.uid \in Nat
        /\ \A o \in api["slices"] : o.owner \in Nat /\ uids \in Nat
        /\ \A i \in 1..Len(events["slices"]) : events["slices"][i].obj.owner \in Nat
    BY <1>1, Numbers DEF Events, Children
  <2>2. \A n \in Nat : n <= uids => n <= uids'
    BY <1>1, Numbers
  <2>3. QED
    BY <2>1, <2>2 DEF Dated
<1>3. Telling("slices")' = Telling("slices")
  BY DEF Telling
<1>4. \A u : Live("slices", u)' <=> Live("slices", u)
  BY DEF Live
<1>5. "creations" \in Actions /\ "deletions" \in Actions
  BY DEF Actions
<1>6. Heard'
  BY <1>3, <1>4, <1>5 DEF Heard
<1>7. QED
  BY <1>2, <1>6

\* Steps that leave the children alone, and the reconcile too or drop it.
LEMMA Still ==
  ASSUME OneTyped, ReadyAll, api' = api, events'["slices"] = events["slices"],
         exp'["slices"] = exp["slices"], uids' \in {uids, uids + 1}, work' = work \/ work' = Idle,
         seen.exists => seen'.exists /\ seen'.uid = seen.uid
  PROVE  Dated' /\ Heard' /\ Cleared' /\ Announced("slices")' /\ Progress' /\ Stages'
<1>1. Dated' /\ Heard'
  BY HeardFrame DEF ReadyAll, OneTyped
<1>2. CASE work' = Idle
  BY <1>1, <1>2 DEF Cleared, Announced, Progress, Stages
<1>3. CASE work' = work /\ work # Idle
  <2>1. seen.exists /\ seen'.exists /\ seen'.uid = seen.uid /\ work.kind \in Kinds /\ seen.uid \in 1..MaxUid
    BY <1>3, Ongoing DEF OneTyped, Followed
  <2>2. \A k \in Kinds : \A u : Live(k, u)' <=> Live(k, u)
    BY <2>1 DEF Live
  <2>3. \A k \in Kinds : \A u : /\ Part(k, u) => Part(k, u)'
                            /\ \A todo : Covers(k, u, todo) => Covers(k, u, todo)'
    BY <1>3, CoversFrame
  <2>4. Telling("slices")' = Telling("slices")
    BY DEF Telling
  <2>5. "slices" \in Kinds /\ "services" \in Kinds /\ "ingresses" \in Kinds
    BY DEF Kinds
  <2>6. Clear(work.todo) => Clear(work.todo)'
    BY <1>3, <2>2, <2>4, <2>5 DEF Clear
  <2>7. Cleared'
    BY <1>3, <2>6 DEF ReadyAll, Cleared
  <2>8. Announced("slices")'
    BY <1>3 DEF ReadyAll, Announced
  <2>9. Progress'
    <3>1. SUFFICES ASSUME work.pc \in {"intend", "call"}, NEW u \in 1..MaxUid, Live(work.kind, u)'
                   PROVE  Covers(work.kind, u, work.todo)'
      BY <1>3 DEF Progress
    <3>2. PICK k \in Kinds : k = work.kind
      BY <2>1
    <3>3. PICK todo : todo = work.todo
      OBVIOUS
    <3>4. Live(k, u)
      BY <1>3, <2>2, <3>1, <3>2
    <3>5. Covers(k, u, todo)
      BY <1>3, <3>1, <3>2, <3>3, <3>4 DEF ReadyAll, Progress
    <3>6. Covers(k, u, todo)'
      BY <2>3, <3>5
    <3>7. QED
      BY <1>3, <3>2, <3>3, <3>6
  <2>10. Stages'
    <3>1. Stages
      BY DEF ReadyAll
    <3>2. PICK u : u = seen.uid
      OBVIOUS
    <3>3. u = seen'.uid
      BY <2>1, <3>2
    <3>4. /\ work.pc = "status" \/ work.kind # "services" => Part("services", u)'
          /\ work.pc = "ready" => Part("ingresses", u)'
      BY <1>3, <2>3, <2>5, <3>1, <3>2 DEF Stages
    <3>5. work.kind = "ingresses" => \A v \in 1..MaxUid : Live("slices", v)' => Part("slices", v)'
      BY <1>3, <2>2, <2>3, <2>5, <3>1 DEF Stages
    <3>6. QED
      BY <1>3, <3>1, <3>3, <3>4, <3>5 DEF Stages
  <2>11. QED
    BY <1>1, <2>7, <2>8, <2>9, <2>10
<1>4. QED
  BY <1>2, <1>3

\* The same for the history and the generations.
LEMMA TracingFrame ==
  ASSUME Tracing, UNCHANGED <<api, events, cache>>
  PROVE  Tracing'
BY DEF Tracing, Traced, Unique, Lasts, Told, Renews

LEMMA AgedFrame ==
  ASSUME Aged, \A k \in Kinds : api'[k] \subseteq api[k], UNCHANGED <<proxy, seen>>,
         work' = Idle \/ (work # Idle /\ work'.inst = work.inst)
  PROVE  Aged'
BY DEF Aged

-----------------------------------------------------------------------------
(* Each step keeps it.                                                     *)

LEMMA ReadyInit == Init => ReadyAll
<1> SUFFICES ASSUME Init PROVE ReadyAll
  OBVIOUS
<1>1. \A k \in Kinds : api[k] = {} /\ cache[k] = {} /\ Len(events[k]) = 0
  BY DEF Init, Nothing
<1>2. work = Idle /\ ~seen.exists /\ "slices" \in Kinds /\ "services" \in Kinds
  BY DEF Init, Absent, Kinds
<1>3. Telling("slices") = {}
  BY <1>1, <1>2 DEF Telling
<1>4. Tracing
  BY <1>1 DEF Tracing, Traced, Unique
<1>5. Aged /\ Dated /\ Heard
  BY <1>1, <1>2, <1>3 DEF Aged, Dated, Heard
<1>6. QED
  BY <1>2, <1>4, <1>5 DEF ReadyAll, Cleared, Announced, Progress, Stages

\* Users create the proxy, or change its spec.
LEMMA ReadyUser == OneTyped /\ ReadyAll /\ User /\ deletes' = 0 => ReadyAll'
<1> SUFFICES ASSUME OneTyped, ReadyAll, User, deletes' = 0 PROVE ReadyAll'
  OBVIOUS
<1>1. UNCHANGED <<api, events, cache, seen, exp, work>>
  BY DEF User, CreateProxy, UpdateProxy, DeleteProxy, EditOnly, children
<1>2. uids' \in {uids, uids + 1} /\ (seen.exists => proxy.gen <= proxy'.gen)
  <2>1. proxy \in Proxies /\ (seen.exists => proxy # Absent)
    BY ProxyHas DEF OneTyped, TypeInv, TypeOK, Followed
  <2>2. ASSUME NEW s \in Specs, CreateProxy(s) PROVE <1>2!:
    BY <2>1, <2>2 DEF CreateProxy
  <2>3. ASSUME NEW s \in Specs, UpdateProxy(s) PROVE <1>2!:
    <3>1. /\ proxy \in [exists : {TRUE}, uid : 1..MaxUid, gen : 1..MaxEdits, spec : Specs,
                        ready : BOOLEAN, observed : 0..MaxEdits]
          /\ proxy.gen \in 1..MaxEdits
      BY <2>1, <2>3 DEF UpdateProxy, Proxies
    <3>2. proxy' = [proxy EXCEPT !.spec = s, !.gen = @ + 1] /\ uids' = uids
      BY <2>3 DEF UpdateProxy
    <3>3. proxy'.gen = proxy.gen + 1
      BY <3>1, <3>2
    <3>4. proxy.gen <= proxy.gen + 1
      BY <3>1, BoundsAssumption
    <3>5. QED
      BY <3>2, <3>3, <3>4
  <2>4. ~DeleteProxy
    BY BoundsAssumption DEF DeleteProxy, OneTyped, TypeInv, TypeOK
  <2>5. QED
    BY <2>2, <2>3, <2>4 DEF User
<1>3. Tracing'
  BY <1>1, TracingFrame DEF ReadyAll
<1>4. Aged'
  <2>1. seen.exists => seen.gen \in Nat /\ proxy.gen \in Nat /\ proxy'.gen \in Nat
    <3>1. proxy \in Proxies /\ proxy' \in Proxies /\ seen \in Proxies
      <4>1. TypeInv'
        BY TypeUser DEF OneTyped
      <4>2. QED
        BY <4>1 DEF OneTyped, TypeInv, TypeOK
    <3>2. seen.exists => proxy.exists /\ proxy'.exists
      <4>1. OneAll'
        BY OneUser
      <4>2. QED
        BY <1>1, <4>1 DEF OneTyped, OneAll, Followed
    <3>3. \A p \in Proxies : p.exists => p.gen \in Nat
      BY ProxyHas, BoundsAssumption
    <3>4. QED
      BY <3>1, <3>2, <3>3
  <2>2. QED
    BY <1>1, <1>2, <2>1 DEF ReadyAll, Aged
<1>5. QED
  BY <1>1, <1>2, <1>3, <1>4, Still DEF ReadyAll

\* The informer learns of the proxy; what it knew was of this one.
LEMMA ReadyRefresh == OneTyped /\ ReadyAll /\ RefreshProxy => ReadyAll'
<1> SUFFICES ASSUME OneTyped, ReadyAll, RefreshProxy PROVE ReadyAll'
  OBVIOUS
<1>1. seen' = proxy /\ UNCHANGED <<proxy, api, events, cache, exp, work, uids>>
  BY DEF RefreshProxy, children
<1>2. seen.exists => seen'.exists /\ seen'.uid = seen.uid
  BY <1>1 DEF OneTyped, Followed
<1>3. Tracing'
  BY <1>1, TracingFrame DEF ReadyAll
<1>4. Aged'
  <2>1. \A p \in Proxies : p.exists => p.gen \in Nat
    BY ProxyHas, BoundsAssumption
  <2>2. proxy \in Proxies /\ seen \in Proxies
    BY DEF OneTyped, TypeInv, TypeOK
  <2>3. \A k \in Kinds : \A o \in api[k] : o.rev \in Nat
    BY Numbers DEF OneTyped
  <2>4. work # Idle => work.inst.gen \in Nat /\ seen.exists
    BY Ongoing, BoundsAssumption DEF OneTyped, Followed
  <2>5. seen'.exists => seen'.gen <= proxy'.gen
    BY <1>1, <2>1, <2>2
  <2>6. seen.exists => seen.gen <= proxy.gen /\ seen.gen \in Nat /\ proxy.gen \in Nat
    BY <1>1, <1>2, <2>1, <2>2 DEF ReadyAll, Aged
  <2>7. work # Idle => work.inst.gen <= seen'.gen
    BY <1>1, <2>4, <2>6 DEF ReadyAll, Aged
  <2>8. \A k \in Kinds : \A o \in api[k] : seen'.exists /\ o.rev <= seen'.gen
    BY <1>1, <1>2, <2>3, <2>6 DEF ReadyAll, Aged
  <2>9. QED
    BY <1>1, <2>5, <2>7, <2>8 DEF ReadyAll, Aged
<1>5. QED
  BY <1>1, <1>2, <1>3, <1>4, Still DEF ReadyAll

\* A reconcile begins with the informer's copy of the proxy.
LEMMA ReadyBegin == OneTyped /\ ReadyAll /\ Begin => ReadyAll'
<1> SUFFICES ASSUME OneTyped, ReadyAll, Begin PROVE ReadyAll'
  OBVIOUS
<1>1. UNCHANGED <<proxy, api, events, cache, seen, uids>> /\ exp'["slices"] = exp["slices"] /\ work = Idle
  BY BeginSays
<1>2. Tracing'
  BY <1>1, TracingFrame DEF ReadyAll
<1>3. CASE work' = Idle
  <2>1. Aged'
    BY <1>1, <1>3, AgedFrame DEF ReadyAll
  <2>2. QED
    BY <1>1, <1>2, <1>3, <2>1, Still DEF ReadyAll
<1>4. CASE /\ seen.exists /\ work' # Idle /\ work'.pc = "check" /\ work'.kind = "services"
           /\ work'.todo = <<>> /\ work'.inst = seen
  <2>1. seen.gen \in Nat
    BY <1>4, ProxyHas, BoundsAssumption DEF OneTyped, TypeInv, TypeOK
  <2>2. Aged'
    BY <1>1, <1>4, <2>1 DEF ReadyAll, Aged
  <2>3. Dated' /\ Heard'
    BY <1>1, HeardFrame DEF ReadyAll, OneTyped
  <2>4. Cleared' /\ Announced("slices")' /\ Progress' /\ Stages'
    BY <1>4 DEF Cleared, Announced, Progress, Stages
  <2>5. QED
    BY <1>2, <2>2, <2>3, <2>4 DEF ReadyAll
<1>5. QED
  BY <1>3, <1>4, BeginSays

\* A sync is planned only where nothing is expected any more.
LEMMA ReadyCheck == OneTyped /\ ReadyAll /\ Check => ReadyAll'
<1> SUFFICES ASSUME OneTyped, ReadyAll, Check PROVE ReadyAll'
  OBVIOUS
<1>1. /\ UNCHANGED <<proxy, api, events, cache, seen, exp, uids>> /\ work # Idle /\ work.pc = "check"
      /\ work' = Idle \/ (Goes("sync", work.kind, <<>>) /\ SatisfiedExpectations(exp[work.kind]))
  BY CheckSays
<1>2. Tracing'
  BY <1>1, TracingFrame DEF ReadyAll
<1>3. Aged'
  BY <1>1, AgedFrame DEF ReadyAll, Goes
<1>4. CASE work' = Idle
  BY <1>1, <1>2, <1>3, <1>4, Still DEF ReadyAll
<1>5. CASE Goes("sync", work.kind, <<>>) /\ SatisfiedExpectations(exp[work.kind])
  <2>1. Dated' /\ Heard'
    BY <1>1, HeardFrame DEF ReadyAll, OneTyped
  <2>2. Len(<<>>) = 0
    OBVIOUS
  <2>3. Cleared' /\ Announced("slices")' /\ Progress'
    BY <1>1, <1>5, <2>2 DEF Goes, Cleared, Clear, Announced, Progress
  <2>4. Stages'
    BY <1>1, <1>5 DEF ReadyAll, Goes, Stages, Part, Live, Goal
  <2>5. QED
    BY <1>2, <1>3, <2>1, <2>3, <2>4 DEF ReadyAll
<1>6. QED
  BY <1>1, <1>4, <1>5

\* With the Service as it should be, the reconcile goes on to its
\* EndpointSlices.
LEMMA ReadyStatus == OneTyped /\ ReadyAll /\ Status => ReadyAll'
<1> SUFFICES ASSUME OneTyped, ReadyAll, Status PROVE ReadyAll'
  OBVIOUS
<1>1. /\ UNCHANGED <<api, events, cache, seen, exp, uids>> /\ work # Idle
      /\ work' = Idle \/ (work.pc = "status" /\ Goes("check", "slices", <<>>))
      /\ proxy.exists => proxy'.exists /\ proxy'.uid = proxy.uid /\ proxy'.gen = proxy.gen
  BY StatusSays
<1>2. Tracing'
  BY <1>1, TracingFrame DEF ReadyAll
<1>3. Aged'
  <2>1. proxy.exists
    BY <1>1 DEF OneTyped, Followed
  <2>2. QED
    BY <1>1, <2>1 DEF ReadyAll, Aged, Goes
<1>4. CASE work' = Idle
  BY <1>1, <1>2, <1>3, <1>4, Still DEF ReadyAll
<1>5. CASE work.pc = "status" /\ Goes("check", "slices", <<>>)
  <2>1. Dated' /\ Heard'
    BY <1>1, HeardFrame DEF ReadyAll, OneTyped
  <2>2. Len(<<>>) = 0
    OBVIOUS
  <2>3. Cleared' /\ Announced("slices")' /\ Progress'
    BY <1>1, <1>5, <2>2 DEF Goes, Cleared, Clear, Announced, Progress
  <2>4. Stages'
    BY <1>1, <1>5 DEF ReadyAll, Goes, Stages, Part, Live, Goal
  <2>5. QED
    BY <1>2, <1>3, <2>1, <2>3, <2>4 DEF ReadyAll
<1>6. QED
  BY <1>1, <1>4, <1>5

\* The controller restarts: nothing is on its way or under way.
LEMMA ReadyCrash == OneTyped /\ ReadyAll /\ Crash => ReadyAll'
<1> SUFFICES ASSUME OneTyped, ReadyAll, Crash PROVE ReadyAll'
  OBVIOUS
<1>1. /\ UNCHANGED <<proxy, api, uids>> /\ work' = Idle /\ cache' = api /\ seen' = proxy
      /\ events' = [k \in Kinds |-> <<>>]
  BY DEF Crash
<1>2. "slices" \in Kinds /\ "services" \in Kinds
  BY DEF Kinds
<1>3. Tracing'
  <2>1. \A k \in Kinds : api'[k] = api[k] /\ events'[k] = <<>> /\ cache'[k] = api[k]
    BY <1>1
  <2>2. QED
    BY <2>1, TracedCrash DEF ReadyAll, OneTyped, Tracing
<1>4. Aged'
  <2>1. \A p \in Proxies : p.exists => p.gen \in Nat
    BY ProxyHas, BoundsAssumption
  <2>2. proxy \in Proxies /\ seen \in Proxies
    BY DEF OneTyped, TypeInv, TypeOK
  <2>3. \A k \in Kinds : \A o \in api[k] : o.rev \in Nat
    BY Numbers DEF OneTyped
  <2>4. seen.exists => proxy.exists
    BY DEF OneTyped, Followed
  <2>5. QED
    BY <1>1, <2>1, <2>2, <2>3, <2>4 DEF ReadyAll, Aged
<1>5. Len(events'["slices"]) = 0 /\ Telling("slices")' = {}
  BY <1>1, <1>2 DEF Telling
<1>6. Dated' /\ Heard'
  BY <1>1, <1>5 DEF ReadyAll, Dated, Heard
<1>7. Cleared' /\ Announced("slices")' /\ Progress' /\ Stages'
  BY <1>1 DEF Cleared, Announced, Progress, Stages
<1>8. QED
  BY <1>3, <1>4, <1>6, <1>7 DEF ReadyAll

\* What is no longer expected of the EndpointSlices was not on its way.
LEMMA HeardLess ==
  ASSUME Heard, UNCHANGED <<api, events>>,
         NEW act \in Actions, NEW n, exp["slices"] \in [Actions -> SUBSET Names("slices")],
         exp'["slices"] = Observe(exp["slices"], act, n),
         \A i \in Telling("slices") : events["slices"][i].obj.name = n =>
           act = "creations" /\ events["slices"][i].type # "Create"
  PROVE  Heard'
<1>1. Telling("slices")' = Telling("slices")
  BY DEF Telling
<1>2. \A u : Live("slices", u)' <=> Live("slices", u)
  BY DEF Live
<1>3. /\ exp'["slices"]["creations"] = IF act = "creations" THEN exp["slices"]["creations"] \ {n}
                                       ELSE exp["slices"]["creations"]
      /\ exp'["slices"]["deletions"] = IF act = "deletions" THEN exp["slices"]["deletions"] \ {n}
                                       ELSE exp["slices"]["deletions"]
  BY DEF Observe, Actions
<1>4. QED
  BY <1>1, <1>2, <1>3 DEF Heard

\* A call that fails has had no effect and drops the reconcile.
LEMMA ReadyDropped ==
  ASSUME OneTyped, ReadyAll, work # Idle, UNCHANGED <<proxy, cache, seen>>,
         work.kind \in Kinds, work.todo \in Seq(Ops(work.kind)), work.todo # <<>>,
         Dropped(work.kind, Head(work.todo))
  PROVE  ReadyAll'
<1>1. PICK k \in Kinds : k = work.kind
  OBVIOUS
<1>2. PICK todo \in Seq(Ops(k)) : todo = work.todo
  BY <1>1
<1>3. PICK op \in Ops(k) : op = Head(todo) /\ 1 \in 1..Len(todo) /\ op = todo[1]
  BY <1>1, <1>2
<1>4. /\ UNCHANGED <<api, events, uids>> /\ work' = Idle
      /\ exp' = IF op.verb = "update" THEN exp
                ELSE [exp EXCEPT ![k] = Observe(@, Intended(op.verb), op.obj.name)]
  BY <1>1, <1>2, <1>3 DEF Dropped, TakeBack
<1>5. DOMAIN exp = Kinds /\ "slices" \in Kinds /\ exp["slices"] \in [Actions -> SUBSET Names("slices")]
  BY DEF OneTyped, TypeInv, TypeOK, Kinds
<1>6. Tracing' /\ Aged'
  BY <1>4, TracingFrame, AgedFrame DEF ReadyAll
<1>7. CASE exp'["slices"] = exp["slices"]
  BY <1>4, <1>6, <1>7, Still DEF ReadyAll
<1>8. CASE k = "slices" /\ op.verb # "update"
  <2>1. exp'["slices"] = Observe(exp["slices"], Intended(op.verb), op.obj.name)
    BY <1>4, <1>5, <1>8
  <2>2. Intended(op.verb) \in Actions
    BY DEF Intended, Actions
  <2>3. op.verb \in {"create", "delete"}
    BY <1>8, OpHas
  <2>4. Clear(todo)
    BY <1>1, <1>2, <1>8 DEF ReadyAll, Cleared
  <2>5. \A i \in Telling("slices") : events["slices"][i].obj.name = op.obj.name =>
          op.verb = "create" /\ events["slices"][i].type # "Create"
    BY <1>3, <2>3, <2>4 DEF Clear
  <2>6. \A i \in Telling("slices") : events["slices"][i].obj.name = op.obj.name =>
          Intended(op.verb) = "creations" /\ events["slices"][i].type # "Create"
    BY <2>5 DEF Intended
  <2>7. Heard'
    BY <1>4, <1>5, <2>1, <2>2, <2>6, HeardLess DEF ReadyAll
  <2>8. Dated'
    BY <1>4 DEF ReadyAll, Dated
  <2>9. QED
    BY <1>4, <1>6, <2>7, <2>8 DEF ReadyAll, Cleared, Announced, Progress, Stages
<1>9. exp'["slices"] = exp["slices"] \/ (k = "slices" /\ op.verb # "update")
  BY <1>4, <1>5
<1>10. QED
  BY <1>7, <1>8, <1>9

\* Before a call, what it will do is expected; when the plan is carried out
\* the children are as they should be.
LEMMA ReadyIntend == OneTyped /\ ReadyAll /\ Intend => ReadyAll'
<1> SUFFICES ASSUME OneTyped, ReadyAll, Intend PROVE ReadyAll'
  OBVIOUS
<1>1. /\ UNCHANGED <<proxy, api, events, cache, seen, uids>> /\ work # Idle /\ work.pc = "intend"
      /\ \/ /\ work.todo # <<>> /\ Goes("call", work.kind, work.todo)
            /\ exp' = IF Head(work.todo).verb = "update" THEN exp
                      ELSE [exp EXCEPT ![work.kind] =
                              Expect(@, Intended(Head(work.todo).verb), Head(work.todo).obj.name)]
         \/ /\ work.todo = <<>> /\ exp' = exp
            /\ \/ work.kind = "services" /\ Goes("status", "services", <<>>)
               \/ work.kind = "slices" /\ Goes("check", "ingresses", <<>>)
               \/ work.kind = "ingresses" /\ Goes("ready", "ingresses", <<>>)
  BY IntendSays
<1>2. Tracing'
  BY <1>1, TracingFrame DEF ReadyAll
<1>3. Aged'
  BY <1>1, AgedFrame DEF ReadyAll, Goes
<1>4. PICK k \in Kinds : k = work.kind
  BY <1>1, Ongoing DEF OneTyped
<1>5. PICK todo \in Seq(Ops(k)) : todo = work.todo
  BY <1>1, <1>4, Ongoing DEF OneTyped
<1>6. \A j \in Kinds : \A u : /\ Part(j, u) => Part(j, u)'
                              /\ \A t : Covers(j, u, t) => Covers(j, u, t)'
  BY <1>1, CoversFrame DEF Goes
<1>7. /\ \A u : Live("slices", u)' <=> Live("slices", u)
      /\ \A j \in Solo : \A u : Live(j, u)' <=> Live(j, u)
  BY <1>1, SoloKinds DEF Live
<1>8. Telling("slices")' = Telling("slices")
  BY <1>1 DEF Telling
<1>9. \A t : Clear(t) => Clear(t)'
  BY <1>1, <1>7, <1>8 DEF Clear
<1>10. /\ DOMAIN exp = Kinds /\ "slices" \in Kinds /\ "services" \in Kinds /\ "ingresses" \in Kinds
       /\ exp["slices"] \in [Actions -> SUBSET Names("slices")]
  BY DEF OneTyped, TypeInv, TypeOK, Kinds
<1>11. \A j \in Kinds : \A u : Live(j, u)' <=> Live(j, u)
  BY <1>7 DEF Kinds, Solo
<1>12. Stages /\ Progress
  BY DEF ReadyAll
<1>13. CASE /\ todo # <<>> /\ Goes("call", k, todo)
            /\ exp' = IF Head(todo).verb = "update" THEN exp
                      ELSE [exp EXCEPT ![k] = Expect(@, Intended(Head(todo).verb), Head(todo).obj.name)]
  <2>1. \A act \in Actions : exp["slices"][act] \subseteq exp'["slices"][act]
    BY <1>10, <1>13 DEF Expect
  <2>2. Dated' /\ Heard'
    BY <1>1, <2>1, HeardFrame DEF ReadyAll, OneTyped
  <2>3. Cleared'
    <3>1. k = "slices" => Clear(todo)
      BY <1>1, <1>4, <1>5 DEF ReadyAll, Cleared
    <3>2. k = "slices" => Clear(todo)'
      BY <1>9, <3>1
    <3>3. work'.todo = todo /\ work'.kind = k /\ work'.pc = "call"
      BY <1>13 DEF Goes
    <3>4. QED
      BY <3>2, <3>3 DEF Cleared
  <2>4. Announced("slices")'
    <3>1. SUFFICES ASSUME k = "slices", Head(todo).verb # "update"
                   PROVE  Head(todo).obj.name \in exp'["slices"][Intended(Head(todo).verb)]
      BY <1>13 DEF Announced, Goes
    <3>2. Intended(Head(todo).verb) \in Actions
      BY DEF Intended, Actions
    <3>3. exp'["slices"] = Expect(exp["slices"], Intended(Head(todo).verb), Head(todo).obj.name)
      BY <1>10, <1>13, <3>1
    <3>4. QED
      BY <1>10, <3>2, <3>3 DEF Expect
  <2>5. Progress'
    <3>1. \A u \in 1..MaxUid : Live(k, u) => Covers(k, u, todo)
      BY <1>1, <1>4, <1>5, <1>12 DEF Progress
    <3>2. \A u \in 1..MaxUid : Live(k, u)' => Covers(k, u, todo)'
      BY <1>6, <1>11, <3>1
    <3>3. work'.todo = todo /\ work'.kind = k
      BY <1>13 DEF Goes
    <3>4. QED
      BY <3>2, <3>3 DEF Progress
  <2>6. Stages'
    <3>1. k # "services" => Part("services", seen.uid)
      BY <1>1, <1>4, <1>12 DEF Stages
    <3>2. k = "ingresses" => \A u \in 1..MaxUid : Live("slices", u) => Part("slices", u)
      BY <1>1, <1>4, <1>12 DEF Stages
    <3>3. PICK v : v = seen.uid
      OBVIOUS
    <3>4. k # "services" => Part("services", v)'
      BY <1>6, <1>10, <3>1, <3>3
    <3>5. k = "ingresses" => \A u \in 1..MaxUid : Live("slices", u)' => Part("slices", u)'
      BY <1>6, <1>7, <1>10, <3>2
    <3>6. work' # Idle /\ work'.pc = "call" /\ work'.kind = k /\ v = seen'.uid
      BY <1>1, <1>13, <3>3 DEF Goes
    <3>7. QED
      BY <3>4, <3>5, <3>6 DEF Stages
  <2>7. QED
    BY <1>2, <1>3, <2>2, <2>3, <2>4, <2>5, <2>6 DEF ReadyAll
<1>14. CASE /\ todo = <<>> /\ exp' = exp
            /\ \/ k = "services" /\ Goes("status", "services", <<>>)
               \/ k = "slices" /\ Goes("check", "ingresses", <<>>)
               \/ k = "ingresses" /\ Goes("ready", "ingresses", <<>>)
  <2>1. Dated' /\ Heard'
    BY <1>1, <1>14, HeardFrame DEF ReadyAll, OneTyped
  <2>2. Cleared' /\ Announced("slices")' /\ Progress'
    BY <1>14 DEF Goes, Cleared, Announced, Progress
  <2>3. \A u \in 1..MaxUid : Live(k, u) => Part(k, u)
    <3>1. \A u \in 1..MaxUid : Live(k, u) => Covers(k, u, <<>>)
      BY <1>1, <1>4, <1>5, <1>12, <1>14 DEF Progress
    <3>2. QED
      BY <3>1, CoversDone
  <2>4. PICK v \in 1..MaxUid : v = seen.uid
    BY <1>1, Ongoing DEF OneTyped, Followed
  <2>5. k \in Solo => Live(k, v)
    BY <1>1, <2>4, SoloKinds DEF Live, OneTyped, Followed
  <2>6. Part("services", v)
    BY <1>1, <1>4, <1>12, <2>3, <2>4, <2>5 DEF Stages, Solo
  <2>7. k # "services" => \A u \in 1..MaxUid : Live("slices", u) => Part("slices", u)
    BY <1>1, <1>4, <1>12, <2>3 DEF Stages, Kinds
  <2>8. k = "ingresses" => Part("ingresses", v)
    BY <2>3, <2>5 DEF Solo
  <2>9. /\ Part("services", v)'
        /\ k # "services" => \A u \in 1..MaxUid : Live("slices", u)' => Part("slices", u)'
        /\ k = "ingresses" => Part("ingresses", v)'
    BY <1>6, <1>7, <1>10, <2>6, <2>7, <2>8
  <2>10. Stages'
    <3>1. v = seen'.uid
      BY <1>1, <2>4
    <3>2. QED
      BY <1>14, <2>9, <3>1 DEF Goes, Stages
  <2>11. QED
    BY <1>2, <1>3, <2>1, <2>2, <2>10 DEF ReadyAll
<1>15. QED
  BY <1>1, <1>4, <1>5, <1>13, <1>14

\* What is planned from the cache leads to the goal, where no event tells of
\* the owner's children any more.
LEMMA PlanCovers ==
  ASSUME TypeInv, work # Idle, NEW k \in Kinds, Traced(k), NEW u \in 1..MaxUid,
         \A i \in 1..Len(events[k]) : events[k][i].obj.owner = u => events[k][i].type = "Update",
         \A o \in api[k] : o.rev <= work.inst.gen,
         NEW todo \in Seq(Ops(k)), PlanOf(k, u, Names(k), todo), Goal(k) \subseteq Names(k)
  PROVE  Covers(k, u, todo)
<1>1. /\ \A c \in cache[k] : c.owner = u => \E o \in api[k] : Same(o, c) /\ c.rev <= o.rev
      /\ \A o \in api[k] : o.owner = u => \E c \in cache[k] : Same(c, o)
  BY TracedShows
<1>2. work.inst.gen \in Nat
  BY Ongoing, BoundsAssumption
<1>3. Unique(api[k])
  BY DEF Traced
<1>4. \A c \in Owned(k, u) : c \in cache[k] /\ c.owner = u
  BY DEF Owned
<1>5. ASSUME NEW o \in api[k], o.owner = u
      PROVE  (o.name \in Goal(k) /\ o.rev = work.inst.gen) \/ Has(todo, Remedy(k, o.name), o.name)
  <2>1. PICK c \in cache[k] : Same(c, o)
    BY <1>1, <1>5
  <2>2. c \in Owned(k, u) /\ c.name = o.name /\ c.name \in Names(k)
    BY <1>5, <2>1, Numbers DEF Owned, Same
  <2>3. c.rev <= o.rev /\ c.rev \in Nat /\ o.rev \in Nat
    <3>1. PICK q \in api[k] : Same(q, c) /\ c.rev <= q.rev
      BY <1>1, <1>4, <2>2
    <3>2. q = o
      BY <1>3, <2>1, <3>1 DEF Unique, Same
    <3>3. QED
      BY <3>1, <3>2, Numbers
  <2>4. c.rev = work.inst.gen => o.rev = work.inst.gen
    BY <1>2, <2>3
  <2>5. (c.name \in Goal(k) /\ c.rev = work.inst.gen) \/ Has(todo, Remedy(k, c.name), c.name)
    BY <2>2 DEF PlanOf
  <2>6. QED
    BY <2>2, <2>4, <2>5
<1>6. ASSUME NEW n \in Goal(k)
      PROVE  (\E o \in api[k] : o.owner = u /\ o.name = n) \/ Has(todo, "create", n)
  <2>1. (\E c \in Owned(k, u) : c.name = n) \/ Has(todo, "create", n)
    BY <1>6 DEF PlanOf
  <2>2. ASSUME NEW c \in Owned(k, u), c.name = n PROVE \E o \in api[k] : o.owner = u /\ o.name = n
    BY <1>1, <1>4, <2>2 DEF Same
  <2>3. QED
    BY <2>1, <2>2
<1>7. \A i \in 1..Len(todo) : Apt(k, u, todo[i])
  <2>1. SUFFICES ASSUME NEW i \in 1..Len(todo), OpFor(k, u, todo[i]) PROVE Apt(k, u, todo[i])
    BY DEF PlanOf
  <2>2. PICK op : op = todo[i]
    OBVIOUS
  <2>3. Apt(k, u, op)
    BY <1>4, <2>1, <2>2 DEF OpFor, Apt, Same
  <2>4. QED
    BY <2>2, <2>3
<1>8. QED
  BY <1>5, <1>6, <1>7 DEF Covers

\* What is planned for the EndpointSlices of a Service that is there is not
\* what events on their way tell.
LEMMA PlanIsClear ==
  ASSUME TypeInv, Traced("slices"), Heard, SatisfiedExpectations(exp["slices"]),
         NEW u \in 1..MaxUid, Live("slices", u), NEW todo, PlanOf("slices", u, Names("slices"), todo)
  PROVE  Clear(todo)
<1>1. \A act \in Actions : exp["slices"][act] = {}
  BY DEF SatisfiedExpectations
<1>2. "creations" \in Actions /\ "deletions" \in Actions /\ "slices" \in Kinds
  BY DEF Actions, Kinds
<1>3. \A j \in Telling("slices") : /\ events["slices"][j].type # "Create"
                                   /\ ~(events["slices"][j].type = "Delete" /\ Live("slices", events["slices"][j].obj.owner))
  BY <1>1, <1>2 DEF Heard
<1>4. \A j \in 1..Len(events["slices"]) : events["slices"][j].type \in {"Create", "Update", "Delete"}
  BY <1>2, Numbers DEF Events
<1>5. \A j \in 1..Len(events["slices"]) : events["slices"][j].obj.owner = u => events["slices"][j].type = "Update"
  BY <1>3, <1>4 DEF Telling
<1>6. \A c \in cache["slices"] : c.owner = u => \E o \in api["slices"] : Same(o, c) /\ c.rev <= o.rev
  BY <1>2, <1>5, TracedShows
<1>7. ASSUME NEW i \in 1..Len(todo), todo[i].verb = "delete"
      PROVE  \E o \in api["slices"] : o.name = todo[i].obj.name /\ o.owner = u
  <2>1. todo[i].obj \in Owned("slices", u)
    BY <1>7 DEF PlanOf, OpFor
  <2>2. PICK c \in cache["slices"] : c = todo[i].obj /\ c.owner = u
    BY <2>1 DEF Owned
  <2>3. QED
    BY <1>6, <2>2 DEF Same
<1>8. ASSUME NEW i \in 1..Len(todo), todo[i].verb = "delete", NEW j \in Telling("slices"),
             events["slices"][j].obj.name = todo[i].obj.name
      PROVE  FALSE
  <2>1. PICK o \in api["slices"] : o.name = todo[i].obj.name /\ o.owner = u
    BY <1>7, <1>8
  <2>2. j \in 1..Len(events["slices"]) /\ events["slices"][j].type = "Delete"
    BY <1>3, <1>4 DEF Telling
  <2>3. Renews("slices", o, j)
    BY <1>8, <2>1, <2>2 DEF Traced
  <2>4. \E m \in 1..Len(events["slices"]) : events["slices"][m].type = "Create"
    BY <2>2, <2>3 DEF Renews, Told
  <2>5. QED
    BY <1>3, <2>4 DEF Telling
<1>9. /\ \A i \in 1..Len(todo), j \in Telling("slices") :
           events["slices"][j].obj.name = todo[i].obj.name =>
             todo[i].verb # "delete" /\ (todo[i].verb = "create" => events["slices"][j].type # "Create")
      /\ \A i \in 1..Len(todo) : todo[i].verb = "delete" =>
           \E o \in api["slices"] : o.name = todo[i].obj.name /\ Live("slices", o.owner)
  BY <1>3, <1>7, <1>8
<1>10. QED
  BY <1>9 DEF Clear, PlanOf

LEMMA GoalNamed ==
  ASSUME TypeInv, work # Idle, NEW k \in Kinds
  PROVE  Goal(k) \subseteq Names(k)
<1>1. work.inst.spec \in Specs
  BY Ongoing
<1>2. CASE k \in Solo
  BY <1>1, <1>2 DEF Goal, Names, Solo
<1>3. CASE k = "slices"
  BY <1>1, <1>3 DEF Goal, Names
<1>4. QED
  BY <1>2, <1>3 DEF Kinds, Solo

\* A step of the reconcile that leaves all the rest alone.
LEMMA Onward ==
  ASSUME UNCHANGED <<api, events, seen>>, work'.inst = work.inst
  PROVE  /\ \A k \in Kinds : \A u : /\ Part(k, u) => Part(k, u)'
                                    /\ \A todo : Covers(k, u, todo) => Covers(k, u, todo)'
         /\ \A k \in Kinds : \A u : Live(k, u)' <=> Live(k, u)
         /\ \A todo : Clear(todo) => Clear(todo)'
<1>1. \A k \in Kinds : \A u : /\ Part(k, u) => Part(k, u)'
                              /\ \A todo : Covers(k, u, todo) => Covers(k, u, todo)'
  BY CoversFrame
<1>2. \A k \in Kinds : \A u : Live(k, u)' <=> Live(k, u)
  BY DEF Live
<1>3. Telling("slices")' = Telling("slices") /\ "slices" \in Kinds
  BY DEF Telling, Kinds
<1>4. \A todo : Clear(todo) => Clear(todo)'
  BY <1>2, <1>3 DEF Clear
<1>5. QED
  BY <1>1, <1>2, <1>4

\* The Service that the EndpointSlices are made for is there.
LEMMA ServiceThere ==
  ASSUME OneTyped, Traced("services"), work # Idle, Part("services", seen.uid),
         NEW s \in cache["services"], s.name = work.inst.spec.svc
  PROVE  /\ \E o \in api["services"] : o.uid = s.uid
         /\ \A u : Live("slices", u) <=> u = s.uid
<1>1. "services" \in Kinds /\ "services" \in Solo
  BY DEF Kinds, Solo
<1>2. PICK a \in api["services"] : a.name = s.name
  <2>1. work.inst.spec.svc \in Goal("services")
    BY DEF Goal
  <2>2. QED
    BY <2>1 DEF Part
<1>3. Lasts("services", s, 0)
  BY DEF Traced
<1>4. ASSUME NEW j \in 1..Len(events["services"]), events["services"][j].type = "Delete",
             Same(events["services"][j].obj, s)
      PROVE  FALSE
  <2>1. j \in Telling("services")
    BY <1>4 DEF Telling
  <2>2. \A o \in api["services"] : o.name # events["services"][j].obj.name
    BY <1>1, <1>4, <2>1 DEF OneTyped, Single, Awaited
  <2>3. QED
    BY <1>2, <1>4, <2>2 DEF Same
<1>5. PICK o \in api["services"] : Same(o, s)
  BY <1>3, <1>4 DEF Lasts
<1>6. \A q \in api["services"] : q = o
  BY <1>1 DEF OneTyped, Single, Known
<1>7. QED
  BY <1>5, <1>6 DEF Live, Same

\* A sync is planned from what the cache shows.
LEMMA ReadySync == OneTyped /\ ReadyAll /\ Sync => ReadyAll'
<1> SUFFICES ASSUME OneTyped, ReadyAll, Sync PROVE ReadyAll'
  OBVIOUS
<1>1. /\ UNCHANGED <<proxy, api, events, cache, seen, exp, uids>> /\ work # Idle /\ work.pc = "sync"
      /\ \/ work' = Idle
         \/ /\ work.kind = "services"
            /\ Goes("intend", "services", SyncActivated("services", work.inst.spec.svc))
         \/ /\ work.kind = "ingresses"
            /\ Goes("intend", "ingresses", SyncActivated("ingresses", work.inst.spec.ing))
         \/ /\ work.kind = "slices"
            /\ \E s \in cache["services"] : /\ s.name = work.inst.spec.svc
                                            /\ Goes("intend", "slices", SyncEndpointSlices(s))
  BY SyncSays
<1>2. Tracing'
  BY <1>1, TracingFrame DEF ReadyAll
<1>3. Aged'
  BY <1>1, AgedFrame DEF ReadyAll, Goes
<1>4. CASE work' = Idle
  BY <1>1, <1>2, <1>3, <1>4, Still DEF ReadyAll
<1>5. Dated' /\ Heard'
  BY <1>1, HeardFrame DEF ReadyAll, OneTyped
<1>6. TypeInv /\ Stages /\ \A k \in Kinds : Traced(k) /\ \A o \in api[k] : o.rev <= work.inst.gen
  BY <1>1 DEF OneTyped, ReadyAll, Tracing, Aged
<1>7. PICK v \in 1..MaxUid : v = seen.uid /\ v = work.inst.uid /\ v = seen'.uid
  BY <1>1, Ongoing DEF OneTyped, Followed
<1>8. ASSUME NEW k \in Kinds, k = work.kind, NEW todo \in Seq(Ops(k)), Goes("intend", k, todo),
             \A u \in 1..MaxUid : Live(k, u) => Covers(k, u, todo),
             k = "slices" => Clear(todo)
      PROVE  ReadyAll'
  <2>0. /\ work' # Idle /\ work'.pc = "intend" /\ work'.kind = k /\ work'.todo = todo
        /\ work'.inst = work.inst
    BY <1>8 DEF Goes
  <2>1. /\ \A j \in Kinds : \A u : /\ Part(j, u) => Part(j, u)'
                                   /\ \A t : Covers(j, u, t) => Covers(j, u, t)'
        /\ \A j \in Kinds : \A u : Live(j, u)' <=> Live(j, u)
        /\ \A t : Clear(t) => Clear(t)'
    BY <1>1, <2>0, Onward
  <2>2. Cleared'
    <3>1. k = "slices" => Clear(todo)'
      BY <1>8, <2>1
    <3>2. QED
      BY <2>0, <3>1 DEF Cleared
  <2>3. Announced("slices")'
    BY <2>0 DEF Announced
  <2>4. Progress'
    <3>1. \A u \in 1..MaxUid : Live(k, u)' => Covers(k, u, todo)'
      BY <1>8, <2>1
    <3>2. QED
      BY <2>0, <3>1 DEF Progress
  <2>5. Stages'
    <3>1. "services" \in Kinds /\ "slices" \in Kinds
      BY DEF Kinds
    <3>2. /\ k # "services" => Part("services", v)
          /\ k = "ingresses" => \A u \in 1..MaxUid : Live("slices", u) => Part("slices", u)
      BY <1>1, <1>6, <1>7, <1>8 DEF Stages
    <3>3. /\ k # "services" => Part("services", v)'
          /\ k = "ingresses" => \A u \in 1..MaxUid : Live("slices", u)' => Part("slices", u)'
      BY <2>1, <3>1, <3>2
    <3>4. QED
      BY <1>7, <2>0, <3>3 DEF Stages
  <2>6. QED
    BY <1>2, <1>3, <1>5, <2>2, <2>3, <2>4, <2>5 DEF ReadyAll
<1>9. ASSUME NEW k \in Solo, k = work.kind, NEW name,
             name = IF k = "services" THEN work.inst.spec.svc ELSE work.inst.spec.ing,
             Goes("intend", k, SyncActivated(k, name))
      PROVE  ReadyAll'
  <2>1. k \in Kinds /\ k # "slices" /\ Single(k) /\ Unique(cache[k])
    BY <1>6, <1>9, SoloKinds DEF OneTyped, Traced
  <2>2. PICK todo : todo = SyncActivated(k, name)
    OBVIOUS
  <2>3. todo \in Seq(Ops(k)) /\ PlanOf(k, v, Names(k), todo)
    BY <1>1, <1>6, <1>7, <1>9, <2>1, <2>2, ActivatedPlan
  <2>4. Telling(k) = {}
    <3>1. \A act \in Actions : exp[k][act] = {}
      BY <1>1, <1>9, <2>1 DEF Single, Planned, SatisfiedExpectations
    <3>2. \A i \in Telling(k) : events[k][i].obj.name \in exp[k][Observed(events[k][i].type)]
      BY <2>1 DEF Single, Awaited
    <3>3. \A type : Observed(type) \in Actions
      BY DEF Observed, Actions
    <3>4. QED
      BY <3>1, <3>2, <3>3
  <2>5. \A i \in 1..Len(events[k]) : events[k][i].type = "Update"
    BY <2>4 DEF Telling
  <2>6. Covers(k, v, todo)
    BY <1>1, <1>6, <2>1, <2>3, <2>5, PlanCovers, GoalNamed
  <2>7. \A u : Live(k, u) => u = v
    BY <1>7, <2>1 DEF Live
  <2>8. QED
    BY <1>8, <1>9, <2>1, <2>2, <2>3, <2>6, <2>7
<1>10. ASSUME work.kind = "slices", NEW s \in cache["services"], s.name = work.inst.spec.svc,
              Goes("intend", "slices", SyncEndpointSlices(s))
       PROVE  ReadyAll'
  <2>1. "slices" \in Kinds /\ "services" \in Kinds
    BY DEF Kinds
  <2>2. PICK u \in 1..MaxUid : u = s.uid
    BY Numbers DEF OneTyped
  <2>3. PICK todo : todo = SyncEndpointSlices(s)
    OBVIOUS
  <2>4. todo \in Seq(Ops("slices")) /\ PlanOf("slices", u, Names("slices"), todo)
    BY <1>1, <1>6, <1>10, <2>1, <2>2, <2>3, SlicesPlan DEF Traced
  <2>5. Part("services", seen.uid)
    BY <1>1, <1>6, <1>10 DEF Stages
  <2>6. \A w : Live("slices", w) <=> w = u
    BY <1>1, <1>6, <1>10, <2>1, <2>2, <2>5, ServiceThere
  <2>7. SatisfiedExpectations(exp["slices"]) /\ Heard
    BY <1>1, <1>10 DEF ReadyAll, Cleared
  <2>8. Clear(todo)
    BY <1>6, <2>1, <2>4, <2>6, <2>7, PlanIsClear
  <2>9. \A i \in 1..Len(events["slices"]) :
          events["slices"][i].obj.owner = u => events["slices"][i].type = "Update"
    <3>1. \A act \in Actions : exp["slices"][act] = {}
      BY <2>7 DEF SatisfiedExpectations
    <3>2. "creations" \in Actions /\ "deletions" \in Actions
      BY DEF Actions
    <3>3. \A j \in 1..Len(events["slices"]) : events["slices"][j].type \in {"Create", "Update", "Delete"}
      BY <1>6, <2>1, Numbers DEF Events
    <3>4. QED
      BY <2>6, <2>7, <3>1, <3>2, <3>3 DEF Heard, Telling
  <2>10. Covers("slices", u, todo)
    BY <1>1, <1>6, <2>1, <2>4, <2>9, PlanCovers, GoalNamed
  <2>11. QED
    BY <1>8, <1>10, <2>1, <2>3, <2>4, <2>6, <2>8, <2>10
<1>11. QED
  BY <1>1, <1>4, <1>9, <1>10 DEF Solo

\* A step that leaves the reconcile, and the children whose owner is there.
LEMMA StagesFrame ==
  ASSUME OneTyped, Progress, Stages, UNCHANGED <<work, seen>>,
         \A k \in Kinds : \A u : Live(k, u)' <=> Live(k, u),
         \A k \in Kinds : \A u : Live(k, u) => \A o : o.owner = u => (o \in api'[k] <=> o \in api[k])
  PROVE  Progress' /\ Stages'
<1>1. CASE work = Idle
  BY <1>1 DEF Progress, Stages
<1>2. CASE work # Idle
  <2>1. PICK k \in Kinds : k = work.kind
    BY <1>2, Ongoing DEF OneTyped
  <2>2. PICK todo : todo = work.todo
    OBVIOUS
  <2>3. PICK v : v = seen.uid /\ seen.exists
    BY <1>2 DEF OneTyped, Followed
  <2>4. "services" \in Kinds /\ "ingresses" \in Kinds /\ "slices" \in Kinds
    BY DEF Kinds
  <2>5. Live("services", v) /\ Live("ingresses", v)
    BY <2>3 DEF Live
  <2>6. ASSUME NEW j \in Kinds, NEW u, Live(j, u)
        PROVE  /\ Part(j, u) => Part(j, u)'
               /\ \A t : Covers(j, u, t) => Covers(j, u, t)'
    <3>1. \A o : o.owner = u => (o \in api'[j] <=> o \in api[j])
      BY <2>6
    <3>2. QED
      BY <3>1, CoversFrame
  <2>7. Progress'
    <3>1. SUFFICES ASSUME work.pc \in {"intend", "call"}, NEW u \in 1..MaxUid, Live(k, u)
                   PROVE  Covers(k, u, todo)'
      BY <1>2, <2>1, <2>2 DEF Progress
    <3>2. Covers(k, u, todo)
      BY <1>2, <2>1, <2>2, <3>1 DEF Progress
    <3>3. QED
      BY <2>6, <3>1, <3>2
  <2>8. Stages'
    <3>1. /\ work.pc = "status" \/ work.kind # "services" => Part("services", v)'
          /\ work.pc = "ready" => Part("ingresses", v)'
          /\ work.kind = "ingresses" => \A u \in 1..MaxUid : Live("slices", u)' => Part("slices", u)'
      BY <1>2, <2>3, <2>4, <2>5, <2>6 DEF Stages
    <3>2. QED
      BY <1>2, <2>3, <3>1 DEF Stages
  <2>9. QED
    BY <2>7, <2>8
<1>3. QED
  BY <1>1, <1>2

LEMMA TracedSame ==
  ASSUME NEW k, Traced(k), api'[k] = api[k], events'[k] = events[k], cache'[k] = cache[k]
  PROVE  Traced(k)'
BY DEF Traced, Unique, Lasts, Told, Renews

\* One more event of an EndpointSlice: it is expected and the first to tell
\* so, unless the garbage collector sent it.
LEMMA HeardMore ==
  ASSUME TypeInv, Heard, NEW type, NEW o, Tells("slices", type, o), exp'["slices"] = exp["slices"],
         \A u : Live("slices", u)' <=> Live("slices", u),
         type = "Create" =>
           /\ o.name \in exp["slices"]["creations"]
           /\ \A i \in Telling("slices") :
                events["slices"][i].type = "Create" => events["slices"][i].obj.name # o.name,
         type = "Delete" /\ Live("slices", o.owner) =>
           /\ o.name \in exp["slices"]["deletions"]
           /\ \A i \in Telling("slices") : events["slices"][i].obj.name # o.name
  PROVE  Heard'
<1> DEFINE n == Len(events["slices"])
<1>1. /\ n \in Nat /\ Len(events'["slices"]) = n + 1 /\ n + 1 \in 1..Len(events'["slices"])
      /\ events'["slices"][n + 1].type = type /\ events'["slices"][n + 1].obj = o
      /\ \A i \in 1..n : i \in 1..Len(events'["slices"]) /\ events'["slices"][i] = events["slices"][i]
      /\ \A i \in 1..Len(events'["slices"]) : i \in 1..n \/ i = n + 1
  <2>1. "slices" \in Kinds
    BY DEF Kinds
  <2>2. QED
    BY <2>1, Sending
<1>2. \A i \in Telling("slices") : i \in 1..n
  BY DEF Telling
<1>3. ASSUME NEW i \in Telling("slices")'
      PROVE  \/ i \in Telling("slices") /\ events'["slices"][i] = events["slices"][i] /\ i \in 1..n
             \/ i = n + 1
  BY <1>1, <1>3 DEF Telling
<1> HIDE DEF n
<1>4. \A i \in 1..n : n + 1 # i /\ ~(n + 1 < i)
  BY <1>1
<1>5. \A i \in Telling("slices")' : events'["slices"][i].type = "Create" =>
        events'["slices"][i].obj.name \in exp'["slices"]["creations"]
  BY <1>1, <1>3 DEF Heard
<1>6. \A i, j \in Telling("slices")' :
        events'["slices"][i].type = "Create" /\ events'["slices"][j].type = "Create"
          /\ events'["slices"][i].obj.name = events'["slices"][j].obj.name => i = j
  <2>1. SUFFICES ASSUME NEW i \in Telling("slices")', NEW j \in Telling("slices")',
                        events'["slices"][i].type = "Create", events'["slices"][j].type = "Create",
                        events'["slices"][i].obj.name = events'["slices"][j].obj.name
                 PROVE  i = j
    OBVIOUS
  <2>2. CASE i = n + 1 /\ j = n + 1
    BY <2>2
  <2>3. CASE /\ i \in Telling("slices") /\ events'["slices"][i] = events["slices"][i]
             /\ j \in Telling("slices") /\ events'["slices"][j] = events["slices"][j]
    BY <2>1, <2>3 DEF Heard
  <2>4. CASE i = n + 1 /\ j \in Telling("slices") /\ events'["slices"][j] = events["slices"][j]
    BY <1>1, <2>1, <2>4
  <2>5. CASE j = n + 1 /\ i \in Telling("slices") /\ events'["slices"][i] = events["slices"][i]
    BY <1>1, <2>1, <2>5
  <2>6. QED
    BY <1>3, <2>2, <2>3, <2>4, <2>5
<1>7. \A j \in Telling("slices")' :
        events'["slices"][j].type = "Delete" /\ Live("slices", events["slices"][j].obj.owner)' =>
          /\ events'["slices"][j].obj.name \in exp'["slices"]["deletions"]
          /\ \A i \in Telling("slices")' : i < j => events'["slices"][i].obj.name # events'["slices"][j].obj.name
  <2>1. SUFFICES ASSUME NEW j \in Telling("slices")', events'["slices"][j].type = "Delete",
                        NEW u, u = events'["slices"][j].obj.owner, Live("slices", u)
                 PROVE  /\ events'["slices"][j].obj.name \in exp'["slices"]["deletions"]
                        /\ \A i \in Telling("slices")' : i < j =>
                             events'["slices"][i].obj.name # events'["slices"][j].obj.name
    OBVIOUS
  <2>2. CASE j \in Telling("slices") /\ events'["slices"][j] = events["slices"][j] /\ j \in 1..n
    <3>1. /\ events["slices"][j].obj.name \in exp["slices"]["deletions"]
          /\ \A i \in Telling("slices") : i < j => events["slices"][i].obj.name # events["slices"][j].obj.name
      BY <2>1, <2>2 DEF Heard
    <3>2. QED
      BY <1>3, <1>4, <2>2, <3>1
  <2>3. CASE j = n + 1
    <3>1. ~(n + 1 < n + 1)
      BY <1>1
    <3>2. QED
      BY <1>1, <1>3, <2>1, <2>3, <3>1
  <2>4. QED
    BY <1>3, <2>1, <2>2, <2>3
<1>8. QED
  BY <1>5, <1>6, <1>7 DEF Heard

\* What is left of the plan is not what that event tells.
LEMMA ClearMore ==
  ASSUME TypeInv, NEW todo, Clear(todo), NEW type, NEW o, Tells("slices", type, o),
         \A u : Live("slices", u)' <=> Live("slices", u),
         type # "Update" => \A i \in 1..Len(todo) : todo[i].obj.name = o.name =>
           todo[i].verb # "delete" /\ (todo[i].verb = "create" => type # "Create"),
         \A i \in 1..Len(todo) : \A x \in api["slices"] :
           todo[i].verb = "delete" /\ todo[i].obj.name = x.name /\ Live("slices", x.owner) =>
             \E y \in api'["slices"] : y.name = x.name /\ y.owner = x.owner
  PROVE  Clear(todo)'
<1> DEFINE n == Len(events["slices"])
<1>1. /\ n \in Nat /\ Len(events'["slices"]) = n + 1 /\ n + 1 \in 1..Len(events'["slices"])
      /\ events'["slices"][n + 1].type = type /\ events'["slices"][n + 1].obj = o
      /\ \A i \in 1..n : i \in 1..Len(events'["slices"]) /\ events'["slices"][i] = events["slices"][i]
      /\ \A i \in 1..Len(events'["slices"]) : i \in 1..n \/ i = n + 1
  <2>1. "slices" \in Kinds
    BY DEF Kinds
  <2>2. QED
    BY <2>1, Sending
<1>2. ASSUME NEW i \in Telling("slices")'
      PROVE  \/ i \in Telling("slices") /\ events'["slices"][i] = events["slices"][i]
             \/ i = n + 1 /\ type # "Update"
  BY <1>1, <1>2 DEF Telling
<1> HIDE DEF n
<1>3. \A i \in 1..Len(todo), j \in Telling("slices")' :
        events'["slices"][j].obj.name = todo[i].obj.name =>
          todo[i].verb # "delete" /\ (todo[i].verb = "create" => events'["slices"][j].type # "Create")
  BY <1>1, <1>2 DEF Clear
<1>4. \A i \in 1..Len(todo) : todo[i].verb = "delete" =>
        \E y \in api'["slices"] : y.name = todo[i].obj.name /\ Live("slices", y.owner)'
  BY DEF Clear
<1>5. QED
  BY <1>3, <1>4 DEF Clear

\* The garbage collector deletes no EndpointSlice whose Service is there.
LEMMA ReadyGarbage ==
  ASSUME NEW k \in Kinds, OneTyped, ReadyAll, CollectGarbage(k) PROVE ReadyAll'
<1>1. k = "slices" /\ Only(k) /\ UNCHANGED <<proxy, cache, seen, exp, work, uids>>
  BY GarbageSays
<1>2. PICK o \in Children(k) : Removes(k, o) /\ \A s \in api["services"] : s.uid # o.owner
  BY GarbageSays
<1>3. /\ "services" \in Kinds /\ "slices" \in Kinds /\ "services" # k
      /\ Tells("slices", "Delete", o) /\ o \in api["slices"] /\ api'["slices"] = api["slices"] \ {o}
      /\ \A j \in Kinds : j # "slices" => api'[j] = api[j] /\ events'[j] = events[j]
  BY <1>1, <1>2 DEF Kinds, Removes, Only
<1>4. \A j \in Kinds : \A u : Live(j, u)' <=> Live(j, u)
  BY <1>1, <1>3 DEF Live
<1>5. ~Live("slices", o.owner) /\ TypeInv /\ Unique(api["slices"])
  BY <1>2, <1>3 DEF Live, OneTyped, ReadyAll, Tracing, Traced
<1>6. Tracing'
  <2>1. Traced("slices")'
    <3>1. Traced(k) /\ cache'[k] = cache[k]
      BY <1>1 DEF ReadyAll, Tracing
    <3>2. QED
      BY <1>1, <1>2, <1>5, <3>1, TracedChange
  <2>2. \A j \in Kinds : j # "slices" => Traced(j)'
    BY <1>1, <1>3, TracedSame DEF ReadyAll, Tracing
  <2>3. QED
    BY <2>1, <2>2 DEF Tracing
<1>7. Aged'
  <2>1. \A j \in Kinds : api'[j] \subseteq api[j]
    BY <1>3
  <2>2. work' = Idle \/ (work # Idle /\ work'.inst = work.inst)
    BY <1>1
  <2>3. QED
    BY <1>1, <2>1, <2>2, AgedFrame DEF ReadyAll
<1>8. Dated'
  <2>1. /\ Len(events'["slices"]) = Len(events["slices"]) + 1
        /\ events'["slices"][Len(events["slices"]) + 1].obj = o
        /\ \A i \in 1..Len(events["slices"]) : events'["slices"][i] = events["slices"][i]
        /\ \A i \in 1..Len(events'["slices"]) : i \in 1..Len(events["slices"]) \/ i = Len(events["slices"]) + 1
    BY <1>3, <1>5, Sending
  <2>2. o.owner <= uids
    BY <1>3 DEF ReadyAll, Dated
  <2>3. QED
    BY <1>1, <1>3, <2>1, <2>2 DEF ReadyAll, Dated
<1>9. Heard'
  BY <1>1, <1>3, <1>4, <1>5, HeardMore DEF ReadyAll
<1>10. Cleared'
  <2>1. SUFFICES ASSUME work # Idle, work.kind = "slices"
                 PROVE  Clear(work.todo)' /\ (work.pc = "sync" => SatisfiedExpectations(exp["slices"]))
    BY <1>1 DEF Cleared
  <2>2. PICK todo : todo = work.todo
    OBVIOUS
  <2>3. Clear(todo) /\ (work.pc = "sync" => SatisfiedExpectations(exp["slices"]))
    BY <2>1, <2>2 DEF ReadyAll, Cleared
  <2>4. ASSUME NEW i \in 1..Len(todo), todo[i].verb = "delete", todo[i].obj.name = o.name PROVE FALSE
    <3>1. PICK x \in api["slices"] : x.name = todo[i].obj.name /\ Live("slices", x.owner)
      BY <2>3, <2>4 DEF Clear
    <3>2. x = o
      BY <1>3, <1>5, <2>4, <3>1 DEF Unique
    <3>3. QED
      BY <1>5, <3>1, <3>2
  <2>5. \A i \in 1..Len(todo) : todo[i].obj.name = o.name =>
          todo[i].verb # "delete" /\ (todo[i].verb = "create" => "Delete" # "Create")
    BY <2>4
  <2>6. \A i \in 1..Len(todo) : \A x \in api["slices"] :
          todo[i].verb = "delete" /\ todo[i].obj.name = x.name /\ Live("slices", x.owner) =>
            \E y \in api'["slices"] : y.name = x.name /\ y.owner = x.owner
    BY <1>3, <1>5
  <2>7. \A u : Live("slices", u)' <=> Live("slices", u)
    BY <1>3, <1>4
  <2>8. Clear(todo)'
    BY <1>3, <1>5, <2>3, <2>5, <2>6, <2>7, ClearMore
  <2>9. QED
    BY <1>1, <2>2, <2>3, <2>8
<1>11. Announced("slices")'
  BY <1>1 DEF ReadyAll, Announced
<1>12. Progress' /\ Stages'
  <2>1. \A j \in Kinds : \A u : Live(j, u) => \A x : x.owner = u => (x \in api'[j] <=> x \in api[j])
    BY <1>3, <1>5
  <2>2. QED
    BY <1>1, <1>4, <2>1, StagesFrame DEF ReadyAll
<1>13. QED
  BY <1>6, <1>7, <1>8, <1>9, <1>10, <1>11, <1>12 DEF ReadyAll

\* The first event of the EndpointSlices is delivered: what it tells of is no
\* longer expected, and no later event tells the same.
LEMMA HeardDeliver ==
  ASSUME TypeInv, Dated, Heard, work # Idle /\ work.kind = "slices" => Clear(work.todo),
         Announced("slices"), UNCHANGED <<api, work, uids>>,
         events["slices"] # <<>>, events'["slices"] = Tail(events["slices"]),
         NEW e, e = Head(events["slices"]),
         \/ exp'["slices"] = exp["slices"]
         \/ e.type # "Update" /\ exp'["slices"] = Observe(exp["slices"], Observed(e.type), e.obj.name)
  PROVE  /\ Dated' /\ Heard' /\ Announced("slices")'
         /\ \A todo : Clear(todo) => Clear(todo)'
         /\ SatisfiedExpectations(exp["slices"]) => SatisfiedExpectations(exp'["slices"])
<1> DEFINE n == Len(events["slices"])
<1>0. "slices" \in Kinds /\ "creations" \in Actions /\ "deletions" \in Actions
  BY DEF Kinds, Actions
<1>1. /\ n \in Nat /\ n > 0 /\ Len(events'["slices"]) = n - 1 /\ e = events["slices"][1]
      /\ \A i \in 1..(n - 1) : i + 1 \in 1..n /\ events'["slices"][i] = events["slices"][i + 1]
  <2>1. events["slices"] \in Seq(Events("slices"))
    BY <1>0 DEF TypeInv, TypeOK
  <2>2. QED
    BY <2>1
<1>2. \A i \in Telling("slices")' :
        /\ i + 1 \in Telling("slices") /\ i \in 1..(n - 1) /\ events'["slices"][i] = events["slices"][i + 1]
        /\ 1 < i + 1 /\ 1 # i + 1
  BY <1>1 DEF Telling
<1>3. e.type # "Update" => 1 \in Telling("slices")
  BY <1>1 DEF Telling
<1>4. exp["slices"] \in [Actions -> SUBSET Names("slices")]
  BY <1>0 DEF TypeInv, TypeOK
<1>5. /\ \A x \in exp["slices"]["creations"] :
           x \in exp'["slices"]["creations"] \/ (e.type = "Create" /\ x = e.obj.name)
      /\ \A x \in exp["slices"]["deletions"] :
           x \in exp'["slices"]["deletions"] \/ (e.type # "Update" /\ x = e.obj.name /\ e.type # "Create")
  <2>1. CASE exp'["slices"] = exp["slices"]
    BY <2>1
  <2>2. CASE e.type # "Update" /\ exp'["slices"] = Observe(exp["slices"], Observed(e.type), e.obj.name)
    BY <1>0, <1>4, <2>2 DEF Observe, Observed, Actions
  <2>3. QED
    BY <2>1, <2>2
<1>6. \A u : Live("slices", u)' <=> Live("slices", u)
  BY DEF Live
<1>7. Dated'
  BY <1>1 DEF Dated
<1> HIDE DEF n
<1>8. \A i \in Telling("slices")' : events'["slices"][i].type = "Create" =>
        events'["slices"][i].obj.name \in exp'["slices"]["creations"]
  <2>1. SUFFICES ASSUME NEW i \in Telling("slices")', events'["slices"][i].type = "Create"
                 PROVE  events'["slices"][i].obj.name \in exp'["slices"]["creations"]
    OBVIOUS
  <2>2. PICK m \in Telling("slices") : m = i + 1 /\ events'["slices"][i] = events["slices"][m] /\ 1 # m
    BY <1>2
  <2>3. events["slices"][m].obj.name \in exp["slices"]["creations"]
    BY <2>1, <2>2 DEF Heard
  <2>4. e.type = "Create" => events["slices"][m].obj.name # e.obj.name
    BY <1>1, <1>3, <2>1, <2>2 DEF Heard
  <2>5. QED
    BY <1>5, <2>2, <2>3, <2>4
<1>9. \A i, j \in Telling("slices")' :
        events'["slices"][i].type = "Create" /\ events'["slices"][j].type = "Create"
          /\ events'["slices"][i].obj.name = events'["slices"][j].obj.name => i = j
  <2>1. SUFFICES ASSUME NEW i \in Telling("slices")', NEW j \in Telling("slices")',
                        events'["slices"][i].type = "Create", events'["slices"][j].type = "Create",
                        events'["slices"][i].obj.name = events'["slices"][j].obj.name
                 PROVE  i = j
    OBVIOUS
  <2>2. i + 1 = j + 1
    BY <1>2, <2>1 DEF Heard
  <2>3. i \in Nat /\ j \in Nat
    BY <1>2
  <2>4. QED
    BY <2>2, <2>3
<1>10. \A j \in Telling("slices")' :
         events'["slices"][j].type = "Delete" /\ Live("slices", events["slices"][j].obj.owner)' =>
           /\ events'["slices"][j].obj.name \in exp'["slices"]["deletions"]
           /\ \A i \in Telling("slices")' : i < j => events'["slices"][i].obj.name # events'["slices"][j].obj.name
  <2>1. SUFFICES ASSUME NEW j \in Telling("slices")', events'["slices"][j].type = "Delete",
                        NEW u, u = events'["slices"][j].obj.owner, Live("slices", u)
                 PROVE  /\ events'["slices"][j].obj.name \in exp'["slices"]["deletions"]
                        /\ \A i \in Telling("slices")' : i < j =>
                             events'["slices"][i].obj.name # events'["slices"][j].obj.name
    BY <1>6
  <2>2. PICK m \in Telling("slices") : /\ m = j + 1 /\ events'["slices"][j] = events["slices"][m]
                                       /\ 1 < m /\ j \in 1..(n - 1)
    BY <1>2
  <2>3. /\ events["slices"][m].obj.name \in exp["slices"]["deletions"]
        /\ \A i \in Telling("slices") : i < m => events["slices"][i].obj.name # events["slices"][m].obj.name
    BY <2>1, <2>2 DEF Heard
  <2>4. e.type # "Update" => events["slices"][m].obj.name # e.obj.name
    BY <1>1, <1>3, <2>2, <2>3
  <2>5. ASSUME NEW i \in Telling("slices")', i < j
        PROVE  events'["slices"][i].obj.name # events'["slices"][j].obj.name
    <3>1. /\ i + 1 \in Telling("slices") /\ i \in 1..(n - 1)
          /\ events'["slices"][i] = events["slices"][i + 1]
      BY <1>2
    <3>2. i + 1 < m
      BY <2>2, <2>5, <3>1
    <3>3. QED
      BY <2>2, <2>3, <3>1, <3>2
  <2>6. QED
    BY <1>5, <2>2, <2>3, <2>4, <2>5
<1>11. Heard'
  BY <1>8, <1>9, <1>10 DEF Heard
<1>12. Announced("slices")'
  <2>1. SUFFICES ASSUME work # Idle, work.kind = "slices", work.pc = "call", Head(work.todo).verb # "update"
                 PROVE  Head(work.todo).obj.name \in exp'["slices"][Intended(Head(work.todo).verb)]
    BY DEF Announced
  <2>2. PICK todo \in Seq(Ops("slices")) : todo = work.todo /\ todo # <<>>
    BY <2>1, Ongoing DEF TypeInv, Sized
  <2>3. PICK op : op = Head(todo) /\ 1 \in 1..Len(todo) /\ op = todo[1] /\ op \in Ops("slices")
    BY <2>2
  <2>4. op.verb \in {"create", "delete"}
    BY <1>0, <2>1, <2>2, <2>3, OpHas
  <2>5. op.obj.name \in exp["slices"][Intended(op.verb)]
    BY <2>1, <2>2, <2>3 DEF Announced
  <2>6. Clear(todo)
    BY <2>1, <2>2
  <2>7. e.type # "Update" /\ e.obj.name = op.obj.name => op.verb # "delete" /\ e.type # "Create"
    BY <1>1, <1>3, <2>3, <2>4, <2>6 DEF Clear
  <2>8. op.obj.name \in exp'["slices"][Intended(op.verb)]
    BY <1>5, <2>4, <2>5, <2>7 DEF Intended
  <2>9. QED
    BY <2>2, <2>3, <2>8
<1>13. ASSUME NEW todo, Clear(todo) PROVE Clear(todo)'
  <2>1. \A i \in 1..Len(todo), j \in Telling("slices")' :
          events'["slices"][j].obj.name = todo[i].obj.name =>
            todo[i].verb # "delete" /\ (todo[i].verb = "create" => events'["slices"][j].type # "Create")
    BY <1>2, <1>13 DEF Clear
  <2>2. QED
    BY <1>6, <1>13, <2>1 DEF Clear
<1>14. SatisfiedExpectations(exp["slices"]) => SatisfiedExpectations(exp'["slices"])
  BY <1>4 DEF SatisfiedExpectations, Observe
<1>15. QED
  BY <1>7, <1>11, <1>12, <1>13, <1>14

LEMMA ReadyDeliver ==
  ASSUME NEW k \in Kinds, OneTyped, ReadyAll, Deliver(k) PROVE ReadyAll'
<1>1. /\ events[k] # <<>> /\ events' = [events EXCEPT ![k] = Tail(@)]
      /\ cache' = [cache EXCEPT ![k] = Folded(@, Head(events[k]))]
      /\ exp' = IF Head(events[k]).type # "Update" /\ Resolves(k, Head(events[k]).obj)
                  THEN [exp EXCEPT ![k] = Observe(@, Observed(Head(events[k]).type), Head(events[k]).obj.name)]
                  ELSE exp
      /\ UNCHANGED <<proxy, api, seen, work, uids, bounds>>
  BY DEF Deliver
<1>2. /\ DOMAIN cache = Kinds /\ DOMAIN events = Kinds /\ DOMAIN exp = Kinds /\ "slices" \in Kinds
      /\ TypeInv
  BY DEF OneTyped, TypeInv, TypeOK, Kinds
<1>3. /\ events'[k] = Tail(events[k]) /\ cache'[k] = Folded(cache[k], Head(events[k]))
      /\ \A j \in Kinds : j # k => events'[j] = events[j] /\ cache'[j] = cache[j] /\ exp'[j] = exp[j]
  BY <1>1, <1>2
<1>4. Tracing'
  <2>1. Traced(k)'
    BY <1>1, <1>2, <1>3, TracedDeliver DEF ReadyAll, Tracing
  <2>2. \A j \in Kinds : j # k => Traced(j)'
    BY <1>1, <1>3, TracedSame DEF ReadyAll, Tracing
  <2>3. QED
    BY <2>1, <2>2 DEF Tracing
<1>5. Aged'
  <2>1. work' = Idle \/ (work # Idle /\ work'.inst = work.inst)
    BY <1>1
  <2>2. QED
    BY <1>1, <2>1, AgedFrame DEF ReadyAll
<1>6. CASE k # "slices"
  <2>1. events'["slices"] = events["slices"] /\ exp'["slices"] = exp["slices"]
    BY <1>2, <1>3, <1>6
  <2>2. QED
    BY <1>1, <1>4, <1>5, <2>1, Still DEF ReadyAll
<1>7. CASE k = "slices"
  <2>1. PICK e : e = Head(events["slices"])
    OBVIOUS
  <2>2. \/ exp'["slices"] = exp["slices"]
        \/ e.type # "Update" /\ exp'["slices"] = Observe(exp["slices"], Observed(e.type), e.obj.name)
    BY <1>1, <1>2, <1>7, <2>1
  <2>3. work # Idle /\ work.kind = "slices" => Clear(work.todo)
    BY DEF ReadyAll, Cleared
  <2>4. /\ Dated' /\ Heard' /\ Announced("slices")'
        /\ \A todo : Clear(todo) => Clear(todo)'
        /\ SatisfiedExpectations(exp["slices"]) => SatisfiedExpectations(exp'["slices"])
    BY <1>1, <1>2, <1>3, <1>7, <2>1, <2>2, <2>3, HeardDeliver DEF ReadyAll
  <2>5. Cleared'
    <3>1. PICK todo : todo = work.todo
      OBVIOUS
    <3>2. Clear(todo) => Clear(todo)'
      BY <2>4
    <3>3. QED
      BY <1>1, <2>4, <3>1, <3>2 DEF ReadyAll, Cleared
  <2>6. Progress' /\ Stages'
    <3>1. \A j \in Kinds : \A u : Live(j, u)' <=> Live(j, u)
      BY <1>1 DEF Live
    <3>2. QED
      BY <1>1, <3>1, StagesFrame DEF ReadyAll
  <2>7. QED
    BY <1>4, <1>5, <2>4, <2>5, <2>6 DEF ReadyAll
<1>8. QED
  BY <1>6, <1>7

\* What op does, on the child o.
Does(k, op, o) ==
  /\ o.name = op.obj.name /\ op.verb \in {"create", "update", "delete"}
  /\ op.verb = "create" => Adds(k, o) /\ o.owner = op.obj.owner /\ o.rev = op.obj.rev
  /\ op.verb = "update" => Replaces(k, op.old, o) /\ o = op.obj
  /\ op.verb = "delete" => Removes(k, o)

\* An operation that is carried out is not needed any more, and all others
\* still are.
LEMMA CoversNext ==
  ASSUME NEW k \in Kinds, NEW u, Unique(api[k]), NEW todo \in Seq(Ops(k)), todo # <<>>,
         Covers(k, u, todo), NEW op, op = Head(todo), NEW o, Does(k, op, o), work'.inst = work.inst
  PROVE  Covers(k, u, Tail(todo))'
<1>1. /\ op = todo[1] /\ 1 \in 1..Len(todo) /\ Len(Tail(todo)) = Len(todo) - 1 /\ Len(todo) \in Nat
      /\ \A i \in 1..Len(Tail(todo)) : i + 1 \in 1..Len(todo) /\ Tail(todo)[i] = todo[i + 1]
  OBVIOUS
<1>2. PICK t : t = Tail(todo)
  OBVIOUS
<1>3. Apt(k, u, op)
  BY <1>1 DEF Covers
<1>4. ASSUME NEW verb, NEW n, Has(todo, verb, n), n # op.obj.name \/ verb # op.verb PROVE Has(t, verb, n)
  <2>1. PICK i \in 1..Len(todo) : todo[i].verb = verb /\ todo[i].obj.name = n
    BY <1>4 DEF Has
  <2>2. i # 1
    BY <1>1, <1>4, <2>1
  <2>3. i - 1 \in 1..Len(Tail(todo)) /\ (i - 1) + 1 = i
    BY <1>1, <2>2
  <2>4. Tail(todo)[i - 1] = todo[i]
    BY <1>1, <2>3
  <2>5. QED
    BY <1>2, <2>1, <2>3, <2>4 DEF Has
<1>5. \A i \in 1..Len(t) : Apt(k, u, t[i])
  BY <1>1, <1>2 DEF Covers
<1>6. Goal(k)' = Goal(k) /\ \A n : Remedy(k, n)' = Remedy(k, n)
  BY DEF Goal, Remedy
<1>7. \A i \in 1..Len(t) : Apt(k, u, t[i])'
  BY <1>5, <1>6 DEF Apt
<1>8. \A x : x.name # op.obj.name => (x \in api'[k] <=> x \in api[k])
  BY DEF Does, Adds, Replaces, Removes, Same
<1>9. IF op.verb = "delete"
        THEN op.obj.name \notin Goal(k) /\ \A x \in api'[k] : x.name # op.obj.name
        ELSE /\ op.obj.name \in Goal(k) /\ o \in api'[k]
             /\ o.name = op.obj.name /\ o.owner = u /\ o.rev = work.inst.gen
             /\ \A x \in api'[k] : x.name = op.obj.name => x = o
  BY <1>3 DEF Does, Adds, Replaces, Removes, Same, Apt, Unique
<1>10. ASSUME NEW x \in api'[k], x.owner = u
       PROVE  (x.name \in Goal(k) /\ x.rev = work.inst.gen) \/ Has(t, Remedy(k, x.name), x.name)
  <2>1. CASE x.name = op.obj.name
    BY <1>9, <2>1
  <2>2. CASE x.name # op.obj.name
    <3>1. (x.name \in Goal(k) /\ x.rev = work.inst.gen) \/ Has(todo, Remedy(k, x.name), x.name)
      BY <1>8, <1>10, <2>2 DEF Covers
    <3>2. QED
      BY <1>4, <2>2, <3>1
  <2>3. QED
    BY <2>1, <2>2
<1>11. ASSUME NEW n \in Goal(k)
       PROVE  (\E x \in api'[k] : x.owner = u /\ x.name = n) \/ Has(t, "create", n)
  <2>1. CASE n = op.obj.name
    BY <1>9, <1>11, <2>1
  <2>2. CASE n # op.obj.name
    <3>1. (\E x \in api[k] : x.owner = u /\ x.name = n) \/ Has(todo, "create", n)
      BY <1>11 DEF Covers
    <3>2. QED
      BY <1>4, <1>8, <2>2, <3>1
  <2>3. QED
    BY <2>1, <2>2
<1>12. Covers(k, u, t)'
  <2>1. \A x \in api'[k] : x.owner = u =>
          (x.name \in Goal(k)' /\ x.rev = work'.inst.gen) \/ Has(t, Remedy(k, x.name)', x.name)
    BY <1>6, <1>10
  <2>2. \A n \in Goal(k)' : (\E x \in api'[k] : x.owner = u /\ x.name = n) \/ Has(t, "create", n)
    BY <1>6, <1>11
  <2>3. QED
    BY <1>7, <2>1, <2>2 DEF Covers, Has
<1>13. QED
  BY <1>2, <1>12

\* The reconcile works for an owner that is there.
LEMMA LiveOne ==
  ASSUME OneTyped, Stages, work # Idle
  PROVE  \E u \in 1..MaxUid : Live(work.kind, u)
<1>1. seen.exists /\ seen.uid \in 1..MaxUid /\ work.kind \in Kinds
  BY Ongoing DEF OneTyped, Followed
<1>2. CASE work.kind # "slices"
  BY <1>1, <1>2 DEF Live
<1>3. CASE work.kind = "slices"
  <2>1. Part("services", seen.uid)
    BY <1>3 DEF Stages
  <2>2. work.inst.spec.svc \in Goal("services")
    BY DEF Goal
  <2>3. PICK s \in api["services"] : TRUE
    BY <2>1, <2>2 DEF Part
  <2>4. s.uid \in 1..MaxUid
    BY Numbers DEF OneTyped
  <2>5. QED
    BY <1>3, <2>4 DEF Live
<1>4. QED
  BY <1>2, <1>3

\* The rest of a plan is clear where the plan is.
LEMMA ClearTail ==
  ASSUME NEW k, NEW todo \in Seq(Ops(k)), todo # <<>>, Clear(todo)
  PROVE  /\ Clear(Tail(todo))
         /\ Head(todo).verb # "update" => \A i \in 1..Len(Tail(todo)) :
              Tail(todo)[i].verb # "update" => Tail(todo)[i].obj.name # Head(todo).obj.name
<1>1. /\ Head(todo) = todo[1] /\ 1 \in 1..Len(todo)
      /\ \A i \in 1..Len(Tail(todo)) : /\ i + 1 \in 1..Len(todo) /\ Tail(todo)[i] = todo[i + 1]
                                       /\ i + 1 # 1 /\ i \in Nat
  OBVIOUS
<1>2. PICK t : t = Tail(todo)
  OBVIOUS
<1>3. \A i, j \in 1..Len(t) : i + 1 = j + 1 => i = j
  BY <1>1, <1>2
<1>4. Clear(t)
  <2>1. \A i, j \in 1..Len(t) :
          t[i].verb # "update" /\ t[j].verb # "update" /\ t[i].obj.name = t[j].obj.name => i = j
    BY <1>1, <1>2, <1>3 DEF Clear
  <2>2. QED
    BY <1>1, <1>2, <2>1 DEF Clear
<1>5. QED
  BY <1>1, <1>2, <1>4 DEF Clear

\* What a call on an EndpointSlice tells is expected and was not told before.
LEMMA HeardDone ==
  ASSUME OneTyped, Heard, Unique(api["slices"]), NEW todo \in Seq(Ops("slices")), todo # <<>>, Clear(todo),
         NEW op \in Ops("slices"), op = Head(todo), NEW o \in Children("slices"), Does("slices", op, o),
         op.verb # "update" => op.obj.name \in exp["slices"][Intended(op.verb)],
         exp' = exp, api'["services"] = api["services"]
  PROVE  Heard' /\ Clear(Tail(todo))'
<1>1. \A u : Live("slices", u)' <=> Live("slices", u)
  BY DEF Live
<1>2. PICK type \in {"Create", "Update", "Delete"} :
        /\ Tells("slices", type, o)
        /\ type = CASE op.verb = "create" -> "Create" [] op.verb = "update" -> "Update" [] op.verb = "delete" -> "Delete"
  BY DEF Does, Adds, Replaces, Removes
<1>3. /\ type = "Create" <=> op.verb = "create"
      /\ type = "Update" <=> op.verb = "update"
      /\ type = "Delete" <=> op.verb = "delete"
  BY <1>2 DEF Does
<1>4. o.name = op.obj.name /\ 1 \in 1..Len(todo) /\ op = todo[1]
  BY DEF Does
<1>5. \A i \in Telling("slices") : events["slices"][i].obj.name = o.name =>
        op.verb # "delete" /\ (op.verb = "create" => events["slices"][i].type # "Create")
  BY <1>4 DEF Clear
<1>6. /\ type = "Create" => o.name \in exp["slices"]["creations"]
      /\ type = "Delete" => o.name \in exp["slices"]["deletions"]
  BY <1>3, <1>4 DEF Intended
<1>7. Heard'
  <2>1. type = "Create" =>
          /\ o.name \in exp["slices"]["creations"]
          /\ \A i \in Telling("slices") :
               events["slices"][i].type = "Create" => events["slices"][i].obj.name # o.name
    BY <1>3, <1>5, <1>6
  <2>2. type = "Delete" /\ Live("slices", o.owner) =>
          /\ o.name \in exp["slices"]["deletions"]
          /\ \A i \in Telling("slices") : events["slices"][i].obj.name # o.name
    BY <1>3, <1>5, <1>6
  <2>3. TypeInv /\ exp'["slices"] = exp["slices"]
    BY DEF OneTyped
  <2>4. QED
    BY <1>1, <1>2, <2>1, <2>2, <2>3, HeardMore
<1>8. PICK t : t = Tail(todo)
  OBVIOUS
<1>9. Clear(t) /\ (op.verb # "update" => \A i \in 1..Len(t) : t[i].verb # "update" => t[i].obj.name # o.name)
  BY <1>4, <1>8, ClearTail
<1>10. Clear(t)'
  <2>1. type # "Update" => \A i \in 1..Len(t) : t[i].obj.name = o.name =>
          t[i].verb # "delete" /\ (t[i].verb = "create" => type # "Create")
    BY <1>3, <1>9
  <2>2. ASSUME NEW i \in 1..Len(t), NEW x \in api["slices"], t[i].verb = "delete", t[i].obj.name = x.name
        PROVE  \E y \in api'["slices"] : y.name = x.name /\ y.owner = x.owner
    <3>1. CASE op.verb = "create"
      BY <3>1 DEF Does, Adds
    <3>2. CASE op.verb = "update"
      BY <3>2 DEF Does, Replaces, Same
    <3>3. CASE op.verb = "delete"
      BY <1>9, <2>2, <3>3 DEF Does, Removes
    <3>4. QED
      BY <3>1, <3>2, <3>3 DEF Does
  <2>3. TypeInv
    BY DEF OneTyped
  <2>4. QED
    BY <1>1, <1>2, <1>9, <2>1, <2>2, <2>3, ClearMore
<1>11. QED
  BY <1>7, <1>8, <1>10

\* A call that takes effect.
LEMMA ReadyDone ==
  ASSUME OneTyped, ReadyAll, work # Idle, work.pc = "call", UNCHANGED <<proxy, cache, seen>>,
         work.kind \in Kinds, work.todo \in Seq(Ops(work.kind)), work.todo # <<>>,
         Head(work.todo) \in Ops(work.kind), Effective(work.kind, Head(work.todo))
  PROVE  ReadyAll'
<1>1. PICK k \in Kinds : k = work.kind
  OBVIOUS
<1>2. PICK todo \in Seq(Ops(k)) : todo = work.todo /\ todo # <<>>
  BY <1>1
<1>3. PICK op \in Ops(k) : op = Head(todo)
  BY <1>1, <1>2
<1>4. PICK v : v = seen.uid /\ seen.exists /\ v = seen'.uid
  BY DEF OneTyped, Followed
<1>5. /\ TypeInv /\ Tracing /\ Aged /\ Dated /\ Heard /\ Progress /\ Stages
      /\ \A j \in Kinds : Traced(j) /\ Unique(api[j])
  BY DEF OneTyped, ReadyAll, Tracing, Traced
<1>6. "services" \in Kinds /\ "ingresses" \in Kinds /\ "slices" \in Kinds
  BY DEF Kinds
<1>7. \A u \in 1..MaxUid : Live(k, u) => Covers(k, u, todo)
  BY <1>1, <1>2, <1>5 DEF Progress
<1>8. PICK w \in 1..MaxUid : Live(k, w)
  BY <1>1, <1>5, LiveOne
<1>9. Apt(k, w, op)
  <2>1. Covers(k, w, todo)
    BY <1>7, <1>8
  <2>2. 1 \in 1..Len(todo) /\ op = todo[1]
    BY <1>2, <1>3
  <2>3. QED
    BY <2>1, <2>2 DEF Covers
<1>10. /\ Effective(k, op) /\ exp' = exp /\ work' # Idle /\ work'.pc = "intend" /\ work'.kind = k
       /\ work'.todo = Tail(todo) /\ work'.inst = work.inst
  BY <1>1, <1>2, <1>3 DEF Effective, Goes
<1>11. op.verb = "update" => Same(op.old, op.obj) /\ op.old.rev <= op.obj.rev
  <2>1. op.verb = "update" => op.old \in api[k]
    BY <1>10 DEF Effective, Accepted
  <2>2. QED
    BY <1>5, <1>9, <2>1 DEF Apt, Aged
<1>12. PICK o \in Children(k) :
         /\ Only(k) /\ Does(k, op, o)
         /\ op.verb = "create" /\ k = "services" => o.uid = uids + 1 /\ uids' = uids + 1
         /\ op.verb # "create" \/ k # "services" => uids' = uids
  <2>1. /\ Only(k)
        /\ \E o \in Children(k) :
             /\ o.name = op.obj.name
             /\ op.verb = "create" => /\ Adds(k, o) /\ o.owner = op.obj.owner /\ o.rev = op.obj.rev
                                      /\ k = "services" => o.uid = uids + 1 /\ uids' = uids + 1
                                      /\ k # "services" => uids' = uids
             /\ op.verb = "update" => Replaces(k, op.old, o) /\ o = op.obj /\ uids' = uids
             /\ op.verb = "delete" => Removes(k, o) /\ uids' = uids
    BY <1>5, <1>10, <1>11, EffectIs
  <2>2. op.verb \in {"create", "update", "delete"}
    BY OpHas
  <2>3. QED
    BY <2>1, <2>2 DEF Does
<1>13. Adds(k, o) \/ (\E old : Replaces(k, old, o)) \/ Removes(k, o)
  BY <1>12 DEF Does
<1>14. Tracing'
  <2>1. Traced(k)'
    BY <1>5, <1>12, <1>13, TracedChange
  <2>2. \A j \in Kinds : j # k => Traced(j)'
    BY <1>5, <1>12, TracedSame DEF Only
  <2>3. QED
    BY <2>1, <2>2 DEF Tracing
<1>15. \A x \in api'[k] : x \in api[k] \/ (x = o /\ op.verb # "delete")
  BY <1>12 DEF Does, Adds, Replaces, Removes
<1>16. op.verb # "delete" => o.rev = work.inst.gen /\ o.owner = w
  BY <1>9, <1>12 DEF Does, Apt
<1>17. Aged'
  <2>1. work.inst.gen \in Nat
    BY Ongoing, BoundsAssumption DEF OneTyped
  <2>2. \A j \in Kinds : \A x \in api'[j] : x \in api[j] \/ x.rev = work.inst.gen
    BY <1>12, <1>15, <1>16 DEF Only
  <2>3. work.inst.gen <= seen.gen /\ work.inst.gen <= work.inst.gen
    BY <1>5, <2>1 DEF Aged
  <2>4. QED
    BY <1>4, <1>5, <1>10, <2>2, <2>3 DEF Aged
<1>18. ASSUME NEW j \in Kinds, NEW u, Live(j, u)'
       PROVE  Live(j, u) \/ (j = "slices" /\ k = "services" /\ op.verb = "create" /\ u = uids + 1)
  <2>1. CASE j # "slices"
    BY <1>4, <1>18, <2>1 DEF Live
  <2>2. CASE j = "slices"
    <3>1. PICK s \in api'["services"] : s.uid = u
      BY <1>18, <2>2 DEF Live
    <3>2. CASE k # "services"
      BY <1>6, <1>12, <2>2, <3>1, <3>2 DEF Live, Only
    <3>3. CASE k = "services" /\ s \in api["services"]
      BY <2>2, <3>1, <3>3 DEF Live
    <3>4. CASE k = "services" /\ s = o /\ op.verb = "create"
      BY <1>12, <2>2, <3>1, <3>4
    <3>5. CASE k = "services" /\ s = o /\ op.verb = "update"
      BY <1>12, <2>2, <3>1, <3>5 DEF Live, Does, Replaces, Same
    <3>6. op.verb \in {"create", "update", "delete"}
      BY <1>12 DEF Does
    <3>7. QED
      BY <1>15, <3>1, <3>2, <3>3, <3>4, <3>5, <3>6
  <2>3. QED
    BY <2>1, <2>2
<1>19. uids \in Nat /\ uids' \in Nat /\ uids <= uids'
  BY <1>5, <1>12, Numbers
<1>20. k = "slices" => o.owner <= uids
  <2>1. SUFFICES ASSUME k = "slices" PROVE o.owner <= uids
    OBVIOUS
  <2>2. w <= uids
    BY <1>5, <1>8, <2>1 DEF Live, Dated
  <2>3. op.verb = "delete" => o \in api["slices"]
    BY <1>12, <2>1 DEF Does, Removes
  <2>4. QED
    BY <1>5, <1>16, <2>2, <2>3 DEF Dated
<1>21. Dated'
  <2>1. \A s \in api'["services"] : s.uid <= uids'
    <3>1. CASE k # "services"
      BY <1>5, <1>6, <1>12, <3>1 DEF Only, Dated
    <3>2. CASE k = "services"
      <4>1. \A s \in api["services"] : s.uid <= uids' /\ s.uid \in Nat
        BY <1>5, <1>6, <1>19, Numbers DEF Dated
      <4>2. op.verb = "create" => o.uid <= uids'
        BY <1>12, <1>19, <3>2
      <4>3. op.verb = "update" => \E old \in api["services"] : o.uid = old.uid
        BY <1>12, <3>2 DEF Does, Replaces, Same
      <4>4. op.verb \in {"create", "update", "delete"}
        BY <1>12 DEF Does
      <4>5. QED
        BY <1>15, <3>2, <4>1, <4>2, <4>3, <4>4
    <3>3. QED
      BY <3>1, <3>2
  <2>2. /\ \A x \in api'["slices"] : x.owner <= uids'
        /\ \A i \in 1..Len(events'["slices"]) : events'["slices"][i].obj.owner <= uids'
    <3>1. CASE k = "slices"
      <4>1. uids' = uids
        BY <1>12, <3>1
      <4>2. \E type : Tells("slices", type, o)
        BY <1>13, <3>1 DEF Adds, Replaces, Removes
      <4>3. /\ events'["slices"][Len(events["slices"]) + 1].obj = o
            /\ \A i \in 1..Len(events["slices"]) : events'["slices"][i] = events["slices"][i]
            /\ \A i \in 1..Len(events'["slices"]) :
                 i \in 1..Len(events["slices"]) \/ i = Len(events["slices"]) + 1
        BY <1>5, <1>6, <4>2, Sending
      <4>4. QED
        BY <1>5, <1>15, <1>20, <3>1, <4>1, <4>3 DEF Dated
    <3>2. CASE k # "slices"
      <4>1. api'["slices"] = api["slices"] /\ events'["slices"] = events["slices"]
        BY <1>6, <1>12, <3>2 DEF Only
      <4>2. /\ \A x \in api["slices"] : x.owner \in Nat /\ x.owner <= uids
            /\ \A i \in 1..Len(events["slices"]) :
                 events["slices"][i].obj.owner \in Nat /\ events["slices"][i].obj.owner <= uids
        BY <1>5, <1>6, Numbers DEF Dated, Events, Children
      <4>3. QED
        BY <1>19, <4>1, <4>2
    <3>3. QED
      BY <3>1, <3>2
  <2>3. QED
    BY <2>1, <2>2 DEF Dated
<1>22. Heard' /\ (k = "slices" => Clear(Tail(todo))')
  <2>1. CASE k = "slices"
    <3>1. Clear(todo)
      BY <1>1, <1>2, <2>1 DEF ReadyAll, Cleared
    <3>2. op.verb # "update" => op.obj.name \in exp["slices"][Intended(op.verb)]
      BY <1>1, <1>2, <1>3, <2>1 DEF ReadyAll, Announced
    <3>3. api'["services"] = api["services"]
      BY <1>6, <1>12, <2>1 DEF Only
    <3>4. QED
      BY <1>2, <1>3, <1>5, <1>6, <1>10, <1>12, <2>1, <3>1, <3>2, <3>3, HeardDone
  <2>2. CASE k # "slices"
    <3>1. events'["slices"] = events["slices"] /\ Telling("slices")' = Telling("slices")
      BY <1>6, <1>12, <2>2 DEF Only, Telling
    <3>2. \A i \in 1..Len(events["slices"]) :
            events["slices"][i].obj.owner \in Nat /\ events["slices"][i].obj.owner <= uids
      BY <1>5, <1>6, Numbers DEF Dated, Events, Children
    <3>3. \A u \in Nat : u <= uids /\ Live("slices", u)' => Live("slices", u)
      BY <1>6, <1>18, <1>19
    <3>4. \A i \in Telling("slices") :
            Live("slices", events["slices"][i].obj.owner)' => Live("slices", events["slices"][i].obj.owner)
      <4>1. SUFFICES ASSUME NEW i \in 1..Len(events["slices"]), NEW u, u = events["slices"][i].obj.owner,
                            Live("slices", u)'
                     PROVE  Live("slices", u)
        BY <3>1 DEF Telling
      <4>2. QED
        BY <3>2, <3>3, <4>1
    <3>5. Heard'
      BY <1>5, <1>10, <3>1, <3>4 DEF Heard
    <3>6. QED
      BY <2>2, <3>5
  <2>3. QED
    BY <2>1, <2>2
<1>23. Cleared'
  BY <1>10, <1>22 DEF Cleared
<1>24. Announced("slices")'
  BY <1>10 DEF Announced
<1>25. Progress'
  <2>1. SUFFICES ASSUME NEW u \in 1..MaxUid, Live(k, u)' PROVE Covers(k, u, Tail(todo))'
    BY <1>10 DEF Progress
  <2>2. Live(k, u)
    BY <1>18, <2>1
  <2>3. Covers(k, u, todo)
    BY <1>7, <2>2
  <2>4. QED
    BY <1>2, <1>3, <1>5, <1>10, <1>12, <2>3, CoversNext
<1>26. Stages'
  <2>1. \A j \in Kinds : j # k => api'[j] = api[j]
    BY <1>12 DEF Only
  <2>2. \A j \in Kinds : j # k => \A u : Part(j, u) => Part(j, u)'
    BY <1>10, <2>1, CoversFrame
  <2>3. /\ k # "services" => Part("services", v)
        /\ k = "ingresses" => \A u \in 1..MaxUid : Live("slices", u) => Part("slices", u)
    BY <1>1, <1>4, <1>5 DEF Stages
  <2>4. k = "ingresses" => \A u : Live("slices", u)' => Live("slices", u)
    BY <1>6, <1>18
  <2>5. /\ k # "services" => Part("services", v)'
        /\ k = "ingresses" => \A u \in 1..MaxUid : Live("slices", u)' => Part("slices", u)'
    BY <1>6, <2>2, <2>3, <2>4
  <2>6. QED
    BY <1>4, <1>10, <2>5 DEF Stages
<1>27. QED
  BY <1>14, <1>17, <1>21, <1>22, <1>23, <1>24, <1>25, <1>26 DEF ReadyAll

-----------------------------------------------------------------------------
(* Ready means built.                                                      *)

ReadyInv == deletes = 0 => ReadyAll

LEMMA ReadyStep ==
  ASSUME ~LostReplies
  PROVE  TypeInv /\ OneInv /\ ReadyInv /\ [Next]_vars => ReadyInv'
<1> SUFFICES ASSUME TypeInv, OneInv, ReadyInv, [Next]_vars, deletes' = 0 PROVE ReadyAll'
  BY DEF ReadyInv
<1>1. deletes = 0
  <2>1. deletes \in Nat
    BY BoundsAssumption DEF TypeInv, TypeOK
  <2>2. deletes' = deletes \/ deletes' = deletes + 1
    BY DEF Next, User, CreateProxy, UpdateProxy, DeleteProxy, Reconcile, Begin, Check, Sync, Intend, Call,
           Status, RefreshProxy, Crash, Deliver, CollectGarbage, vars, bounds
  <2>3. QED
    BY <2>1, <2>2
<1>2. OneTyped /\ ReadyAll
  BY <1>1 DEF OneTyped, OneInv, ReadyInv
<1>3. CASE User
  BY <1>2, <1>3, ReadyUser
<1>4. CASE Call
  <2>1. /\ UNCHANGED <<proxy, cache, seen>>
        /\ work # Idle /\ work.pc = "call" /\ work.kind \in Kinds
        /\ work.todo \in Seq(Ops(work.kind)) /\ work.todo # <<>> /\ Head(work.todo) \in Ops(work.kind)
        /\ Effective(work.kind, Head(work.todo)) \/ Dropped(work.kind, Head(work.todo))
    BY <1>2, <1>4, CallSays
  <2>2. QED
    BY <1>2, <2>1, ReadyDone, ReadyDropped
<1>5. CASE Begin \/ Check \/ Sync \/ Intend \/ Status
  BY <1>2, <1>5, ReadyBegin, ReadyCheck, ReadySync, ReadyIntend, ReadyStatus
<1>6. CASE RefreshProxy \/ Crash
  BY <1>2, <1>6, ReadyRefresh, ReadyCrash
<1>7. ASSUME NEW k \in Kinds, Deliver(k) \/ CollectGarbage(k) PROVE ReadyAll'
  BY <1>2, <1>7, ReadyDeliver, ReadyGarbage
<1>8. CASE UNCHANGED vars
  <2>1. UNCHANGED <<proxy, api, events, cache, seen, exp, work, uids>>
    BY <1>8 DEF vars, children
  <2>2. Tracing'
    BY <1>2, <2>1, TracingFrame DEF ReadyAll
  <2>3. Aged'
    BY <1>2, <2>1 DEF ReadyAll, Aged
  <2>4. QED
    BY <1>2, <2>1, <2>2, <2>3, Still DEF ReadyAll
<1>9. QED
  BY <1>3, <1>4, <1>5, <1>6, <1>7, <1>8 DEF Next, Reconcile

LEMMA PartIs ==
  ASSUME NEW k, NEW u, Part(k, u)
  PROVE  {<<o.name, o.rev>> : o \in {x \in api[k] : x.owner = u}} = {<<n, work.inst.gen>> : n \in Goal(k)}
BY DEF Part

\* Where Ready is written, all three kinds are as they should be.
LEMMA ReadyWritten ==
  ASSUME TypeInv, OneInv, ReadyInv, [Next]_vars, WritesReady, deletes = 0
  PROVE  Built(proxy.uid, work.inst.gen, work.inst.spec)
<1>1. OneTyped /\ ReadyAll /\ work # Idle /\ work.pc = "ready"
  BY DEF OneTyped, OneInv, ReadyInv, WritesReady
<1>2. seen.exists /\ proxy.exists /\ seen.uid = proxy.uid
  BY <1>1 DEF OneTyped, Followed
<1>3. PICK u : u = proxy.uid
  OBVIOUS
<1>4. Stages /\ "services" \in Solo
  BY <1>1 DEF ReadyAll, Solo
<1>5. Part("services", u) /\ Part("ingresses", u) /\ \A v \in 1..MaxUid : Live("slices", v) => Part("slices", v)
  BY <1>1, <1>2, <1>3, <1>4 DEF Stages
<1>6. PICK s \in api["services"] : s.owner = u /\ s.name = work.inst.spec.svc
  <2>1. work.inst.spec.svc \in Goal("services")
    BY DEF Goal
  <2>2. QED
    BY <1>5, <2>1 DEF Part
<1>7. s.rev = work.inst.gen
  BY <1>5, <1>6 DEF Part
<1>8. {o \in api["services"] : o.owner = u} = {s}
  <2>1. \A o \in api["services"] : o = s
    BY <1>1, <1>4 DEF OneTyped, Single, Known
  <2>2. QED
    BY <1>6, <2>1
<1>9. {<<o.name, o.rev>> : o \in {x \in api["slices"] : x.owner = s.uid}}
        = {<<SliceName(work.inst.spec.svc, i), work.inst.gen>> : i \in 1..work.inst.spec.backends}
  <2>1. s.uid \in 1..MaxUid /\ Live("slices", s.uid)
    BY Numbers DEF Live
  <2>2. PICK v \in 1..MaxUid : v = s.uid
    BY <2>1
  <2>3. Part("slices", v)
    BY <1>5, <2>1, <2>2
  <2>4. {<<o.name, o.rev>> : o \in {x \in api["slices"] : x.owner = v}}
          = {<<n, work.inst.gen>> : n \in Goal("slices")}
    BY <2>3, PartIs
  <2>5. Goal("slices") = {SliceName(work.inst.spec.svc, i) : i \in 1..work.inst.spec.backends}
    BY DEF Goal
  <2>6. QED
    BY <2>2, <2>4, <2>5
<1>10. {<<o.name, o.rev>> : o \in {x \in api["ingresses"] : x.owner = u}}
         = IF work.inst.spec.ing = NoIngress THEN {} ELSE {<<work.inst.spec.ing, work.inst.gen>>}
  <2>1. {<<o.name, o.rev>> : o \in {x \in api["ingresses"] : x.owner = u}}
          = {<<n, work.inst.gen>> : n \in Goal("ingresses")}
    BY <1>5, PartIs
  <2>2. Goal("ingresses") = {work.inst.spec.ing} \ {NoIngress}
    BY DEF Goal
  <2>3. QED
    BY <2>1, <2>2
<1>11. QED
  BY <1>3, <1>6, <1>7, <1>8, <1>9, <1>10 DEF Built

(* Where a call that fails has had no effect, Ready is written for a       *)
(* generation only when the API server has exactly the children of that    *)
(* generation, however late the caches are, whatever calls fail and        *)
(* however often the controller restarts, until users delete the proxy.    *)
THEOREM ReadyIsBuilt ==
  ASSUME ~LostReplies
  PROVE  Spec => ReadyMeansBuilt
<1>1. Init => TypeInv /\ OneInv /\ ReadyInv
  BY TypeInit, OneInit, ReadyInit DEF ReadyInv
<1>2. TypeInv /\ OneInv /\ ReadyInv /\ [Next]_vars => (TypeInv /\ OneInv /\ ReadyInv)'
  BY TypeStep, OneStep, ReadyStep
<1>3. TypeInv /\ OneInv /\ ReadyInv /\ [Next]_vars =>
        [WritesReady /\ deletes = 0 => Built(proxy.uid, work.inst.gen, work.inst.spec)]_vars
  BY ReadyWritten
<1>4. QED
  BY <1>1, <1>2, <1>3, PTL DEF Spec, ReadyMeansBuilt
=============================================================================
