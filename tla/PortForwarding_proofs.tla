------------------------ MODULE PortForwarding_proofs ------------------------
(***************************************************************************)
(* Proofs about PortForwarding, for every set of nodes, objects, specs and *)
(* targets and every bound: type correctness; that what a settled node     *)
(* calls Ready is redirected; that what it redirects is recorded, and gone *)
(* with the objects.  All but the first are about reconciles that start    *)
(* from an up-to-date cache.                                               *)
(***************************************************************************)
EXTENDS PortForwarding, FiniteSetTheorems, TLAPS

\* Node n is reconciling the object p.
Doing(n, p) == work[n] # Idle /\ work[n].pf = p

\* The entries that this node had when the reconcile of node n began.
Earlier(n) == Range(work[n].inst.status[n])

Planning == {"finalizer", "sync", "remove"}
Unpatched == Planning \cup {"forward", "withdraw", "patch", "patch-release"}

-----------------------------------------------------------------------------
(* What both properties rest on.                                           *)

Guarded == \A p \in PFs : obj[p].exists /\ obj[p].deleting => obj[p].finalizer

Running(n) == listens[n] # {} => Started(Forwarder(n))

\* The work of a reconcile, as far as its place in the code tells.
Staged(n) ==
  work[n] # Idle =>
    LET w == work[n]
    IN /\ w.pc \in Planning \cup {"patch-release"} => w.ports = <<>>
       /\ w.pc = "withdraw" =>
            /\ \A x \in w.todo : x.verb = "remove" /\ x.entry \in Earlier(n)
            /\ \A x \in Range(w.ports) : x.state = "NoTarget" /\ \E d \in Earlier(n) : x.port = d.port
            /\ w.inst.deleting => w.ports = <<>>

\* What is left to keep or remove: one entry of a port, not yet in the list
\* for the new status.
Apart(n) ==
  work[n] # Idle /\ work[n].pc = "forward" =>
    \A x \in work[n].todo : x.verb # "add" =>
      /\ \A y \in work[n].todo : y.verb # "add" /\ y.entry.port = x.entry.port => x = y
      /\ \A e \in Range(work[n].ports) : e.port = x.entry.port => e.port = NamedPort

\* The status of an object does not change under the reconcile of its node,
\* or it goes with the object.
Steady(n) ==
  \A p \in PFs :
    Doing(n, p) =>
      /\ work[n].pc \in Unpatched => EntriesOf(n, p) \in {Earlier(n), {}}
      /\ work[n].pc = "release" \/ ~cache[n][p].exists => EntriesOf(n, p) = {}

\* A port that two objects have entries of is contested, also when the entries
\* of one are still on their way to the status.
Claimed(n, p) ==
  EntriesOf(n, p) \cup IF Doing(n, p) THEN Earlier(n) \cup Range(work[n].ports) ELSE {}
Disputed(n) ==
  \A o, p \in PFs : o # p =>
    \A d \in EntriesOf(n, o), e \in Claimed(n, p) :
      d.port = e.port /\ d.port \in Ports => d.port \in contested

Base ==
  /\ TypeOK /\ Guarded
  /\ \A n \in Nodes : Running(n) /\ Staged(n) /\ Apart(n) /\ Steady(n) /\ Disputed(n)

-----------------------------------------------------------------------------
(* What is called Ready is redirected.                                     *)

\* An entry that says so is true, or its port may have been taken away, or
\* half taken away.
Doubted(n, e) == e.port \in contested \cup torn[n]
True(n, e) ==
  e.state = "Ready" /\ ~Doubted(n, e)
    => e.port \in listens[n] /\ Redirects(e.port, e.target) \subseteq active[n]

\* It is true unless the guard does not know the port.
Held(n, e) ==
  e.state = "Ready" /\ ~Doubted(n, e) /\ e.port \in listens[n]
    => Redirects(e.port, e.target) \subseteq active[n]

ReadyInv(n) ==
  /\ \A p \in PFs :
       /\ p \notin queue[n] /\ ~Doing(n, p) => \A e \in EntriesOf(n, p) : True(n, e)
       /\ ~(Doing(n, p) /\ work[n].pc \in {"forward", "patch"}) => \A e \in EntriesOf(n, p) : Held(n, e)
  /\ work[n] # Idle =>
       /\ work[n].pc \in Planning => \A e \in Earlier(n) : Held(n, e)
       /\ \A e \in Range(work[n].ports) : True(n, e)
       /\ work[n].pc = "forward" => \A x \in work[n].todo : x.verb = "keep" => Held(n, x.entry)

-----------------------------------------------------------------------------
(* What is redirected is recorded, as long as nothing is unguarded or lost.*)

NothingLost == unguarded \cup lost = {}

\* The entries that account for the redirects of node n on behalf of p: those
\* of the status, or those that the reconcile will write or still withdraw.
Account(n, p) ==
  IF ~Doing(n, p) \/ work[n].pc \in Planning \cup {"release"} THEN EntriesOf(n, p)
  ELSE CASE work[n].pc = "forward" ->
              Range(work[n].ports) \cup {x.entry : x \in {y \in work[n].todo : y.verb # "add"}}
         [] work[n].pc = "withdraw" -> {x.entry : x \in work[n].todo}
         [] OTHER -> Range(work[n].ports)

Accounted(n) ==
  \A r \in active[n] \ stray[n] :
    \E p \in PFs : \E e \in Account(n, p) : e.port = r[1] /\ e.target = r[2]

RecordInv(n) ==
  NothingLost =>
    /\ Accounted(n)
    /\ \A p \in PFs : obj[p].exists => Recorded(obj[p].status[n]) = Range(obj[p].status[n])
    /\ \A p \in PFs :
         Doing(n, p) /\ work[n].pc \in Unpatched =>
           EntriesOf(n, p) = Earlier(n) /\ Recorded(work[n].inst.status[n]) = Earlier(n)

-----------------------------------------------------------------------------
(* Ports, entries and lists of entries.                                    *)

\* Host ports have numbers; the name of a port that the Service lacks has none.
LEMMA PortsHaveNumbers ==
  /\ Ports \subseteq HostPort
  /\ NamedPort \notin Ports
  /\ \A q \in Ports : q.num # 0
  /\ \A s \in Specs : s \in Seq(HostPort) /\ \A i \in 1..Len(s) : s[i] \in Ports
<1>1. \A s \in Specs : s \in Seq(HostPort) /\ \A i \in 1..Len(s) : s[i] \in Ports /\ s[i] \in HostPort
  BY SpecsAssumption DEF Ports
<1>2. Ports \subseteq HostPort
  BY <1>1 DEF Ports
<1>3. \A q \in HostPort : q.num # 0
  BY DEF HostPort
<1> QED
  BY <1>1, <1>2, <1>3 DEF NamedPort

\* The elements of a list of entries.
LEMMA RangeOfList ==
  ASSUME NEW S, NEW s \in Seq(S)
  PROVE  /\ Range(s) = {s[i] : i \in 1..Len(s)}
         /\ Range(s) \subseteq S
         /\ Range(<<>>) = {}
         /\ s = <<>> => Range(s) = {}
BY DEF Range

\* slices.SortFunc after an append: the entry is in the list, nothing is lost.
LEMMA InsertedEntry ==
  ASSUME NEW s \in Seq(Entries), NEW e \in Entries
  PROVE  /\ Inserted(s, e) \in Seq(Entries)
         /\ Range(Inserted(s, e)) = Range(s) \cup {e}
<1> DEFINE K == {i \in 1..Len(s) : s[i].port.num <= e.port.num}
           k == 1 + Cardinality(K)
           l == SubSeq(s, 1, k - 1)
           r == SubSeq(s, k, Len(s))
<1>1. IsFiniteSet(1..Len(s)) /\ Cardinality(1..Len(s)) = Len(s)
  <2>1. Len(s) \in Nat
    OBVIOUS
  <2> QED
    BY SMTT(30), <2>1, FS_Interval
<1>2. Cardinality(K) \in Nat /\ Cardinality(K) <= Len(s)
  BY <1>1, FS_Subset, FS_CardinalityType
<1> HIDE DEF K
<1>3. Inserted(s, e) = l \o <<e>> \o r
  BY DEF Inserted, InsertAt, K
<1>4. k \in 1..Len(s) + 1
  BY <1>2
<1> HIDE DEF k
<1>5. l \in Seq(Entries) /\ Len(l) = k - 1 /\ \A i \in 1..k - 1 : l[i] = s[i]
  BY <1>4
<1>6. r \in Seq(Entries) /\ Len(r) = Len(s) - k + 1 /\ \A i \in 1..Len(s) - k + 1 : r[i] = s[k + i - 1]
  BY <1>4
<1> HIDE DEF l, r
<1>7. l \o <<e>> \in Seq(Entries) /\ Len(l \o <<e>>) = k
      /\ (l \o <<e>>)[k] = e /\ \A i \in 1..k - 1 : (l \o <<e>>)[i] = s[i]
  BY SMTT(30), <1>4, <1>5
<1> DEFINE h == l \o <<e>>
           t == h \o r
<1>0. h \in Seq(Entries) /\ Len(h) = k /\ h[k] = e /\ \A i \in 1..k - 1 : h[i] = s[i]
  BY <1>7
<1> HIDE DEF h
<1>8. t \in Seq(Entries) /\ Len(t) = Len(s) + 1
      /\ (\A i \in 1..k : t[i] = h[i]) /\ \A i \in k + 1..Len(s) + 1 : t[i] = r[i - k]
  BY <1>0, <1>4, <1>6
<1> HIDE DEF t
<1>9. t[k] = e /\ (\A i \in 1..k - 1 : t[i] = s[i]) /\ \A i \in k + 1..Len(s) + 1 : t[i] = s[i - 1]
  <2>1. t[k] = h[k]
    BY <1>4, <1>8
  <2>2. ASSUME NEW i \in 1..k - 1 PROVE t[i] = s[i]
    BY <1>0, <1>4, <1>8, <2>2
  <2>3. ASSUME NEW i \in k + 1..Len(s) + 1 PROVE t[i] = s[i - 1]
    <3>1. i - k \in 1..Len(s) - k + 1 /\ k + (i - k) - 1 = i - 1
      BY <1>4, <2>3
    <3> QED
      BY <1>6, <1>8, <2>3, <3>1
  <2> QED
    BY <1>0, <2>1, <2>2, <2>3
<1>10. ASSUME NEW x \in Range(t) PROVE x \in Range(s) \cup {e}
  <2>1. PICK i \in 1..Len(s) + 1 : x = t[i]
    BY <1>8, RangeOfList
  <2>2. i < k \/ i = k \/ i > k
    BY <1>4
  <2> QED
    BY <2>1, <2>2, <1>4, <1>9, RangeOfList
<1>11. ASSUME NEW x \in Range(s) PROVE x \in Range(t)
  <2>1. PICK i \in 1..Len(s) : x = s[i]
    BY RangeOfList
  <2>2. CASE i < k
    BY <2>1, <2>2, <1>4, <1>8, <1>9, RangeOfList
  <2>3. CASE i >= k
    <3>1. i + 1 \in k + 1..Len(s) + 1 /\ t[i + 1] = s[i]
      BY <2>1, <2>3, <1>4, <1>9
    <3> QED
      BY <2>1, <3>1, <1>4, <1>8, RangeOfList
  <2> QED
    BY <2>2, <2>3, <1>4
<1>12. e \in Range(t)
  BY <1>4, <1>8, <1>9, RangeOfList
<1> QED
  BY <1>3, <1>8, <1>10, <1>11, <1>12 DEF t, h

\* forwardedPorts: one entry for a number, each from the list.
LEMMA RecordedEntries ==
  ASSUME NEW s \in Seq(Entries)
  PROVE  /\ Recorded(s) \subseteq Range(s)
         /\ Recorded(s) \subseteq Entries
         /\ \A d, e \in Recorded(s) : d.port.num = e.port.num => d = e
BY RangeOfList DEF Recorded

-----------------------------------------------------------------------------
(* What a sync plans.                                                      *)

LEMMA Planned ==
  ASSUME NEW spec \in Specs, NEW s \in Seq(Entries), NEW service \in Services, service # NoService
  PROVE  /\ SyncForwardingPorts(spec, s, service) \subseteq Ops
         /\ Unresolved(spec, service) \in Seq(Entries)
         /\ \A x \in Range(Unresolved(spec, service)) : x.state = "Failed" /\ x.port = NamedPort
         /\ \A x \in SyncForwardingPorts(spec, s, service) :
              x.verb # "add" => x.entry \in Recorded(s)
         /\ \A x, y \in SyncForwardingPorts(spec, s, service) :
              x.verb # "add" /\ y.verb # "add" /\ x.entry = y.entry => x = y
         /\ \A e \in Recorded(s) : \E x \in SyncForwardingPorts(spec, s, service) :
              x.verb # "add" /\ x.entry = e
<1> DEFINE plan == SyncForwardingPorts(spec, s, service)
<1>1. Recorded(s) \subseteq Entries
  BY RecordedEntries
<1>2. spec \in Seq(HostPort) /\ \A i \in 1..Len(spec) : spec[i] \in Ports /\ Len(spec) \in Nat
  BY PortsHaveNumbers
<1>3. CASE service = NoServicePort
  <2>1. plan = {Op("remove", 0, e) : e \in Recorded(s)}
    BY <1>3 DEF SyncForwardingPorts
  <2>2. \A e \in Entries : Op("remove", 0, e) \in Ops /\ Op("remove", 0, e).verb # "add" /\ Op("remove", 0, e).entry = e
    BY DEF Op, Ops
  <2>3. Entry(NamedPort, NoTarget, "Failed") \in Entries
        /\ Entry(NamedPort, NoTarget, "Failed").state = "Failed" /\ Entry(NamedPort, NoTarget, "Failed").port = NamedPort
    BY DEF Entry, Entries, States
  <2>4. Unresolved(spec, service) = [i \in 1..Len(spec) |-> Entry(NamedPort, NoTarget, "Failed")]
    BY <1>3 DEF Unresolved
  <2> HIDE DEF plan
  <2>5. Unresolved(spec, service) \in Seq(Entries)
        /\ \A x \in Range(Unresolved(spec, service)) : x = Entry(NamedPort, NoTarget, "Failed")
    BY <1>2, <2>3, <2>4 DEF Range
  <2>6. plan \subseteq Ops
    BY <2>1, <2>2, <1>1
  <2>7. \A x \in plan : x.entry \in Recorded(s) /\ x = Op("remove", 0, x.entry)
    BY <2>1, <2>2, <1>1
  <2>8. \A e \in Recorded(s) : \E x \in plan : x.verb # "add" /\ x.entry = e
    BY <2>1, <2>2, <1>1
  <2> QED
    BY <2>3, <2>5, <2>6, <2>7, <2>8 DEF plan
<1>4. CASE service # NoServicePort
  <2> DEFINE kept(i) == {e \in Found(spec, s, i) : Same(e, spec[i], service)}
             rest == Recorded(s) \ UNION {kept(i) : i \in 1..Len(spec)}
             keeps == UNION {{Op("keep", i, e) : e \in kept(i)} : i \in 1..Len(spec)}
             removes == {Op("remove", 0, e) : e \in rest}
             adds == {Op("add", i, Entry(spec[i], service, "Ready")) : i \in {j \in 1..Len(spec) : kept(j) = {}}}
  <2>1. plan = keeps \cup removes \cup adds
    BY <1>4 DEF SyncForwardingPorts
  <2>2. service \in Targets
    BY <1>4 DEF Services
  <2>3. \A i \in 1..Len(spec) : kept(i) \subseteq Recorded(s)
    BY DEF Found
  <2>4. \A i, j \in 1..Len(spec) : \A e \in kept(i) : e \in kept(j) => i = j
    BY <1>2 DEF Found
  <2>5. \A i \in 1..Len(spec) : \A e \in kept(i) : e.port \in Ports /\ e.target \in Targets
    <3>1. SUFFICES ASSUME NEW i \in 1..Len(spec), NEW e \in kept(i)
                   PROVE  e.port \in Ports /\ e.target \in Targets
      OBVIOUS
    <3>2. e \in Entries /\ e.port = spec[i] /\ e.target.hosts = service.hosts
      BY <2>3, <1>1 DEF Same
    <3>3. e.target \in Targets \cup {NoTarget}
      BY <3>2 DEF Entries
    <3> QED
      BY <3>2, <3>3, <2>2, <1>2, TargetsAssumption DEF NoTarget
  <2> HIDE DEF kept
  <2>6. keeps \subseteq Ops /\ \A x \in keeps : x.verb = "keep" /\ \E i \in 1..Len(spec) : x = Op("keep", i, x.entry) /\ x.entry \in kept(i)
    <3>1. SUFFICES ASSUME NEW i \in 1..Len(spec), NEW e \in kept(i)
                   PROVE  Op("keep", i, e) \in Ops /\ Op("keep", i, e).verb = "keep" /\ Op("keep", i, e).entry = e
      OBVIOUS
    <3>2. e \in Entries /\ e.port \in Ports /\ e.target \in Targets
      BY <2>3, <2>5, <1>1
    <3>3. e \in [port : Ports, target : Targets, state : States]
      BY <3>2 DEF Entries
    <3> QED
      BY <3>3, <1>2 DEF Op, Ops
  <2>7. removes \subseteq Ops /\ \A x \in removes : x.verb = "remove" /\ x = Op("remove", 0, x.entry) /\ x.entry \in rest
    <3>1. \A e \in Entries : Op("remove", 0, e) \in Ops /\ Op("remove", 0, e).verb = "remove" /\ Op("remove", 0, e).entry = e
      BY DEF Op, Ops
    <3> QED
      BY <3>1, <1>1
  <2>8. adds \subseteq Ops /\ \A x \in adds : x.verb = "add"
    <3>1. SUFFICES ASSUME NEW i \in 1..Len(spec)
                   PROVE  Op("add", i, Entry(spec[i], service, "Ready")) \in Ops /\ Op("add", i, Entry(spec[i], service, "Ready")).verb = "add"
      OBVIOUS
    <3> QED
      BY <1>2, <2>2 DEF Op, Ops, Entry, States
  <2>9. Unresolved(spec, service) = <<>> /\ <<>> \in Seq(Entries) /\ Range(<<>>) = {}
    BY <1>4 DEF Unresolved, Range
  <2>10. \A e \in Recorded(s) : \E x \in plan : x.verb # "add" /\ x.entry = e
    <3>1. SUFFICES ASSUME NEW e \in Recorded(s) PROVE \E x \in plan : x.verb # "add" /\ x.entry = e
      OBVIOUS
    <3>2. CASE e \in rest
      <4>1. Op("remove", 0, e) \in removes
        BY <3>2
      <4> HIDE DEF keeps, removes, adds, plan
      <4> QED
        BY <4>1, <2>1 DEF Op
    <3>3. CASE e \notin rest
      <4>1. PICK i \in 1..Len(spec) : e \in kept(i)
        BY <3>3
      <4>2. Op("keep", i, e) \in keeps
        BY <4>1
      <4> HIDE DEF keeps, removes, adds, plan
      <4> QED
        BY <4>2, <2>1 DEF Op
    <3> QED
      BY <3>2, <3>3
  <2>11. \A x \in plan : x.verb # "add" => x.entry \in Recorded(s)
    BY <2>1, <2>3, <2>6, <2>7, <2>8
  <2>12. ASSUME NEW x \in plan, NEW y \in plan, x.verb # "add", y.verb # "add", x.entry = y.entry
         PROVE  x = y
    <3> HIDE DEF keeps, removes, adds, plan
    <3>1. x \in keeps \cup removes /\ y \in keeps \cup removes
      BY <2>1, <2>8, <2>12
    <3>2. CASE x \in keeps /\ y \in keeps
      BY <3>2, <2>4, <2>6, <2>12 DEF kept
    <3>3. CASE x \in removes /\ y \in removes
      BY <3>3, <2>7, <2>12
    <3>4. ASSUME NEW a \in keeps, NEW b \in removes PROVE a.entry # b.entry
      BY <2>6, <2>7
    <3> QED
      BY <3>1, <3>2, <3>3, <3>4, <2>12
  <2> HIDE DEF keeps, removes, adds, plan
  <2> QED
    BY <2>1, <2>6, <2>7, <2>8, <2>9, <2>10, <2>11, <2>12 DEF plan
<1> QED
  BY <1>3, <1>4

-----------------------------------------------------------------------------
(* What a call to the forwarder does.                                      *)

Rules == Ports \X Targets \X Hooks
Forwarders == [listens : SUBSET Ports, active : SUBSET Rules, started : BOOLEAN, chains : ChainStates,
               torn : SUBSET Ports, stray : SUBSET Rules,
               result : {"ok", "AlreadyForwarded", "AlreadyInuse", "NotForwarded", "failed"}]

\* The redirects that an entry has to account for.
Standing(f) == f.active \ f.stray

\* The call changes nothing.
Keeps(f, g) ==
  /\ g.listens = f.listens /\ g.active = f.active /\ g.torn = f.torn /\ g.stray = f.stray
  /\ Started(f) => Started(g)

\* An Add for q and t leaves other redirects alone, but for a start.
Adds(f, g, q, t) ==
  /\ g.torn = f.torn /\ (Started(f) => Started(g) /\ f.active \subseteq g.active)
  /\ Standing(g) \subseteq Standing(f) \cup Redirects(q, t)

\* q is forwarded from f to g.
Gains(f, g, q, t) ==
  /\ Adds(f, g, q, t) /\ q \notin f.listens /\ g.listens = f.listens \cup {q} /\ Started(g)
  /\ Redirects(q, t) \subseteq g.active

\* It is not, though some of its redirects may be in force.
Tries(f, g, q, t) == Adds(f, g, q, t) /\ g.listens = f.listens

\* q is no longer forwarded; a rule to another target may stay.
Loses(f, g, q, t) ==
  /\ q \in f.listens /\ g.listens = f.listens \ {q} /\ g.started = f.started /\ g.torn = f.torn \ {q}
  /\ \A r \in f.active : r[1] # q => r \in g.active
  /\ Standing(g) \subseteq Standing(f) \ Redirects(q, t)

\* The guard does not know q, and what is redirected is left to itself.
Drops(f, g, q, t) ==
  /\ q \notin f.listens /\ g.listens = f.listens /\ g.started = f.started /\ g.torn = f.torn
  /\ g.active = f.active /\ Standing(g) \subseteq Standing(f) \ Redirects(q, t)

\* q is forwarded as before, or only in part.
Tears(f, g, q) ==
  /\ g.listens = f.listens /\ g.started = f.started
  /\ (g.torn = f.torn /\ g.active = f.active) \/ g.torn = f.torn \cup {q}
  /\ \A r \in f.active : r[1] # q => r \in g.active
  /\ Standing(g) \subseteq Standing(f)

LEMMA RuleParts ==
  ASSUME NEW q, NEW t
  PROVE  /\ \A r \in Redirects(q, t) : r[1] = q /\ r[2] = t
         /\ \A r \in Rules : r[1] = q /\ r[2] = t => r \in Redirects(q, t)
         /\ q \in Ports /\ t \in Targets => Redirects(q, t) \subseteq Rules
BY DEF Redirects, Rules

\* Redirects go, and the others are as they were.
LEMMA LeavingEffect ==
  ASSUME NEW f \in Forwarders, NEW rest \in SUBSET f.active
  PROVE  LET g == Leaving(f, rest)
         IN /\ g \in Forwarders /\ g.listens = f.listens /\ g.active = rest /\ g.started = f.started
            /\ g.chains = f.chains /\ g.torn = f.torn /\ g.result = f.result
            /\ Standing(g) \subseteq Standing(f) /\ Standing(g) \subseteq rest
<1> DEFINE keep == f.stray \cap rest
           g == [f EXCEPT !.active = rest, !.stray = keep]
<1>1. Leaving(f, rest) = g
  BY DEF Leaving
<1>2. keep \subseteq Rules /\ rest \subseteq Rules
  BY DEF Forwarders
<1> HIDE DEF keep
<1>3. g \in Forwarders /\ g.listens = f.listens /\ g.active = rest /\ g.started = f.started
      /\ g.chains = f.chains /\ g.torn = f.torn /\ g.result = f.result /\ g.stray = keep
  BY <1>2 DEF Forwarders
<1> HIDE DEF g
<1>4. Standing(g) \subseteq Standing(f) /\ Standing(g) \subseteq rest
  BY <1>3 DEF Standing, keep
<1> QED
  BY <1>1, <1>3, <1>4

LEMMA Starting ==
  ASSUME NEW f \in Forwarders, Backend = "nftables", ~f.started, NEW trouble
  PROVE  LET g == Start(f, trouble)
         IN /\ g \in Forwarders /\ g.started /\ g.listens = f.listens /\ g.torn = f.torn
            /\ g.result \in {"ok", "failed"} /\ Standing(g) \subseteq Standing(f)
<1> DEFINE h == [f EXCEPT !.started = TRUE, !.result = "failed"]
           Fits(g) == /\ g \in Forwarders /\ g.started /\ g.listens = f.listens /\ g.torn = f.torn
                      /\ g.result \in {"ok", "failed"} /\ Standing(g) \subseteq Standing(f)
<1>1. Fits(h)
  BY DEF Forwarders, Standing
<1>2. ASSUME NEW rest \in SUBSET f.active, NEW c \in ChainStates
      PROVE  /\ Fits([Leaving(h, rest) EXCEPT !.chains = c])
             /\ Fits([Leaving(h, rest) EXCEPT !.chains = c, !.result = "ok"])
  <2> DEFINE l == Leaving(h, rest)
             a == [l EXCEPT !.chains = c]
             b == [l EXCEPT !.chains = c, !.result = "ok"]
  <2>1. h \in Forwarders /\ h.active = f.active /\ h.started /\ h.listens = f.listens /\ h.torn = f.torn
        /\ h.stray = f.stray /\ h.result = "failed"
    BY DEF Forwarders
  <2> HIDE DEF h, Fits
  <2>2. l \in Forwarders /\ l.listens = f.listens /\ l.active = rest /\ l.started /\ l.torn = f.torn
        /\ l.result = "failed" /\ Standing(l) \subseteq Standing(f)
    BY <2>1, LeavingEffect DEF Standing
  <2> HIDE DEF l
  <2>3. a \in Forwarders /\ a.listens = l.listens /\ a.active = l.active /\ a.started = l.started
        /\ a.torn = l.torn /\ a.stray = l.stray /\ a.result = l.result
    BY <2>2 DEF Forwarders
  <2>4. b \in Forwarders /\ b.listens = l.listens /\ b.active = l.active /\ b.started = l.started
        /\ b.torn = l.torn /\ b.stray = l.stray /\ b.result = "ok"
    BY <2>2 DEF Forwarders
  <2> HIDE DEF a, b
  <2>5. Standing(a) = Standing(l) /\ Standing(b) = Standing(l)
    BY <2>3, <2>4 DEF Standing
  <2>6. Fits(a) /\ Fits(b)
    BY <2>2, <2>3, <2>4, <2>5 DEF Fits
  <2> QED
    BY <2>6 DEF a, b, l
<1>3. AtHook("OUTPUT", f.active) \subseteq f.active /\ {} \subseteq f.active
      /\ {"none", "first", "all"} = ChainStates
  BY DEF AtHook, ChainStates
<1>4. \/ Start(f, trouble) = h
      \/ \E rest \in SUBSET f.active, c \in ChainStates :
           \/ Start(f, trouble) = [Leaving(h, rest) EXCEPT !.chains = c]
           \/ Start(f, trouble) = [Leaving(h, rest) EXCEPT !.chains = c, !.result = "ok"]
  <2> HIDE DEF h
  <2> QED
    BY <1>3 DEF Start, h
<1> HIDE DEF Fits, h
<1>5. Fits(Start(f, trouble))
  BY <1>1, <1>2, <1>4
<1> QED
  BY <1>5 DEF Fits

LEMMA Presenting ==
  ASSUME NEW f \in Forwarders, NEW q \in Ports, NEW t \in Targets, q \notin f.listens, Started(f), NEW trouble
  PROVE  LET g == Present(f, q, t, trouble)
         IN /\ g \in Forwarders /\ g.result \in {"ok", "failed"}
            /\ g.result = "ok" => Gains(f, g, q, t)
            /\ g.result # "ok" => Tries(f, g, q, t)
<1> DEFINE g == Present(f, q, t, trouble)
           R == Redirects(q, t)
<1>1. R \subseteq Rules /\ AtHook("PREROUTING", R) \subseteq R
  BY RuleParts DEF AtHook
<1> HIDE DEF R
<1>2. f.active \subseteq Rules /\ f.stray \subseteq Rules /\ f.listens \subseteq Ports
  BY DEF Forwarders
<1>3. CASE g = [f EXCEPT !.result = "failed"]
  <2>1. g \in Forwarders /\ g.result = "failed" /\ g.listens = f.listens /\ g.active = f.active
        /\ g.started = f.started /\ g.torn = f.torn /\ g.stray = f.stray
    BY <1>3 DEF Forwarders
  <2> HIDE DEF g
  <2> QED
    BY <2>1 DEF Tries, Adds, Standing, Started, g
<1>4. CASE g = [f EXCEPT !.active = @ \cup AtHook("PREROUTING", R), !.result = "failed"]
  <2> DEFINE new == f.active \cup AtHook("PREROUTING", R)
  <2>1. new \subseteq Rules /\ f.active \subseteq new /\ new \subseteq f.active \cup R
    BY <1>1, <1>2
  <2>2. g = [f EXCEPT !.active = new, !.result = "failed"]
    BY <1>4
  <2> HIDE DEF new, g
  <2>3. g \in Forwarders /\ g.result = "failed" /\ g.listens = f.listens /\ g.active = new
        /\ g.started = f.started /\ g.torn = f.torn /\ g.stray = f.stray
    BY <2>1, <2>2 DEF Forwarders
  <2> QED
    BY <2>1, <2>3 DEF Tries, Adds, Standing, Started, R, g
<1>5. CASE g = [f EXCEPT !.listens = @ \cup {q}, !.active = @ \cup R, !.stray = @ \ R, !.result = "ok"]
  <2>1. g = [listens |-> f.listens \cup {q}, active |-> f.active \cup R, started |-> f.started,
             chains |-> f.chains, torn |-> f.torn, stray |-> f.stray \ R, result |-> "ok"]
    BY <1>5 DEF Forwarders
  <2> HIDE DEF g
  <2>2. g \in Forwarders
    BY <1>1, <1>2, <2>1 DEF Forwarders
  <2>3. g.result = "ok" /\ g.listens = f.listens \cup {q} /\ g.active = f.active \cup R
        /\ g.started = f.started /\ g.torn = f.torn /\ g.stray = f.stray \ R
    BY <2>1
  <2> QED
    BY <2>2, <2>3 DEF Gains, Adds, Standing, Started, R, g
<1> QED
  BY <1>3, <1>4, <1>5 DEF Present, R

LEMMA Adding ==
  ASSUME NEW f \in Forwarders, NEW q \in Ports, NEW t \in Targets, NEW trouble
  PROVE  LET g == AddForwarding(f, q, t, trouble)
         IN /\ g \in Forwarders
            /\ g.result = "ok" => Gains(f, g, q, t)
            /\ g.result # "ok" => Tries(f, g, q, t)
            /\ g.result = "AlreadyForwarded" => q \in f.listens /\ Keeps(f, g)
<1> DEFINE g == AddForwarding(f, q, t, trouble)
<1>1. ASSUME NEW r \in {"ok", "AlreadyForwarded", "AlreadyInuse", "failed"}
      PROVE  LET h == [f EXCEPT !.result = r]
             IN h \in Forwarders /\ h.result = r /\ Keeps(f, h) /\ Tries(f, h, q, t)
  <2> DEFINE h == [f EXCEPT !.result = r]
  <2>1. h \in Forwarders /\ h.result = r /\ h.listens = f.listens /\ h.active = f.active
        /\ h.started = f.started /\ h.torn = f.torn /\ h.stray = f.stray
    BY DEF Forwarders
  <2> HIDE DEF h
  <2>2. Keeps(f, h) /\ Tries(f, h, q, t)
    BY <2>1 DEF Keeps, Tries, Adds, Standing, Started
  <2> QED
    BY <2>1, <2>2 DEF h
<1>2. CASE q \in f.listens
  <2>1. g = [f EXCEPT !.result = "AlreadyForwarded"]
    BY <1>2 DEF AddForwarding
  <2> HIDE DEF g
  <2> QED
    BY <1>1, <1>2, <2>1 DEF g
<1>3. CASE q \notin f.listens /\ trouble \in {"busy", "probe"}
  <2>1. g = [f EXCEPT !.result = "AlreadyInuse"] \/ g = [f EXCEPT !.result = "failed"]
    BY <1>3 DEF AddForwarding
  <2> HIDE DEF g
  <2> QED
    BY <1>1, <2>1 DEF g
<1>4. CASE q \notin f.listens /\ trouble \notin {"busy", "probe"} /\ Started(f)
  <2> DEFINE h == [f EXCEPT !.result = "ok"]
             k == Present(h, q, t, trouble)
  <2>1. g = k
    BY <1>4 DEF AddForwarding
  <2>2. h \in Forwarders /\ h.listens = f.listens /\ h.active = f.active
        /\ h.started = f.started /\ h.torn = f.torn /\ h.stray = f.stray
    BY DEF Forwarders
  <2> HIDE DEF h
  <2>3. Started(h)
    BY <1>4, <2>2 DEF Started
  <2>4. k \in Forwarders /\ k.result \in {"ok", "failed"}
        /\ (k.result = "ok" => Gains(h, k, q, t)) /\ (k.result # "ok" => Tries(h, k, q, t))
    BY <1>4, <2>2, <2>3, Presenting
  <2> HIDE DEF k, g
  <2>5. Gains(h, k, q, t) => Gains(f, k, q, t)
    BY <2>2 DEF Gains, Adds, Standing, Started
  <2>6. Tries(h, k, q, t) => Tries(f, k, q, t)
    BY <2>2 DEF Tries, Adds, Standing, Started
  <2> QED
    BY <2>1, <2>4, <2>5, <2>6 DEF g
<1>5. CASE q \notin f.listens /\ trouble \notin {"busy", "probe"} /\ ~Started(f)
  <2> DEFINE h == Start(f, trouble)
             k == Present(h, q, t, trouble)
  <2>1. g = IF h.result = "ok" THEN k ELSE h
    BY <1>5 DEF AddForwarding
  <2>2. h \in Forwarders /\ h.started /\ h.listens = f.listens /\ h.torn = f.torn
        /\ h.result \in {"ok", "failed"} /\ Standing(h) \subseteq Standing(f)
    BY <1>5, Starting, BackendAssumption DEF Started
  <2> HIDE DEF h
  <2>3. Started(h)
    BY <2>2 DEF Started
  <2>4. k \in Forwarders /\ k.result \in {"ok", "failed"}
        /\ (k.result = "ok" => Gains(h, k, q, t)) /\ (k.result # "ok" => Tries(h, k, q, t))
    BY <1>5, <2>2, <2>3, Presenting
  <2> HIDE DEF k, g
  <2>5. Gains(h, k, q, t) => Gains(f, k, q, t)
    BY <1>5, <2>2 DEF Gains, Adds
  <2>6. Tries(h, k, q, t) => Tries(f, k, q, t)
    BY <1>5, <2>2 DEF Tries, Adds
  <2>7. Tries(f, h, q, t)
    BY <1>5, <2>2 DEF Tries, Adds
  <2> QED
    BY <2>1, <2>2, <2>4, <2>5, <2>6, <2>7 DEF g
<1> QED
  BY <1>2, <1>3, <1>4, <1>5

LEMMA Removing ==
  ASSUME NEW f \in Forwarders, NEW q, NEW t, NEW trouble
  PROVE  LET g == RemoveForwarding(f, q, t, trouble)
         IN /\ g \in Forwarders
            /\ \/ g.result = "NotForwarded" /\ Drops(f, g, q, t)
               \/ g.result = "failed" /\ Tears(f, g, q)
               \/ g.result = "ok" /\ Loses(f, g, q, t)
<1> DEFINE g == RemoveForwarding(f, q, t, trouble)
           R == Redirects(q, t)
<1>0. /\ f.active \subseteq Rules /\ f.stray \subseteq Rules /\ f.listens \subseteq Ports /\ f.torn \subseteq Ports
      /\ \A r \in R : r[1] = q
      /\ \A r \in Rules : r[1] = q /\ r[2] = t => r \in R
      /\ f = [listens |-> f.listens, active |-> f.active, started |-> f.started, chains |-> f.chains,
              torn |-> f.torn, stray |-> f.stray, result |-> f.result]
      /\ f.started \in BOOLEAN /\ f.chains \in ChainStates
  BY RuleParts DEF Forwarders
<1> HIDE DEF R
<1>1. CASE q \notin f.listens
  <2>1. g = [f EXCEPT !.result = "NotForwarded", !.stray = @ \cup (f.active \cap R)]
    BY <1>1 DEF RemoveForwarding, R
  <2> HIDE DEF g
  <2>2. g = [listens |-> f.listens, active |-> f.active, started |-> f.started, chains |-> f.chains,
             torn |-> f.torn, stray |-> f.stray \cup (f.active \cap R), result |-> "NotForwarded"]
    BY <1>0, <2>1
  <2>3. g \in Forwarders
    BY <1>0, <2>2 DEF Forwarders
  <2>4. g.listens = f.listens /\ g.active = f.active /\ g.started = f.started /\ g.torn = f.torn
        /\ g.stray = f.stray \cup (f.active \cap R) /\ g.result = "NotForwarded"
    BY <2>2
  <2>5. Drops(f, g, q, t)
    BY <1>1, <2>4 DEF Drops, Standing, R
  <2> QED
    BY <2>3, <2>4, <2>5 DEF g
<1>2. CASE q \in f.listens /\ trouble = "first"
  <2>1. g = [f EXCEPT !.result = "failed"]
    BY <1>2 DEF RemoveForwarding
  <2> HIDE DEF g
  <2>2. g \in Forwarders /\ g.result = "failed" /\ g.listens = f.listens /\ g.active = f.active
        /\ g.started = f.started /\ g.torn = f.torn /\ g.stray = f.stray
    BY <2>1 DEF Forwarders
  <2>3. Tears(f, g, q)
    BY <2>2 DEF Tears, Standing
  <2> QED
    BY <2>2, <2>3 DEF g
<1>3. CASE q \in f.listens /\ trouble = "later"
  <2> DEFINE rest == f.active \ AtHook("PREROUTING", R)
  <2>1. g = [Leaving(f, rest) EXCEPT !.torn = @ \cup {q}, !.result = "failed"]
    BY <1>3 DEF RemoveForwarding, R
  <2>2. rest \subseteq f.active /\ \A r \in f.active : r[1] # q => r \in rest
    BY <1>0 DEF AtHook
  <2> HIDE DEF rest, g
  <2> DEFINE l == Leaving(f, rest)
             half == l.torn \cup {q}
  <2>3. l \in Forwarders /\ l.listens = f.listens /\ l.active = rest /\ l.started = f.started
        /\ l.torn = f.torn /\ Standing(l) \subseteq Standing(f)
    BY <2>2, LeavingEffect
  <2> HIDE DEF l
  <2>4. half \subseteq Ports /\ half = f.torn \cup {q}
    BY <1>0, <1>3, <2>3
  <2>5. g = [l EXCEPT !.torn = half, !.result = "failed"]
    BY <2>1 DEF l
  <2> HIDE DEF half
  <2>6. g \in Forwarders /\ g.listens = l.listens /\ g.active = l.active /\ g.started = l.started
        /\ g.torn = half /\ g.stray = l.stray /\ g.result = "failed"
    BY <2>3, <2>4, <2>5 DEF Forwarders
  <2>7. Tears(f, g, q)
    BY <2>2, <2>3, <2>4, <2>6 DEF Tears, Standing
  <2> QED
    BY <2>6, <2>7 DEF g
<1>4. CASE q \in f.listens /\ trouble \notin {"first", "later"}
  <2> DEFINE rest == IF Backend = "nftables" THEN f.active \ R ELSE {r \in f.active : r[1] # q}
  <2>1. g = [Leaving(f, rest) EXCEPT !.listens = @ \ {q}, !.torn = @ \ {q}, !.result = "ok"]
    BY <1>4 DEF RemoveForwarding, R
  <2>2. rest \subseteq f.active \ R /\ \A r \in f.active : r[1] # q => r \in rest
    BY <1>0
  <2> HIDE DEF rest, g
  <2> DEFINE l == Leaving(f, rest)
             less == l.listens \ {q}
             whole == l.torn \ {q}
  <2>3. l \in Forwarders /\ l.listens = f.listens /\ l.active = rest /\ l.started = f.started
        /\ l.torn = f.torn /\ Standing(l) \subseteq Standing(f) /\ Standing(l) \subseteq rest
    BY <2>2, LeavingEffect
  <2> HIDE DEF l
  <2>4. less \subseteq Ports /\ whole \subseteq Ports /\ less = f.listens \ {q} /\ whole = f.torn \ {q}
    BY <1>0, <2>3
  <2>5. g = [l EXCEPT !.listens = less, !.torn = whole, !.result = "ok"]
    BY <2>1 DEF l
  <2> HIDE DEF less, whole
  <2>6. g \in Forwarders /\ g.listens = less /\ g.active = l.active /\ g.started = l.started
        /\ g.torn = whole /\ g.stray = l.stray /\ g.result = "ok"
    BY <2>3, <2>4, <2>5 DEF Forwarders
  <2>7. Loses(f, g, q, t)
    BY <1>4, <2>2, <2>3, <2>4, <2>6 DEF Loses, Standing, R
  <2> QED
    BY <2>6, <2>7 DEF g
<1> QED
  BY <1>1, <1>2, <1>3, <1>4

-----------------------------------------------------------------------------
(* What a turn of a loop does.                                             *)

\* The reconcile of node n goes on without the step o.
Takes(n, o) ==
  /\ o \in work[n].todo /\ \A x \in work[n].todo : ~Before(x, o)
  /\ work'[n] \in Tasks /\ work'[n].pf = work[n].pf /\ work'[n].inst = work[n].inst
  /\ work'[n].todo = work[n].todo \ {o}

\* An entry for the port and target of o joins the list for the new status.
Lists(n, o, state) ==
  \E d \in Entries : /\ d.port = o.entry.port /\ d.target = o.entry.target /\ d.state = state
                     /\ Range(work'[n].ports) = Range(work[n].ports) \cup {d}

Served(n, o) ==
  LET f == Forwarder(n)
      g == Forwarder(n)'
      q == o.entry.port
      t == o.entry.target
  IN \/ /\ o.verb # "remove" /\ q \in Ports /\ Gains(f, g, q, t)
        /\ Lists(n, o, "Ready")
     \/ /\ o.verb # "remove" /\ q \in Ports /\ Tries(f, g, q, t)
        /\ \E s \in States :
             /\ Lists(n, o, s)
             /\ s = "Ready" => o.verb = "keep" /\ o.entry.state = "Ready" /\ q \in listens[n] /\ Keeps(f, g)
     \/ /\ o.verb = "remove" /\ Tears(f, g, q) /\ Lists(n, o, "Residual")
     \/ /\ o.verb = "remove" /\ (Drops(f, g, q, t) \/ Loses(f, g, q, t))
        /\ Range(work'[n].ports) = Range(work[n].ports)

\* The state of the other nodes stays.
Alone(n) ==
  \A m \in Nodes : m # n =>
    /\ work'[m] = work[m] /\ queue'[m] = queue[m]
    /\ listens'[m] = listens[m] /\ active'[m] = active[m] /\ started'[m] = started[m]
    /\ torn'[m] = torn[m] /\ stray'[m] = stray[m]

ForwardersOK ==
  /\ listens \in [Nodes -> SUBSET Ports] /\ active \in [Nodes -> SUBSET Rules]
  /\ started \in [Nodes -> BOOLEAN] /\ chains \in [Nodes -> ChainStates]
  /\ torn \in [Nodes -> SUBSET Ports] /\ stray \in [Nodes -> SUBSET Rules]

LEMMA ForwarderTypes ==
  ASSUME TypeOK
  PROVE  /\ ForwardersOK
         /\ \A n \in Nodes : Forwarder(n) \in Forwarders /\ Forwarder(n).listens = listens[n]
BY DEF TypeOK, ForwardersOK, Forwarder, Forwarders, Rules

LEMMA SetForwarderEffect ==
  ASSUME TypeOK, NEW n \in Nodes, NEW g \in Forwarders, SetForwarder(n, g)
  PROVE  /\ \A m \in Nodes : m # n =>
              /\ listens'[m] = listens[m] /\ active'[m] = active[m] /\ started'[m] = started[m]
              /\ torn'[m] = torn[m] /\ stray'[m] = stray[m]
         /\ ForwardersOK'
         /\ Keeps(Forwarder(n), g) => Keeps(Forwarder(n), Forwarder(n)')
         /\ \A q, t :
              /\ Gains(Forwarder(n), g, q, t) => Gains(Forwarder(n), Forwarder(n)', q, t)
              /\ Tries(Forwarder(n), g, q, t) => Tries(Forwarder(n), Forwarder(n)', q, t)
              /\ Loses(Forwarder(n), g, q, t) => Loses(Forwarder(n), Forwarder(n)', q, t)
              /\ Drops(Forwarder(n), g, q, t) => Drops(Forwarder(n), Forwarder(n)', q, t)
              /\ Tears(Forwarder(n), g, q) => Tears(Forwarder(n), Forwarder(n)', q)
<1>1. ForwardersOK
  BY ForwarderTypes
<1>2. g.listens \in SUBSET Ports /\ g.active \in SUBSET Rules /\ g.started \in BOOLEAN
      /\ g.chains \in ChainStates /\ g.torn \in SUBSET Ports /\ g.stray \in SUBSET Rules
  BY DEF Forwarders
<1>3. /\ listens'[n] = g.listens /\ active'[n] = g.active /\ started'[n] = g.started
      /\ torn'[n] = g.torn /\ stray'[n] = g.stray
      /\ \A m \in Nodes : m # n =>
           /\ listens'[m] = listens[m] /\ active'[m] = active[m] /\ started'[m] = started[m]
           /\ torn'[m] = torn[m] /\ stray'[m] = stray[m]
  BY <1>1 DEF SetForwarder, ForwardersOK
<1>4. ForwardersOK'
  BY <1>1, <1>2 DEF SetForwarder, ForwardersOK
<1> DEFINE f == Forwarder(n)
           h == Forwarder(n)'
<1>5. h.listens = g.listens /\ h.active = g.active /\ h.started = g.started /\ h.torn = g.torn /\ h.stray = g.stray
  BY <1>3 DEF Forwarder
<1>6. Standing(h) = Standing(g) /\ Started(h) = Started(g)
  BY <1>5 DEF Standing, Started
<1> HIDE DEF f, h
<1>7. Keeps(f, g) => Keeps(f, h)
  BY <1>5, <1>6 DEF Keeps
<1>8. ASSUME NEW q, NEW t
      PROVE  /\ Gains(f, g, q, t) => Gains(f, h, q, t)
             /\ Tries(f, g, q, t) => Tries(f, h, q, t)
             /\ Loses(f, g, q, t) => Loses(f, h, q, t)
             /\ Drops(f, g, q, t) => Drops(f, h, q, t)
             /\ Tears(f, g, q) => Tears(f, h, q)
  <2>1. Adds(f, g, q, t) => Adds(f, h, q, t)
    BY <1>5, <1>6 DEF Adds
  <2> QED
    BY <1>5, <1>6, <2>1 DEF Gains, Tries, Loses, Drops, Tears
<1> QED
  BY <1>3, <1>4, <1>7, <1>8 DEF f, h

\* An operation of a plan has a port that may be opened, or may be a name.
LEMMA OpTypes ==
  ASSUME NEW o \in Ops
  PROVE  /\ o.verb \in {"keep", "remove", "add"} /\ o.entry \in Entries /\ o.entry.state \in States
         /\ o.verb # "remove" => o.entry.port \in Ports /\ o.entry.target \in Targets
         /\ \A s \in States : /\ [o.entry EXCEPT !.state = s] \in Entries
                              /\ [o.entry EXCEPT !.state = s].port = o.entry.port
                              /\ [o.entry EXCEPT !.state = s].target = o.entry.target
                              /\ [o.entry EXCEPT !.state = s].state = s
<1>1. o.verb \in {"keep", "remove", "add"} /\ o.entry \in Entries
  BY DEF Ops, Entries
<1>2. o.verb # "remove" => o.entry.port \in Ports /\ o.entry.target \in Targets
  BY DEF Ops
<1> QED
  BY <1>1, <1>2 DEF Entries

LEMMA Turned ==
  ASSUME TypeOK, NEW n \in Nodes, Forward(n)
  PROVE  /\ \E o \in work[n].todo :
              /\ Takes(n, o) /\ Served(n, o)
              /\ work'[n].pc = IF work'[n].todo = {} THEN "patch" ELSE "forward"
              /\ Shared(n, work[n].pf, o.entry.port) /\ o.entry.port \in Ports => o.entry.port \in contested'
         /\ work[n] \in Tasks /\ work[n].pc = "forward"
         /\ contested \subseteq contested' /\ contested' \subseteq Ports
         /\ Alone(n)
         /\ ForwardersOK'
         /\ DOMAIN work' = Nodes
<1> DEFINE w == work[n]
<1>1. w \in Tasks /\ w.pc = "forward" /\ DOMAIN work = Nodes /\ contested \subseteq Ports
  BY DEF TypeOK, Forward, At_, Idle
<1>2. PICK o \in Foremost(w.todo), trouble \in AddTroubles(Forwarder(n)) \cup RemoveTroubles :
       LET e    == o.entry
           done == CASE o.verb = "keep"   -> SyncUnchanged(Forwarder(n), w.ports, e, trouble)
                     [] o.verb = "remove" -> SyncDeletion(Forwarder(n), w.ports, e, trouble)
                     [] o.verb = "add"    -> SyncAddition(Forwarder(n), w.ports, e, trouble)
           todo == w.todo \ {o}
       IN /\ Faulty(trouble, e.port \in w.freed)
          /\ SetForwarder(n, done.f)
          /\ Goto(n, [w EXCEPT !.pc = IF todo = {} THEN "patch" ELSE @, !.todo = todo, !.ports = done.out,
                               !.freed = IF todo = {} THEN {}
                                         ELSE IF Backend = "pure-go" /\ o.verb = "remove" /\ e.port \in Ports
                                              THEN @ \cup {e.port} ELSE @])
          /\ contested' = IF Shared(n, w.pf, e.port) THEN contested \cup ({e.port} \cap Ports) ELSE contested
  BY Zenon DEF Forward
<1> DEFINE e == o.entry
           f == Forwarder(n)
           left == w.todo \ {o}
           done == CASE o.verb = "keep"   -> SyncUnchanged(f, w.ports, e, trouble)
                     [] o.verb = "remove" -> SyncDeletion(f, w.ports, e, trouble)
                     [] o.verb = "add"    -> SyncAddition(f, w.ports, e, trouble)
           gone == IF left = {} THEN {}
                    ELSE IF Backend = "pure-go" /\ o.verb = "remove" /\ e.port \in Ports
                         THEN w.freed \cup {e.port} ELSE w.freed
           g == done.f
           out == done.out
<1>3. o \in w.todo /\ (\A x \in w.todo : ~Before(x, o)) /\ o \in Ops /\ w.ports \in Seq(Entries)
      /\ w.todo \subseteq Ops /\ w.freed \subseteq Ports
  BY <1>1 DEF Foremost, Tasks
<1>4. work' = [work EXCEPT ![n] = [w EXCEPT !.pc = IF left = {} THEN "patch" ELSE @, !.todo = left, !.ports = out,
                                           !.freed = gone]]
  BY <1>2 DEF Goto
<1>5. SetForwarder(n, g)
  BY <1>2
<1>6. contested' = IF Shared(n, w.pf, e.port) THEN contested \cup ({e.port} \cap Ports) ELSE contested
  BY <1>2
<1>7. queue' = queue
  BY DEF Forward
<1> HIDE <1>2
<1>8. f \in Forwarders /\ f.listens = listens[n]
  BY ForwarderTypes
<1>9. PICK s \in States \cup {"none"} :
        /\ g \in Forwarders
        /\ s # "none" => out = Inserted(w.ports, [e EXCEPT !.state = s])
        /\ s = "none" => out = w.ports
        /\ \/ o.verb # "remove" /\ Gains(f, g, e.port, e.target) /\ s = "Ready"
           \/ /\ o.verb # "remove" /\ Tries(f, g, e.port, e.target) /\ s # "none"
              /\ s = "Ready" => o.verb = "keep" /\ e.state = "Ready" /\ e.port \in f.listens /\ Keeps(f, g)
           \/ o.verb = "remove" /\ Tears(f, g, e.port) /\ s = "Residual"
           \/ o.verb = "remove" /\ Drops(f, g, e.port, e.target) /\ s = "none"
           \/ o.verb = "remove" /\ Loses(f, g, e.port, e.target) /\ s = "none"
  <2> DEFINE a == AddForwarding(f, e.port, e.target, trouble)
             b == RemoveForwarding(f, e.port, e.target, trouble)
  <2>1. CASE o.verb = "keep"
    <3> DEFINE st == CASE a.result = "ok" -> "Ready"
                      [] a.result = "AlreadyForwarded" -> e.state
                      [] OTHER -> "Failed"
    <3>1. done = [f |-> a, out |-> Inserted(w.ports, [e EXCEPT !.state = st])]
      BY <2>1, Zenon DEF SyncUnchanged
    <3>3. a \in Forwarders /\ (a.result = "ok" => Gains(f, a, e.port, e.target))
          /\ (a.result # "ok" => Tries(f, a, e.port, e.target))
          /\ (a.result = "AlreadyForwarded" => e.port \in f.listens /\ Keeps(f, a))
      BY <2>1, <1>3, <1>8, Adding, OpTypes
    <3>4. st \in States /\ (a.result = "ok" => st = "Ready")
          /\ (a.result # "ok" /\ st = "Ready" => a.result = "AlreadyForwarded" /\ e.state = "Ready")
      BY <1>3, OpTypes DEF States
    <3> HIDE DEF done, a, st
    <3>2. g = a /\ out = Inserted(w.ports, [e EXCEPT !.state = st])
      BY <3>1
    <3>5. st # "none"
      BY <3>4 DEF States
    <3>6. st \in States \cup {"none"}
      BY <3>4
    <3> WITNESS st \in States \cup {"none"}
    <3> QED
      BY <2>1, <3>2, <3>3, <3>4, <3>5
  <2>2. CASE o.verb = "remove"
    <3>1. done = SyncDeletion(f, w.ports, e, trouble)
      BY <2>2, Zenon
    <3>2. CASE e.port.num = 0
      <4>1. done = [f |-> f, out |-> w.ports]
        BY <3>1, <3>2 DEF SyncDeletion
      <4>2. e.port \notin Ports
        BY <3>2, PortsHaveNumbers
      <4>3. e.port \notin f.listens /\ f.active \cap Redirects(e.port, e.target) = {}
        BY <4>2, <1>8, RuleParts DEF Forwarders, Rules
      <4>4. Drops(f, f, e.port, e.target)
        BY <4>3 DEF Drops, Standing
      <4> HIDE DEF done
      <4> QED
        BY <2>2, <4>1, <4>4, <1>8
    <3>3. CASE e.port.num # 0
      <4>1. done = [f |-> b, out |-> IF b.result = "failed" THEN Inserted(w.ports, [e EXCEPT !.state = "Residual"]) ELSE w.ports]
        BY <3>1, <3>3 DEF SyncDeletion
      <4>2. /\ b \in Forwarders
            /\ \/ b.result = "NotForwarded" /\ Drops(f, b, e.port, e.target)
               \/ b.result = "failed" /\ Tears(f, b, e.port)
               \/ b.result = "ok" /\ Loses(f, b, e.port, e.target)
        BY <1>8, Removing
      <4>3. "Residual" \in States
        BY DEF States
      <4> HIDE DEF done, b
      <4>4. CASE b.result = "failed"
        BY <2>2, <4>1, <4>2, <4>3, <4>4
      <4>5. CASE b.result # "failed"
        BY <2>2, <4>1, <4>2, <4>5
      <4> QED
        BY <4>4, <4>5
    <3> QED
      BY <3>2, <3>3
  <2>3. CASE o.verb = "add"
    <3> DEFINE st == CASE a.result = "ok" -> "Ready"
                      [] a.result = "AlreadyForwarded" -> "Conflict"
                      [] a.result = "AlreadyInuse" -> "Rejected"
                      [] OTHER -> "Failed"
    <3>1. done = [f |-> a, out |-> Inserted(w.ports, [e EXCEPT !.state = st])]
      BY <2>3, Zenon DEF SyncAddition
    <3>3. a \in Forwarders /\ (a.result = "ok" => Gains(f, a, e.port, e.target))
          /\ (a.result # "ok" => Tries(f, a, e.port, e.target))
      BY <2>3, <1>3, <1>8, Adding, OpTypes
    <3>4. st \in States /\ (a.result = "ok" => st = "Ready") /\ (a.result # "ok" => st # "Ready")
      BY DEF States
    <3> HIDE DEF done, a, st
    <3>2. g = a /\ out = Inserted(w.ports, [e EXCEPT !.state = st])
      BY <3>1
    <3>5. st # "none"
      BY <3>4 DEF States
    <3>6. st \in States \cup {"none"}
      BY <3>4
    <3> WITNESS st \in States \cup {"none"}
    <3> QED
      BY <2>3, <3>2, <3>3, <3>4, <3>5
  <2> QED
    BY <1>3, OpTypes, <2>1, <2>2, <2>3
<1> HIDE DEF done, g, out, f
<1>10. /\ out \in Seq(Entries)
       /\ s # "none" => \E d \in Entries : /\ d.port = e.port /\ d.target = e.target /\ d.state = s
                                       /\ Range(out) = Range(w.ports) \cup {d}
       /\ s = "none" => Range(out) = Range(w.ports)
  <2>1. CASE s = "none"
    BY <2>1, <1>3, <1>9
  <2>2. CASE s # "none"
    <3> DEFINE d == [e EXCEPT !.state = s]
    <3>1. d \in Entries /\ d.port = e.port /\ d.target = e.target /\ d.state = s
      BY <2>2, <1>3, OpTypes
    <3> HIDE DEF d
    <3>2. out = Inserted(w.ports, d)
      BY <2>2, <1>9 DEF d
    <3> QED
      BY <2>2, <3>1, <3>2, <1>3, InsertedEntry
  <2> QED
    BY <2>1, <2>2
<1>11. gone \subseteq Ports
  BY <1>3
<1>12. /\ work'[n] = [w EXCEPT !.pc = IF left = {} THEN "patch" ELSE @, !.todo = left, !.ports = out, !.freed = gone]
       /\ \A m \in Nodes : m # n => work'[m] = work[m]
       /\ DOMAIN work' = Nodes
  BY <1>1, <1>4
<1> HIDE DEF gone
<1>13. /\ work'[n] \in Tasks /\ work'[n].pf = w.pf /\ work'[n].inst = w.inst /\ work'[n].todo = left
       /\ work'[n].ports = out /\ work'[n].pc = IF left = {} THEN "patch" ELSE "forward"
  <2>1. left \in SUBSET Ops /\ out \in Seq(Entries) /\ gone \in SUBSET Ports
    BY <1>3, <1>10, <1>11
  <2>2. PICK k \in {"forward", "patch"} : k = IF left = {} THEN "patch" ELSE "forward"
    OBVIOUS
  <2>3. work'[n] = [w EXCEPT !.pc = k, !.todo = left, !.ports = out, !.freed = gone]
    BY <2>2, <1>1, <1>12
  <2>4. PICK v : v = work'[n]
    OBVIOUS
  <2>5. v = [pc |-> k, pf |-> w.pf, inst |-> w.inst, ports |-> out, todo |-> left, freed |-> gone]
    BY <2>3, <2>4, <1>1 DEF Tasks
  <2>6. v.pf = w.pf /\ v.inst = w.inst /\ v.todo = left /\ v.ports = out /\ v.pc = k
    BY <2>5
  <2>7. w.pf \in PFs /\ w.inst \in Object
    BY <1>1 DEF Tasks
  <2>8. v \in Tasks
    BY <2>1, <2>5, <2>7 DEF Tasks
  <2> QED
    BY <2>2, <2>4, <2>6, <2>8
<1>14. Takes(n, o)
  BY <1>3, <1>13 DEF Takes
<1>15. Served(n, o)
  <2>1. /\ Keeps(f, g) => Keeps(f, Forwarder(n)')
        /\ Gains(f, g, e.port, e.target) => Gains(f, Forwarder(n)', e.port, e.target)
        /\ Tries(f, g, e.port, e.target) => Tries(f, Forwarder(n)', e.port, e.target)
        /\ Loses(f, g, e.port, e.target) => Loses(f, Forwarder(n)', e.port, e.target)
        /\ Drops(f, g, e.port, e.target) => Drops(f, Forwarder(n)', e.port, e.target)
        /\ Tears(f, g, e.port) => Tears(f, Forwarder(n)', e.port)
    BY <1>5, <1>9, SetForwarderEffect DEF f
  <2>2. o.verb # "remove" => e.port \in Ports
    BY <1>3, OpTypes
  <2>3. s # "none" => Lists(n, o, s) /\ s \in States
    BY <1>9, <1>10, <1>13 DEF Lists
  <2>4. s = "none" => Range(work'[n].ports) = Range(w.ports)
    BY <1>10, <1>13
  <2>5. "Ready" # "none" /\ "Residual" # "none"
    OBVIOUS
  <2> QED
    BY <1>8, <1>9, <2>1, <2>2, <2>3, <2>4, <2>5 DEF Served, f
<1>16. Alone(n)
  <2>1. \A m \in Nodes : m # n =>
          /\ listens'[m] = listens[m] /\ active'[m] = active[m] /\ started'[m] = started[m]
          /\ torn'[m] = torn[m] /\ stray'[m] = stray[m]
    BY <1>5, <1>9, SetForwarderEffect
  <2>2. \A m \in Nodes : m # n => work'[m] = work[m]
    BY <1>12
  <2> QED
    BY <1>7, <2>1, <2>2 DEF Alone
<1>17. ForwardersOK'
  BY <1>5, <1>9, SetForwarderEffect
<1>18. contested \subseteq contested' /\ contested' \subseteq Ports
       /\ (Shared(n, w.pf, e.port) /\ e.port \in Ports => e.port \in contested')
  BY <1>1, <1>6
<1> QED
  BY <1>1, <1>3, <1>12, <1>13, <1>14, <1>15, <1>16, <1>17, <1>18

\* A turn of the loop of removePortForwarding: the port is withdrawn, or the
\* reconcile ends and is due again.
Revoked(n, o) ==
  /\ \/ Drops(Forwarder(n), Forwarder(n)', o.entry.port, o.entry.target)
     \/ Loses(Forwarder(n), Forwarder(n)', o.entry.port, o.entry.target)
  /\ Takes(n, o) /\ queue'[n] = queue[n]
  /\ work'[n].pc = IF work'[n].todo = {} THEN Withdrawn(work[n].inst.deleting) ELSE "withdraw"
  /\ IF work[n].inst.deleting THEN work'[n].ports = work[n].ports
     ELSE Range(work'[n].ports) = Range(work[n].ports) \cup {NoTargetEntry(o.entry)}

GivenUp(n) ==
  /\ \E o \in work[n].todo : Tears(Forwarder(n), Forwarder(n)', o.entry.port)
  /\ work'[n] = Idle /\ queue'[n] = queue[n] \cup {work[n].pf}

LEMMA Withdrew ==
  ASSUME TypeOK, NEW n \in Nodes, Withdraw(n)
  PROVE  /\ \/ GivenUp(n)
            \/ \E o \in work[n].todo : Revoked(n, o)
         /\ work[n] \in Tasks /\ work[n].pc = "withdraw"
         /\ Alone(n)
         /\ ForwardersOK'
         /\ queue' \in [Nodes -> SUBSET PFs]
         /\ DOMAIN work' = Nodes
<1> DEFINE w == work[n]
<1>1. w \in Tasks /\ w.pc = "withdraw" /\ DOMAIN work = Nodes /\ queue \in [Nodes -> SUBSET PFs]
      /\ w.pf \in PFs /\ w.ports \in Seq(Entries) /\ w.todo \subseteq Ops
  BY DEF TypeOK, Withdraw, At_, Idle, Tasks
<1>2. PICK o \in Foremost(w.todo), trouble \in RemoveTroubles :
       LET f    == RemoveForwarding(Forwarder(n), o.entry.port, o.entry.target, trouble)
           todo == w.todo \ {o}
       IN /\ Faulty(trouble, FALSE)
          /\ SetForwarder(n, f)
          /\ IF f.result = "failed" THEN Requeue(n)
             ELSE /\ UNCHANGED queue
                  /\ Goto(n, [w EXCEPT !.pc = IF todo = {} THEN Withdrawn(w.inst.deleting) ELSE @,
                                       !.todo = todo,
                                       !.ports = IF w.inst.deleting THEN @ ELSE Append(@, NoTargetEntry(o.entry))])
  BY Zenon DEF Withdraw
<1> DEFINE g == RemoveForwarding(Forwarder(n), o.entry.port, o.entry.target, trouble)
           left == w.todo \ {o}
           out == IF w.inst.deleting THEN w.ports ELSE Append(w.ports, NoTargetEntry(o.entry))
<1>3. SetForwarder(n, g)
  BY <1>2
<1>4. /\ g.result = "failed" => Requeue(n)
      /\ g.result # "failed" =>
           /\ queue' = queue
           /\ work' = [work EXCEPT ![n] = [w EXCEPT !.pc = IF left = {} THEN Withdrawn(w.inst.deleting) ELSE @,
                                                    !.todo = left, !.ports = out]]
  BY <1>2 DEF Goto
<1> HIDE <1>2
<1>5. o \in w.todo /\ (\A x \in w.todo : ~Before(x, o)) /\ o \in Ops
  BY <1>1 DEF Foremost
<1>6. Forwarder(n) \in Forwarders
  BY ForwarderTypes
<1>7. /\ g \in Forwarders
      /\ \/ g.result = "NotForwarded" /\ Drops(Forwarder(n), g, o.entry.port, o.entry.target)
         \/ g.result = "failed" /\ Tears(Forwarder(n), g, o.entry.port)
         \/ g.result = "ok" /\ Loses(Forwarder(n), g, o.entry.port, o.entry.target)
  BY <1>6, Removing
<1> HIDE DEF g
<1>8. /\ \A m \in Nodes : m # n =>
           /\ listens'[m] = listens[m] /\ active'[m] = active[m] /\ started'[m] = started[m]
           /\ torn'[m] = torn[m] /\ stray'[m] = stray[m]
      /\ ForwardersOK'
      /\ \A q, t :
           /\ Loses(Forwarder(n), g, q, t) => Loses(Forwarder(n), Forwarder(n)', q, t)
           /\ Drops(Forwarder(n), g, q, t) => Drops(Forwarder(n), Forwarder(n)', q, t)
           /\ Tears(Forwarder(n), g, q) => Tears(Forwarder(n), Forwarder(n)', q)
  BY <1>3, <1>7, SetForwarderEffect
<1>9. CASE g.result = "failed"
  <2>1. work' = [work EXCEPT ![n] = Idle] /\ queue' = [queue EXCEPT ![n] = @ \cup {w.pf}]
    BY <1>4, <1>9 DEF Requeue, Goto
  <2>2. work'[n] = Idle /\ queue'[n] = queue[n] \cup {w.pf} /\ DOMAIN work' = Nodes
        /\ queue' \in [Nodes -> SUBSET PFs]
        /\ \A m \in Nodes : m # n => work'[m] = work[m] /\ queue'[m] = queue[m]
    BY <2>1, <1>1
  <2>3. GivenUp(n)
    BY <2>2, <1>5, <1>7, <1>8, <1>9 DEF GivenUp
  <2>4. Alone(n)
    BY <2>2, <1>8 DEF Alone
  <2> QED
    BY <2>2, <2>3, <2>4, <1>1, <1>8
<1>10. CASE g.result # "failed"
  <2>1. queue' = queue
        /\ work' = [work EXCEPT ![n] = [w EXCEPT !.pc = IF left = {} THEN Withdrawn(w.inst.deleting) ELSE @,
                                                 !.todo = left, !.ports = out]]
    BY <1>4, <1>10
  <2>2. PICK k : k = IF left = {} THEN Withdrawn(w.inst.deleting) ELSE "withdraw"
    OBVIOUS
  <2>3. k \in {"withdraw", "patch", "patch-release"}
    BY <2>2 DEF Withdrawn
  <2>4. NoTargetEntry(o.entry) \in Entries
    BY <1>5, OpTypes DEF NoTargetEntry, Entry, Entries, States
  <2>5. out \in Seq(Entries) /\ left \in SUBSET Ops
    BY <2>4, <1>1
  <2>6. \/ w.inst.deleting /\ out = w.ports
        \/ ~w.inst.deleting /\ Range(out) = Range(w.ports) \cup {NoTargetEntry(o.entry)}
    <3>1. \A d : Range(Append(w.ports, d)) = Range(w.ports) \cup {d}
      <4>1. SUFFICES ASSUME NEW d PROVE Range(Append(w.ports, d)) = Range(w.ports) \cup {d}
        OBVIOUS
      <4>2. /\ DOMAIN Append(w.ports, d) = 1..Len(w.ports) + 1 /\ DOMAIN w.ports = 1..Len(w.ports)
            /\ Append(w.ports, d)[Len(w.ports) + 1] = d
            /\ \A i \in 1..Len(w.ports) : Append(w.ports, d)[i] = w.ports[i]
        BY <1>1
      <4>3. Range(Append(w.ports, d)) \subseteq Range(w.ports) \cup {d}
        BY <4>2, <1>1 DEF Range
      <4>4. Range(w.ports) \cup {d} \subseteq Range(Append(w.ports, d))
        BY <4>2, <1>1 DEF Range
      <4> QED
        BY <4>3, <4>4
    <3> QED
      BY <3>1
  <2> HIDE DEF out
  <2>7. PICK v : v = [w EXCEPT !.pc = k, !.todo = left, !.ports = out]
    OBVIOUS
  <2>8. w.pf \in PFs /\ w.inst \in Object /\ w.freed \in SUBSET Ports
        /\ v = [pc |-> k, pf |-> w.pf, inst |-> w.inst, ports |-> out, todo |-> left, freed |-> w.freed]
    BY <2>7, <1>1 DEF Tasks
  <2>9. v.pf = w.pf /\ v.inst = w.inst /\ v.todo = left /\ v.ports = out /\ v.pc = k
    BY <2>8
  <2>10. v \in Tasks
    BY <2>3, <2>5, <2>8 DEF Tasks
  <2>11. work' = [work EXCEPT ![n] = v]
    BY <2>1, <2>2, <2>7, <1>1
  <2>12. work'[n] = v /\ DOMAIN work' = Nodes /\ \A m \in Nodes : m # n => work'[m] = work[m]
    BY <2>11, <1>1
  <2>13. Takes(n, o)
    BY <2>9, <2>10, <2>12, <1>5 DEF Takes
  <2>14. Revoked(n, o)
    <3>1. \/ Drops(Forwarder(n), Forwarder(n)', o.entry.port, o.entry.target)
          \/ Loses(Forwarder(n), Forwarder(n)', o.entry.port, o.entry.target)
      BY <1>7, <1>8, <1>10
    <3> QED
      BY <2>1, <2>2, <2>6, <2>9, <2>12, <2>13, <3>1 DEF Revoked
  <2>15. Alone(n)
    BY <2>1, <2>12, <1>8 DEF Alone
  <2> QED
    BY <2>1, <2>12, <2>14, <2>15, <1>1, <1>5, <1>8
<1> QED
  BY <1>9, <1>10

-----------------------------------------------------------------------------
(* Type correctness.                                                       *)

LEMMA TaskTypes ==
  ASSUME TypeOK, NEW n \in Nodes, work[n] # Idle
  PROVE  /\ work[n] \in Tasks /\ work[n].pf \in PFs /\ work[n].inst \in Object
         /\ work[n].inst.spec \in Specs /\ work[n].inst.status[n] \in Seq(Entries)
         /\ work[n].inst.deleting \in BOOLEAN /\ work[n].ports \in Seq(Entries)
         /\ work[n].todo \subseteq Ops
         /\ work[n].pc \in {"finalizer", "sync", "forward", "remove", "withdraw", "patch", "patch-release", "release"}
         /\ \A k \in {"finalizer", "sync", "forward", "remove", "withdraw", "patch", "patch-release", "release"} :
              [work[n] EXCEPT !.pc = k] \in Tasks
<1>1. work[n] \in Tasks
  BY DEF TypeOK
<1>2. work[n].pf \in PFs /\ work[n].inst \in Object /\ work[n].ports \in Seq(Entries) /\ work[n].todo \subseteq Ops
      /\ work[n].pc \in {"finalizer", "sync", "forward", "remove", "withdraw", "patch", "patch-release", "release"}
  BY <1>1 DEF Tasks
<1>3. work[n].inst.spec \in Specs /\ work[n].inst.status[n] \in Seq(Entries) /\ work[n].inst.deleting \in BOOLEAN
  BY <1>2 DEF Object
<1>4. \A k \in {"finalizer", "sync", "forward", "remove", "withdraw", "patch", "patch-release", "release"} :
        [work[n] EXCEPT !.pc = k] \in Tasks
  BY <1>1 DEF Tasks
<1> QED
  BY <1>1, <1>2, <1>3, <1>4

LEMMA NotIdle ==
  ASSUME NEW n,
         \/ At_(n, "finalizer") \/ At_(n, "sync") \/ At_(n, "forward") \/ At_(n, "remove")
         \/ At_(n, "withdraw") \/ At_(n, "patch") \/ At_(n, "patch-release") \/ At_(n, "release")
  PROVE  work[n] # Idle
BY DEF At_, Idle

\* A step of node n that leaves the forwarder alone.
LEMMA GoesTo ==
  ASSUME TypeOK, NEW n \in Nodes, NEW task \in Tasks \cup {Idle}, Goto(n, task)
  PROVE  /\ DOMAIN work' = Nodes /\ work'[n] = task
         /\ \A m \in Nodes : m # n => work'[m] = work[m]
         /\ \A m \in Nodes : work'[m] = Idle \/ work'[m] \in Tasks
BY DEF TypeOK, Goto

LEMMA TypeInit == Init => TypeOK
<1> SUFFICES ASSUME Init PROVE TypeOK
  OBVIOUS
<1>1. obj \in [PFs -> Object \cup {Absent}] /\ cache \in [Nodes -> [PFs -> Object \cup {Absent}]]
  BY DEF Init
<1>2. svc \in [PFs -> Services]
  BY DEF Init, Services
<1>3. chains \in [Nodes -> ChainStates] /\ torn \in [Nodes -> SUBSET Ports]
      /\ stray \in [Nodes -> SUBSET (Ports \X Targets \X Hooks)]
      /\ active \in [Nodes -> SUBSET (Ports \X Targets \X Hooks)]
  BY DEF Init, NoChains, ChainStates
<1> QED
  BY <1>1, <1>2, <1>3, BoundsAssumption DEF Init, TypeOK

LEMMA TypeNext ==
  ASSUME TypeOK, [Next]_vars
  PROVE  TypeOK'
<1> USE DEF Edit, Unedited, api, fwd, history
<1>1. ASSUME NEW p \in PFs, NEW s \in Specs, Create(p, s) PROVE TypeOK'
  <2> DEFINE x == [exists |-> TRUE, gen |-> edits', deleting |-> FALSE, finalizer |-> FALSE, spec |-> s,
                   status |-> [n \in Nodes |-> <<>>]]
  <2>1. edits' \in 0..MaxEdits
    BY <1>1, BoundsAssumption DEF Create, TypeOK
  <2>2. x \in Object
    BY <2>1 DEF Object
  <2> HIDE DEF x
  <2>3. obj' = [obj EXCEPT ![p] = x]
    BY <1>1 DEF Create, x
  <2>4. obj' \in [PFs -> Object \cup {Absent}]
    BY <2>2, <2>3 DEF TypeOK
  <2> QED
    BY <1>1, <2>1, <2>4 DEF Create, TypeOK
<1>2. ASSUME NEW p \in PFs, NEW s \in Specs, Update(p, s) PROVE TypeOK'
  <2>1. edits' \in 0..MaxEdits
    BY <1>2, BoundsAssumption DEF Update, TypeOK
  <2>2. obj[p] \in Object
    BY <1>2 DEF Update, TypeOK, Absent
  <2>3. [obj[p] EXCEPT !.spec = s, !.gen = edits'] \in Object
    BY <2>1, <2>2 DEF Object
  <2>4. obj' = [obj EXCEPT ![p] = [obj[p] EXCEPT !.spec = s, !.gen = edits']]
    BY <1>2 DEF Update, TypeOK
  <2>5. obj' \in [PFs -> Object \cup {Absent}]
    BY <2>3, <2>4 DEF TypeOK
  <2> QED
    BY <1>2, <2>1, <2>5 DEF Update, TypeOK
<1>3. ASSUME NEW p \in PFs, Delete(p) PROVE TypeOK'
  <2>1. edits' \in 0..MaxEdits
    BY <1>3, BoundsAssumption DEF Delete, TypeOK
  <2>2. obj[p] \in Object
    BY <1>3 DEF Delete, TypeOK, Absent
  <2>3. [obj[p] EXCEPT !.deleting = TRUE, !.gen = edits'] \in Object
    BY <2>1, <2>2 DEF Object
  <2>4. \/ obj' = [obj EXCEPT ![p] = [obj[p] EXCEPT !.deleting = TRUE, !.gen = edits']]
        \/ obj' = [obj EXCEPT ![p] = Absent]
    BY <1>3 DEF Delete, TypeOK
  <2>5. obj' \in [PFs -> Object \cup {Absent}]
    BY <2>3, <2>4 DEF TypeOK
  <2>6. unguarded' \subseteq PFs
    BY <1>3 DEF Delete, TypeOK
  <2> QED
    BY <1>3, <2>1, <2>5, <2>6 DEF Delete, TypeOK
<1>4. ASSUME NEW p \in PFs, NEW v \in Services, ChangeService(p, v) PROVE TypeOK'
  <2>1. edits' \in 0..MaxEdits
    BY <1>4, BoundsAssumption DEF ChangeService, TypeOK
  <2>2. svc' \in [PFs -> Services] /\ queue' \in [Nodes -> SUBSET PFs]
    BY <1>4 DEF ChangeService, TypeOK
  <2> QED
    BY <1>4, <2>1, <2>2 DEF ChangeService, TypeOK
<1>5. ASSUME NEW n \in Nodes, NEW p \in PFs, Refresh(n, p) PROVE TypeOK'
  <2>1. cache' = [cache EXCEPT ![n] = [cache[n] EXCEPT ![p] = obj[p]]]
    BY <1>5 DEF Refresh, TypeOK
  <2>2. [cache[n] EXCEPT ![p] = obj[p]] \in [PFs -> Object \cup {Absent}]
    BY DEF TypeOK
  <2>3. cache' \in [Nodes -> [PFs -> Object \cup {Absent}]]
    BY <2>1, <2>2 DEF TypeOK
  <2>4. queue' \in [Nodes -> SUBSET PFs]
    BY <1>5 DEF Refresh, TypeOK
  <2> QED
    BY <1>5, <2>3, <2>4 DEF Refresh, TypeOK
<1>6. ASSUME NEW n \in Nodes, Crash(n) PROVE TypeOK'
  <2>1. crashes' \in 0..MaxCrashes
    BY <1>6, BoundsAssumption DEF Crash, TypeOK
  <2>2. lost' \subseteq PFs
    BY <1>6 DEF Crash, Forgotten, TypeOK, Tasks, Idle
  <2>3. \A m \in Nodes : work'[m] = Idle \/ work'[m] \in Tasks
    BY <1>6, GoesTo DEF Crash
  <2>4. DOMAIN work' = Nodes
    BY <1>6, GoesTo DEF Crash
  <2>5. ForwardersOK'
    BY <1>6, ForwarderTypes DEF Crash, ForwardersOK
  <2>6. queue' \in [Nodes -> SUBSET PFs] /\ cache' \in [Nodes -> [PFs -> Object \cup {Absent}]]
    BY <1>6 DEF Crash, TypeOK
  <2> QED
    BY <1>6, <2>1, <2>2, <2>3, <2>4, <2>5, <2>6 DEF Crash, TypeOK, ForwardersOK, Rules
<1>7. ASSUME NEW n \in Nodes, NEW p \in PFs, Begin(n, p) PROVE TypeOK'
  <2>1. \A x \in Object, k \in {"finalizer", "remove"} : Task(k, p, x) \in Tasks
    BY DEF Task, Tasks
  <2>2. cache[n][p] \in Object \cup {Absent}
    BY DEF TypeOK
  <2>3. \E task \in Tasks \cup {Idle} : Goto(n, task)
    <3>1. CASE ~cache[n][p].exists
      BY <1>7, <3>1, Zenon DEF Begin
    <3>2. CASE cache[n][p].exists
      <4>1. cache[n][p] \in Object
        BY <2>2, <3>2 DEF Absent
      <4>2. Goto(n, Task("finalizer", p, cache[n][p])) \/ Goto(n, Task("remove", p, cache[n][p])) \/ Goto(n, Idle)
        BY <1>7, <3>2 DEF Begin
      <4> QED
        BY <2>1, <4>1, <4>2
    <3> QED
      BY <3>1, <3>2
  <2>4. DOMAIN work' = Nodes /\ \A m \in Nodes : work'[m] = Idle \/ work'[m] \in Tasks
    BY <2>3, GoesTo
  <2>5. queue' \in [Nodes -> SUBSET PFs]
    BY <1>7 DEF Begin, TypeOK
  <2> QED
    BY <1>7, <2>4, <2>5 DEF Begin, TypeOK
<1>8. ASSUME NEW n \in Nodes, AddFinalizer(n) PROVE TypeOK'
  <2>1. work[n] # Idle
    BY <1>8, NotIdle DEF AddFinalizer
  <2>2. \/ Goto(n, [work[n] EXCEPT !.pc = "sync"]) /\ queue' = queue
        \/ Goto(n, Idle) /\ queue' = [queue EXCEPT ![n] = @ \cup {work[n].pf}]
    BY <1>8 DEF AddFinalizer, Requeue
  <2>3. DOMAIN work' = Nodes /\ \A m \in Nodes : work'[m] = Idle \/ work'[m] \in Tasks
    BY <2>1, <2>2, GoesTo, TaskTypes
  <2>4. queue' \in [Nodes -> SUBSET PFs]
    <3>1. work[n].pf \in PFs
      BY <2>1, TaskTypes
    <3>2. queue \in [Nodes -> SUBSET PFs]
      BY DEF TypeOK
    <3> QED
      BY <2>2, <3>1, <3>2
  <2>5. obj' \in [PFs -> Object \cup {Absent}]
    <3>1. \/ obj' = obj
          \/ /\ obj[work[n].pf].exists
             /\ obj' = [obj EXCEPT ![work[n].pf].finalizer = TRUE]
      BY <1>8 DEF AddFinalizer, Fresh
    <3>2. work[n].pf \in PFs
      BY <2>1, TaskTypes
    <3>3. CASE obj[work[n].pf].exists /\ obj' = [obj EXCEPT ![work[n].pf].finalizer = TRUE]
      <4>1. obj[work[n].pf] \in Object
        BY <3>2, <3>3 DEF TypeOK, Absent
      <4>2. [obj[work[n].pf] EXCEPT !.finalizer = TRUE] \in Object
        BY <4>1 DEF Object
      <4>3. obj' = [obj EXCEPT ![work[n].pf] = [obj[work[n].pf] EXCEPT !.finalizer = TRUE]]
        BY <3>2, <3>3 DEF TypeOK
      <4> QED
        BY <4>2, <4>3 DEF TypeOK
    <3> QED
      BY <3>1, <3>3 DEF TypeOK
  <2> QED
    BY <1>8, <2>3, <2>4, <2>5 DEF AddFinalizer, TypeOK
<1>9. ASSUME NEW n \in Nodes, Sync(n) PROVE TypeOK'
  <2>1. work[n] # Idle
    BY <1>9, NotIdle DEF Sync
  <2> DEFINE service == svc[work[n].pf]
             plan == SyncForwardingPorts(work[n].inst.spec, work[n].inst.status[n], service)
             errs == Unresolved(work[n].inst.spec, service)
  <2>2. PICK k \in {"patch", "forward"} : Goto(n, [work[n] EXCEPT !.pc = k, !.todo = plan, !.ports = errs])
    BY <1>9 DEF Sync
  <2>3. service \in Services /\ service # NoService
    BY <1>9, <2>1, TaskTypes DEF Sync, TypeOK
  <2>4. plan \subseteq Ops /\ errs \in Seq(Entries)
    <3>1. work[n].inst.spec \in Specs /\ work[n].inst.status[n] \in Seq(Entries)
      BY <2>1, TaskTypes
    <3> QED
      BY <2>3, <3>1, Planned
  <2> HIDE DEF plan, errs
  <2>5. PICK v : v = [work[n] EXCEPT !.pc = k, !.todo = plan, !.ports = errs]
    OBVIOUS
  <2>6. v \in Tasks
    <3>1. work[n] \in Tasks
      BY <2>1, TaskTypes
    <3>2. v = [pc |-> k, pf |-> work[n].pf, inst |-> work[n].inst, ports |-> errs, todo |-> plan,
               freed |-> work[n].freed]
      BY <2>5, <3>1 DEF Tasks
    <3>3. work[n].pf \in PFs /\ work[n].inst \in Object /\ work[n].freed \in SUBSET Ports
      BY <3>1 DEF Tasks
    <3> QED
      BY <2>4, <3>2, <3>3 DEF Tasks
  <2>7. DOMAIN work' = Nodes /\ \A m \in Nodes : work'[m] = Idle \/ work'[m] \in Tasks
    BY <2>2, <2>5, <2>6, GoesTo
  <2> QED
    BY <1>9, <2>7 DEF Sync, TypeOK
<1>10. ASSUME NEW n \in Nodes, Forward(n) PROVE TypeOK'
  <2>1. /\ DOMAIN work' = Nodes /\ work'[n] \in Tasks /\ contested' \subseteq Ports
        /\ \A m \in Nodes : m # n => work'[m] = work[m]
        /\ ForwardersOK'
    BY <1>10, Turned DEF Takes, Alone
  <2>2. faults' \in 0..MaxFaults
    BY <1>10, BoundsAssumption DEF Forward, Faulty, TypeOK
  <2> QED
    BY <1>10, <2>1, <2>2 DEF Forward, TypeOK, ForwardersOK, Rules
<1>11. ASSUME NEW n \in Nodes, RemovePorts(n) PROVE TypeOK'
  <2>1. work[n] # Idle
    BY <1>11, NotIdle DEF RemovePorts
  <2> DEFINE entries == work[n].inst.status[n]
             todo == {Op("remove", i, entries[i]) : i \in {j \in 1..Len(entries) : entries[j].port.num # 0}}
             k == IF todo = {} THEN Withdrawn(work[n].inst.deleting) ELSE "withdraw"
  <2>2. \/ Goto(n, Idle) \/ Goto(n, [work[n] EXCEPT !.pc = "release"])
        \/ Goto(n, [work[n] EXCEPT !.pc = k, !.todo = todo])
    BY <1>11 DEF RemovePorts
  <2>3. todo \subseteq Ops
    <3>1. \A i \in 1..Len(entries) : entries[i] \in Entries /\ i \in Nat
      <4>1. entries \in Seq(Entries)
        BY <2>1, TaskTypes
      <4> QED
        BY <4>1
    <3> QED
      BY <3>1 DEF Op, Ops
  <2>4. k \in {"patch", "patch-release", "withdraw"}
    BY DEF Withdrawn
  <2> HIDE DEF todo, k
  <2>5. PICK v : v = [work[n] EXCEPT !.pc = k, !.todo = todo]
    OBVIOUS
  <2>6. v \in Tasks
    <3>1. work[n] \in Tasks
      BY <2>1, TaskTypes
    <3>2. v = [pc |-> k, pf |-> work[n].pf, inst |-> work[n].inst, ports |-> work[n].ports, todo |-> todo,
               freed |-> work[n].freed]
      BY <2>5, <3>1 DEF Tasks
    <3>3. work[n].pf \in PFs /\ work[n].inst \in Object /\ work[n].freed \in SUBSET Ports
          /\ work[n].ports \in Seq(Entries)
      BY <3>1 DEF Tasks
    <3> QED
      BY <2>3, <2>4, <3>2, <3>3 DEF Tasks
  <2>7. \E task \in Tasks \cup {Idle} : Goto(n, task)
    BY <2>1, <2>2, <2>5, <2>6, TaskTypes
  <2>8. DOMAIN work' = Nodes /\ \A m \in Nodes : work'[m] = Idle \/ work'[m] \in Tasks
    BY <2>7, GoesTo
  <2> QED
    BY <1>11, <2>8 DEF RemovePorts, TypeOK
<1>12. ASSUME NEW n \in Nodes, Withdraw(n) PROVE TypeOK'
  <2>1. /\ DOMAIN work' = Nodes /\ (work'[n] \in Tasks \/ work'[n] = Idle)
        /\ \A m \in Nodes : m # n => work'[m] = work[m]
        /\ ForwardersOK'
        /\ queue' \in [Nodes -> SUBSET PFs]
    BY <1>12, Withdrew DEF Revoked, GivenUp, Takes, Alone
  <2>2. faults' \in 0..MaxFaults
    BY <1>12, BoundsAssumption DEF Withdraw, Faulty, TypeOK
  <2> QED
    BY <1>12, <2>1, <2>2 DEF Withdraw, TypeOK, ForwardersOK, Rules
<1>13. ASSUME NEW n \in Nodes, Patch(n) PROVE TypeOK'
  <2>1. work[n] # Idle
    BY <1>13, NotIdle DEF Patch
  <2> DEFINE p == work[n].pf
  <2>2. /\ \/ Goto(n, Idle) \/ Goto(n, [work[n] EXCEPT !.pc = "release"])
        /\ queue' = queue \/ queue' = [queue EXCEPT ![n] = @ \cup {p}]
        /\ \/ obj' = obj
           \/ obj[p].exists /\ obj' = [obj EXCEPT ![p].status[n] = work[n].ports]
        /\ lost' = lost \/ lost' = lost \cup {p}
    BY <1>13 DEF Patch, Requeue, Forgotten, Recording
  <2>3. p \in PFs /\ work[n].ports \in Seq(Entries)
    BY <2>1, TaskTypes
  <2>4. DOMAIN work' = Nodes /\ \A m \in Nodes : work'[m] = Idle \/ work'[m] \in Tasks
    BY <2>1, <2>2, GoesTo, TaskTypes
  <2>5. queue' \in [Nodes -> SUBSET PFs] /\ lost' \subseteq PFs
    <3>1. queue \in [Nodes -> SUBSET PFs] /\ lost \subseteq PFs
      BY DEF TypeOK
    <3> QED
      BY <2>2, <2>3, <3>1
  <2>6. obj' \in [PFs -> Object \cup {Absent}]
    <3>1. CASE obj[p].exists /\ obj' = [obj EXCEPT ![p].status[n] = work[n].ports]
      <4>1. obj[p] \in Object
        BY <2>3, <3>1 DEF TypeOK, Absent
      <4>2. [obj[p].status EXCEPT ![n] = work[n].ports] \in [Nodes -> Seq(Entries)]
        BY <2>3, <4>1 DEF Object
      <4>3. [obj[p] EXCEPT !.status = [obj[p].status EXCEPT ![n] = work[n].ports]] \in Object
        BY <4>1, <4>2 DEF Object
      <4>4. obj' = [obj EXCEPT ![p] = [obj[p] EXCEPT !.status = [obj[p].status EXCEPT ![n] = work[n].ports]]]
        BY <2>3, <3>1 DEF TypeOK
      <4> QED
        BY <4>3, <4>4 DEF TypeOK
    <3> QED
      BY <2>2, <3>1 DEF TypeOK
  <2> QED
    BY <1>13, <2>4, <2>5, <2>6 DEF Patch, TypeOK
<1>14. ASSUME NEW n \in Nodes, Release(n) PROVE TypeOK'
  <2>1. work[n] # Idle
    BY <1>14, NotIdle DEF Release
  <2> DEFINE p == work[n].pf
  <2>2. /\ Goto(n, Idle)
        /\ queue' = queue \/ queue' = [queue EXCEPT ![n] = @ \cup {p}]
        /\ obj' = obj \/ obj' = [obj EXCEPT ![p] = Absent]
        /\ lost' = lost \/ lost' = lost \cup {p}
    BY <1>14 DEF Release, Requeue
  <2>3. p \in PFs
    BY <2>1, TaskTypes
  <2>4. DOMAIN work' = Nodes /\ \A m \in Nodes : work'[m] = Idle \/ work'[m] \in Tasks
    BY <2>2, GoesTo
  <2>5. queue' \in [Nodes -> SUBSET PFs] /\ lost' \subseteq PFs /\ obj' \in [PFs -> Object \cup {Absent}]
    BY SMTT(30), <2>2, <2>3 DEF TypeOK
  <2> QED
    BY <1>14, <2>4, <2>5 DEF Release, TypeOK
<1>15. CASE UNCHANGED vars
  BY <1>15 DEF vars, TypeOK
<1> QED
  BY <1>1, <1>2, <1>3, <1>4, <1>5, <1>6, <1>7, <1>8, <1>9, <1>10, <1>11, <1>12, <1>13, <1>14, <1>15
     DEF Next, User, Reconcile

(* Every variable stays in its set: a sync opens ports of the spec only,   *)
(* at targets that a Service had, and the status lists nothing but entries *)
(* of those ports and of names that no Service port has.                   *)
THEOREM TypeInvariant == Spec => []TypeOK
BY TypeInit, TypeNext, PTL DEF Spec

-----------------------------------------------------------------------------
(* The steps, as node n sees them.                                         *)

\* Someone else takes a step: a user, the informers, or another node.
Elsewhere(n) ==
  /\ work'[n] = work[n] /\ listens'[n] = listens[n] /\ active'[n] = active[n] /\ started'[n] = started[n]
  /\ torn'[n] = torn[n] /\ stray'[n] = stray[n] /\ queue[n] \subseteq queue'[n]
  /\ contested \subseteq contested' /\ unguarded \subseteq unguarded' /\ lost \subseteq lost'
  /\ \A p \in PFs : cache'[n][p] = cache[n][p] \/ cache'[n][p] = obj'[p]
  /\ \A p \in PFs :
       \/ /\ obj'[p].exists = obj[p].exists
          /\ obj[p].exists => obj'[p].status[n] = obj[p].status[n]
       \/ /\ EntriesOf(n, p)' = {} /\ (obj'[p].exists => obj'[p].status[n] = <<>>)
          /\ NothingLost' => EntriesOf(n, p) = {}

\* Node n takes a step that leaves its forwarder alone.
Calm(n) ==
  /\ listens'[n] = listens[n] /\ active'[n] = active[n] /\ started'[n] = started[n]
  /\ torn'[n] = torn[n] /\ stray'[n] = stray[n] /\ contested' = contested /\ unguarded' = unguarded

LEMMA ObjectTypes ==
  ASSUME TypeOK, NEW p \in PFs
  PROVE  /\ obj \in [PFs -> Object \cup {Absent}] /\ Absent.exists = FALSE
         /\ obj[p].exists =>
              /\ obj[p] \in Object /\ obj[p].deleting \in BOOLEAN /\ obj[p].finalizer \in BOOLEAN
              /\ \A n \in Nodes : obj[p].status[n] \in Seq(Entries)
<1>1. obj[p] \in Object \cup {Absent}
  BY DEF TypeOK
<1>2. \A x \in Object : /\ x.deleting \in BOOLEAN /\ x.finalizer \in BOOLEAN
                        /\ \A n \in Nodes : x.status[n] \in Seq(Entries)
  BY DEF Object
<1>3. Absent.exists = FALSE
  BY DEF Absent
<1> QED
  BY <1>1, <1>2, <1>3 DEF TypeOK

LEMMA Untouched ==
  ASSUME NEW n, NEW p, obj'[p].exists = obj[p].exists,
         obj[p].exists => obj'[p].status[n] = obj[p].status[n]
  PROVE  EntriesOf(n, p)' = EntriesOf(n, p)
BY DEF EntriesOf

LEMMA UserStep ==
  ASSUME TypeOK, User, NEW n \in Nodes
  PROVE  Elsewhere(n)
<1> USE DEF Edit, Unedited, api, fwd, history
<1>1. ASSUME NEW p \in PFs, NEW s \in Specs, Create(p, s) PROVE Elsewhere(n)
  <2> DEFINE x == [exists |-> TRUE, gen |-> edits', deleting |-> FALSE, finalizer |-> FALSE, spec |-> s,
                   status |-> [m \in Nodes |-> <<>>]]
  <2>1. obj' = [obj EXCEPT ![p] = x] /\ obj[p] = Absent
    BY <1>1 DEF Create
  <2>2. obj'[p].exists /\ obj'[p].status[n] = <<>> /\ \A q \in PFs : q # p => obj'[q] = obj[q]
    BY <2>1 DEF TypeOK
  <2>3. EntriesOf(n, p) = {} /\ EntriesOf(n, p)' = {}
    BY <2>1, <2>2 DEF EntriesOf, Absent, Range
  <2> QED
    BY <1>1, <2>2, <2>3 DEF Create, Elsewhere
<1>2. ASSUME NEW p \in PFs, NEW s \in Specs, Update(p, s) PROVE Elsewhere(n)
  <2>1. \A q \in PFs : obj'[q].exists = obj[q].exists /\ (obj[q].exists => obj'[q].status[n] = obj[q].status[n])
    BY <1>2 DEF Update, TypeOK, Object, Absent
  <2> QED
    BY <1>2, <2>1 DEF Update, Elsewhere
<1>3. ASSUME NEW p \in PFs, Delete(p) PROVE Elsewhere(n)
  <2>1. CASE obj[p].finalizer
    <3>1. \A q \in PFs : obj'[q].exists = obj[q].exists /\ (obj[q].exists => obj'[q].status[n] = obj[q].status[n])
      <4>1. obj[p] \in Object /\ obj \in [PFs -> Object \cup {Absent}]
        BY <1>3, ObjectTypes DEF Delete
      <4>2. obj' = [obj EXCEPT ![p] = [obj[p] EXCEPT !.deleting = TRUE, !.gen = edits']]
        BY <1>3, <2>1, <4>1 DEF Delete
      <4>3. obj'[p] = [obj[p] EXCEPT !.deleting = TRUE, !.gen = edits'] /\ \A q \in PFs : q # p => obj'[q] = obj[q]
        BY <4>1, <4>2
      <4>4. obj'[p].exists = obj[p].exists /\ obj'[p].status = obj[p].status
        BY <4>1, <4>3 DEF Object
      <4> QED
        BY <4>3, <4>4
    <3> QED
      BY <1>3, <2>1, <3>1 DEF Delete, Elsewhere
  <2>2. CASE ~obj[p].finalizer
    <3>1. obj'[p] = Absent /\ (\A q \in PFs : q # p => obj'[q] = obj[q]) /\ unguarded' = unguarded \cup {p}
      BY <1>3, <2>2 DEF Delete, TypeOK
    <3>2. EntriesOf(n, p)' = {} /\ ~obj'[p].exists /\ ~NothingLost'
      BY <3>1 DEF EntriesOf, Absent, NothingLost
    <3> QED
      BY <1>3, <3>1, <3>2 DEF Delete, Elsewhere
  <2> QED
    BY <2>1, <2>2
<1>4. ASSUME NEW p \in PFs, NEW v \in Services, ChangeService(p, v) PROVE Elsewhere(n)
  BY <1>4 DEF ChangeService, Elsewhere
<1> QED
  BY <1>1, <1>2, <1>3, <1>4 DEF User

LEMMA BeginStep ==
  ASSUME TypeOK, ~CacheLag, NEW n \in Nodes, NEW p \in PFs, Begin(n, p)
  PROVE  /\ Calm(n) /\ obj' = obj /\ cache' = cache /\ lost' = lost
         /\ work[n] = Idle /\ queue'[n] = queue[n] \ {p} /\ cache[n][p] = obj[p]
         /\ \/ work'[n] = Idle /\ (obj[p].exists => obj[p].deleting /\ ~obj[p].finalizer)
            \/ /\ obj[p].exists /\ work'[n] # Idle /\ work'[n].pf = p /\ work'[n].inst = obj[p]
               /\ work'[n].pc \in {"finalizer", "remove"} /\ work'[n].ports = <<>>
<1>1. work[n] = Idle /\ cache[n][p] = obj[p] /\ queue' = [queue EXCEPT ![n] = @ \ {p}]
      /\ UNCHANGED <<api, cache, fwd, edits, faults, crashes, history>>
  BY DEF Begin
<1>2. Calm(n) /\ obj' = obj /\ cache' = cache /\ lost' = lost /\ queue'[n] = queue[n] \ {p}
  BY <1>1 DEF Calm, api, fwd, history, TypeOK
<1>3. \A k \in {"finalizer", "remove"} :
        /\ Task(k, p, obj[p]) # Idle /\ Task(k, p, obj[p]).pf = p /\ Task(k, p, obj[p]).inst = obj[p]
        /\ Task(k, p, obj[p]).pc = k /\ Task(k, p, obj[p]).ports = <<>>
  BY DEF Task, Idle
<1>4. CASE ~obj[p].exists
  <2>1. Goto(n, Idle)
    BY <1>1, <1>4, Zenon DEF Begin
  <2> QED
    BY <1>1, <1>2, <1>4, <2>1 DEF Goto, TypeOK
<1>5. CASE obj[p].exists
  <2>1. obj[p].deleting \in BOOLEAN /\ obj[p].finalizer \in BOOLEAN
    BY <1>5, ObjectTypes
  <2>2. \/ Goto(n, Task("finalizer", p, obj[p])) \/ Goto(n, Task("remove", p, obj[p]))
        \/ Goto(n, Idle) /\ obj[p].deleting /\ ~obj[p].finalizer
    BY <1>1, <1>5, <2>1 DEF Begin
  <2>3. CASE Goto(n, Idle) /\ obj[p].deleting /\ ~obj[p].finalizer
    BY <1>1, <1>2, <2>3 DEF Goto, TypeOK
  <2>4. ASSUME NEW k \in {"finalizer", "remove"}, Goto(n, Task(k, p, obj[p]))
        PROVE  work'[n] = Task(k, p, obj[p])
    BY <2>4 DEF Goto, TypeOK
  <2> QED
    BY <1>1, <1>2, <1>3, <1>5, <2>2, <2>3, <2>4
<1> QED
  BY <1>4, <1>5

LEMMA AddFinalizerStep ==
  ASSUME TypeOK, ~CacheLag, NEW n \in Nodes, AddFinalizer(n)
  PROVE  /\ Calm(n) /\ cache' = cache /\ lost' = lost /\ queue' = queue
         /\ work[n] # Idle /\ work[n].pc = "finalizer"
         /\ work'[n] # Idle /\ work'[n].pf = work[n].pf /\ work'[n].inst = work[n].inst
         /\ work'[n].pc = "sync" /\ work'[n].ports = work[n].ports
         /\ \A m \in Nodes, q \in PFs :
              /\ obj'[q].exists = obj[q].exists
              /\ obj[q].exists => obj'[q].status[m] = obj[q].status[m] /\ obj'[q].deleting = obj[q].deleting
              /\ obj[q].exists /\ obj[q].finalizer => obj'[q].finalizer
<1>1. work[n] # Idle /\ work[n].pc = "finalizer"
  BY NotIdle DEF AddFinalizer, At_
<1>2. work[n].pf \in PFs /\ work[n] \in Tasks /\ [work[n] EXCEPT !.pc = "sync"] \in Tasks
  BY <1>1, TaskTypes
<1>3. Goto(n, [work[n] EXCEPT !.pc = "sync"]) /\ queue' = queue
      /\ \/ obj' = obj
         \/ obj[work[n].pf].exists /\ obj' = [obj EXCEPT ![work[n].pf].finalizer = TRUE]
  BY DEF AddFinalizer, Fresh
<1>4. work'[n] = [work[n] EXCEPT !.pc = "sync"]
  BY <1>2, <1>3, GoesTo
<1>5. work'[n] # Idle /\ work'[n].pf = work[n].pf /\ work'[n].inst = work[n].inst
      /\ work'[n].pc = "sync" /\ work'[n].ports = work[n].ports
  BY <1>2, <1>4 DEF Tasks, Idle
<1>6. \A m \in Nodes, q \in PFs :
        /\ obj'[q].exists = obj[q].exists
        /\ obj[q].exists => obj'[q].status[m] = obj[q].status[m] /\ obj'[q].deleting = obj[q].deleting
        /\ obj[q].exists /\ obj[q].finalizer => obj'[q].finalizer
  <2>1. SUFFICES ASSUME obj[work[n].pf].exists, obj' = [obj EXCEPT ![work[n].pf].finalizer = TRUE],
                        NEW q \in PFs
                 PROVE  /\ obj'[q].exists = obj[q].exists
                        /\ obj[q].exists => obj'[q].status = obj[q].status /\ obj'[q].deleting = obj[q].deleting
                        /\ obj[q].exists /\ obj[q].finalizer => obj'[q].finalizer
    BY <1>3
  <2> DEFINE p == work[n].pf
  <2>2. obj[p] \in Object /\ obj \in [PFs -> Object \cup {Absent}]
    BY <1>2, <2>1, ObjectTypes
  <2>3. obj'[p] = [obj[p] EXCEPT !.finalizer = TRUE] /\ \A o \in PFs : o # p => obj'[o] = obj[o]
    BY <1>2, <2>1, <2>2
  <2>4. obj'[p].exists = obj[p].exists /\ obj'[p].status = obj[p].status /\ obj'[p].deleting = obj[p].deleting
        /\ obj'[p].finalizer
    BY <2>2, <2>3 DEF Object
  <2> QED
    BY <2>3, <2>4
<1>7. Calm(n) /\ cache' = cache /\ lost' = lost
  BY DEF AddFinalizer, Calm, fwd, history
<1> QED
  BY <1>1, <1>3, <1>5, <1>6, <1>7

LEMMA SyncStep ==
  ASSUME TypeOK, NEW n \in Nodes, Sync(n)
  PROVE  LET w == work[n]
             v == work'[n]
             s == w.inst.status[n]
         IN /\ Calm(n) /\ obj' = obj /\ cache' = cache /\ lost' = lost /\ queue' = queue
            /\ w # Idle /\ w.pc = "sync" /\ s \in Seq(Entries)
            /\ v # Idle /\ v.pf = w.pf /\ v.inst = w.inst
            /\ v.pc = IF v.todo = {} THEN "patch" ELSE "forward"
            /\ \A x \in Range(v.ports) : x.state = "Failed" /\ x.port = NamedPort
            /\ \A x \in v.todo : x.verb # "add" => x.entry \in Recorded(s)
            /\ \A x, y \in v.todo : x.verb # "add" /\ y.verb # "add" /\ x.entry = y.entry => x = y
            /\ \A e \in Recorded(s) : \E x \in v.todo : x.verb # "add" /\ x.entry = e
<1> DEFINE w == work[n]
           service == svc[w.pf]
           plan == SyncForwardingPorts(w.inst.spec, w.inst.status[n], service)
           errs == Unresolved(w.inst.spec, service)
<1>1. w # Idle /\ w.pc = "sync"
  BY NotIdle DEF Sync, At_
<1>2. w.inst.spec \in Specs /\ w.inst.status[n] \in Seq(Entries) /\ w \in Tasks
  BY <1>1, TaskTypes
<1>3. service \in Services /\ service # NoService
  BY <1>1, TaskTypes DEF Sync, TypeOK
<1>4. /\ plan \subseteq Ops /\ errs \in Seq(Entries)
      /\ \A x \in Range(errs) : x.state = "Failed" /\ x.port = NamedPort
      /\ \A x \in plan : x.verb # "add" => x.entry \in Recorded(w.inst.status[n])
      /\ \A x, y \in plan : x.verb # "add" /\ y.verb # "add" /\ x.entry = y.entry => x = y
      /\ \A e \in Recorded(w.inst.status[n]) : \E x \in plan : x.verb # "add" /\ x.entry = e
  BY <1>2, <1>3, Planned
<1>5. PICK k : /\ k = IF plan = {} THEN "patch" ELSE "forward"
               /\ Goto(n, [w EXCEPT !.pc = k, !.todo = plan, !.ports = errs])
  BY DEF Sync
<1> HIDE DEF plan, errs
<1>6. PICK v : v = [w EXCEPT !.pc = k, !.todo = plan, !.ports = errs]
  OBVIOUS
<1>7. v = [pc |-> k, pf |-> w.pf, inst |-> w.inst, ports |-> errs, todo |-> plan, freed |-> w.freed]
  BY <1>2, <1>6 DEF Tasks
<1>8. v.pc = k /\ v.pf = w.pf /\ v.inst = w.inst /\ v.ports = errs /\ v.todo = plan
  BY <1>7
<1>9. work'[n] = v
  BY <1>5, <1>6 DEF Goto, TypeOK
<1>10. v # Idle
  BY <1>5, <1>8 DEF Idle
<1>11. Calm(n) /\ obj' = obj /\ cache' = cache /\ lost' = lost /\ queue' = queue
  BY DEF Sync, Calm, api, fwd, history
<1> QED
  BY <1>1, <1>2, <1>4, <1>5, <1>8, <1>9, <1>10, <1>11

LEMMA RemovePortsStep ==
  ASSUME TypeOK, NEW n \in Nodes, RemovePorts(n)
  PROVE  LET w == work[n]
             v == work'[n]
             s == w.inst.status[n]
         IN /\ Calm(n) /\ obj' = obj /\ cache' = cache /\ lost' = lost /\ queue' = queue
            /\ w # Idle /\ w.pc \in {"remove", "sync"} /\ s \in Seq(Entries)
            /\ \/ v = Idle /\ Earlier(n) = {}
               \/ /\ v # Idle /\ v.pf = w.pf /\ v.inst = w.inst /\ v.ports = w.ports
                  /\ \/ v.pc = "release" /\ Earlier(n) = {}
                     \/ /\ v.pc = IF v.todo = {} THEN Withdrawn(w.inst.deleting) ELSE "withdraw"
                        /\ \A x \in v.todo : x.verb = "remove" /\ x.entry \in Earlier(n)
                        /\ \A e \in Earlier(n) : e.port # NamedPort => \E x \in v.todo : x.entry = e
<1> DEFINE w == work[n]
           s == w.inst.status[n]
           plan == {Op("remove", i, s[i]) : i \in {j \in 1..Len(s) : s[j].port.num # 0}}
<1>1. w # Idle /\ w.pc \in {"remove", "sync"}
  BY NotIdle DEF RemovePorts, At_
<1>2. s \in Seq(Entries) /\ w \in Tasks /\ [w EXCEPT !.pc = "release"] \in Tasks
  BY <1>1, TaskTypes
<1>3. Calm(n) /\ obj' = obj /\ cache' = cache /\ lost' = lost /\ queue' = queue
  BY DEF RemovePorts, Calm, api, fwd, history
<1>4. CASE s = <<>>
  <2>1. Earlier(n) = {}
    BY <1>2, <1>4, RangeOfList DEF Earlier
  <2>2. Goto(n, [w EXCEPT !.pc = "release"]) \/ Goto(n, Idle)
    BY <1>4 DEF RemovePorts
  <2>3. work'[n] = [w EXCEPT !.pc = "release"] \/ work'[n] = Idle
    BY <2>2 DEF Goto, TypeOK
  <2>4. LET v == [w EXCEPT !.pc = "release"]
        IN v # Idle /\ v.pf = w.pf /\ v.inst = w.inst /\ v.ports = w.ports /\ v.pc = "release"
    BY <1>2 DEF Tasks, Idle
  <2> QED
    BY <1>1, <1>2, <1>3, <2>1, <2>3, <2>4
<1>5. CASE s # <<>>
  <2>1. PICK k : /\ k = IF plan = {} THEN Withdrawn(w.inst.deleting) ELSE "withdraw"
                 /\ Goto(n, [w EXCEPT !.pc = k, !.todo = plan])
    BY <1>5 DEF RemovePorts
  <2>2. \A x \in plan : x.verb = "remove" /\ x.entry \in Earlier(n)
    BY <1>2, RangeOfList DEF Op, Earlier
  <2>3. ASSUME NEW e \in Earlier(n), e.port # NamedPort PROVE \E x \in plan : x.entry = e
    <3>1. PICK i \in 1..Len(s) : e = s[i]
      BY <1>2, RangeOfList DEF Earlier
    <3>2. e \in Entries
      BY <3>1, <1>2
    <3>3. e.port.num # 0
      BY <2>3, <3>2, PortsHaveNumbers DEF Entries
    <3>4. Op("remove", i, s[i]) \in plan /\ Op("remove", i, s[i]).entry = e
      BY <3>1, <3>3 DEF Op
    <3> QED
      BY <3>4
  <2> HIDE DEF plan
  <2>4. PICK v : v = [w EXCEPT !.pc = k, !.todo = plan]
    OBVIOUS
  <2>5. v = [pc |-> k, pf |-> w.pf, inst |-> w.inst, ports |-> w.ports, todo |-> plan, freed |-> w.freed]
    BY <1>2, <2>4 DEF Tasks
  <2>6. v.pc = k /\ v.pf = w.pf /\ v.inst = w.inst /\ v.ports = w.ports /\ v.todo = plan
    BY <2>5
  <2>7. work'[n] = v
    BY <2>1, <2>4 DEF Goto, TypeOK
  <2>8. k \in {"patch", "patch-release", "withdraw"}
    BY <2>1 DEF Withdrawn
  <2>9. v # Idle
    BY <2>6, <2>8 DEF Idle
  <2> QED
    BY <1>1, <1>2, <1>3, <2>1, <2>2, <2>3, <2>6, <2>7, <2>9
<1> QED
  BY <1>4, <1>5

LEMMA PatchStep ==
  ASSUME TypeOK, ~CacheLag, NEW n \in Nodes, Patch(n)
  PROVE  LET w == work[n]
             p == w.pf
         IN /\ Calm(n) /\ cache' = cache
            /\ w # Idle /\ p \in PFs /\ w.pc \in {"patch", "patch-release"}
            /\ \/ /\ obj[p].exists /\ cache[n][p] = obj[p] /\ queue' = queue
                  /\ obj'[p].exists /\ obj'[p].status[n] = w.ports
                  /\ obj'[p].deleting = obj[p].deleting /\ obj'[p].finalizer = obj[p].finalizer
                  /\ \A m \in Nodes : m # n => obj'[p].status[m] = obj[p].status[m]
                  /\ \A o \in PFs : o # p => obj'[o] = obj[o]
                  /\ Recording(n, p)
                  /\ \/ w.pc = "patch" /\ work'[n] = Idle
                     \/ /\ w.pc = "patch-release" /\ work'[n] # Idle /\ work'[n].pc = "release"
                        /\ work'[n].pf = p /\ work'[n].inst = w.inst /\ work'[n].ports = w.ports
               \/ /\ ~cache[n][p].exists /\ obj' = obj /\ work'[n] = Idle
                  /\ queue'[n] = queue[n] \cup {p} /\ Forgotten(n)
<1> DEFINE w == work[n]
           p == w.pf
<1>1. w # Idle /\ w.pc \in {"patch", "patch-release"}
  BY NotIdle DEF Patch, At_
<1>2. p \in PFs /\ w \in Tasks /\ [w EXCEPT !.pc = "release"] \in Tasks
  BY <1>1, TaskTypes
<1>3. Calm(n) /\ cache' = cache
  BY DEF Patch, Calm, fwd
<1>4. \/ /\ Fresh(n) /\ obj[p].exists
         /\ obj' = [obj EXCEPT ![p].status[n] = w.ports]
         /\ Goto(n, IF At_(n, "patch") THEN Idle ELSE [w EXCEPT !.pc = "release"])
         /\ Recording(n, p) /\ queue' = queue
      \/ ~cache[n][p].exists /\ Requeue(n) /\ Forgotten(n) /\ obj' = obj
  BY DEF Patch
<1>5. CASE /\ Fresh(n) /\ obj[p].exists
           /\ obj' = [obj EXCEPT ![p].status[n] = w.ports]
           /\ Goto(n, IF At_(n, "patch") THEN Idle ELSE [w EXCEPT !.pc = "release"])
           /\ Recording(n, p) /\ queue' = queue
  <2>1. obj[p] \in Object /\ obj \in [PFs -> Object \cup {Absent}]
    BY <1>2, <1>5, ObjectTypes
  <2>2. obj[p].status \in [Nodes -> Seq(Entries)]
    BY <2>1 DEF Object
  <2>3. obj'[p] = [obj[p] EXCEPT !.status = [obj[p].status EXCEPT ![n] = w.ports]]
        /\ \A o \in PFs : o # p => obj'[o] = obj[o]
    BY <1>2, <1>5, <2>1
  <2>4. /\ obj'[p].exists = obj[p].exists /\ obj'[p].deleting = obj[p].deleting
        /\ obj'[p].finalizer = obj[p].finalizer
        /\ obj'[p].status = [obj[p].status EXCEPT ![n] = w.ports]
    BY <2>1, <2>3 DEF Object
  <2>5. obj'[p].status[n] = w.ports /\ \A m \in Nodes : m # n => obj'[p].status[m] = obj[p].status[m]
    BY <2>2, <2>4
  <2>6. \/ w.pc = "patch" /\ work'[n] = Idle
        \/ w.pc = "patch-release" /\ work'[n] = [w EXCEPT !.pc = "release"]
    BY <1>1, <1>5 DEF Goto, TypeOK, At_
  <2>7. LET v == [w EXCEPT !.pc = "release"]
        IN v # Idle /\ v.pf = w.pf /\ v.inst = w.inst /\ v.ports = w.ports /\ v.pc = "release"
    BY <1>2 DEF Tasks, Idle
  <2> QED
    BY <1>1, <1>2, <1>3, <1>5, <2>3, <2>4, <2>5, <2>6, <2>7 DEF Fresh
<1>6. CASE ~cache[n][p].exists /\ Requeue(n) /\ Forgotten(n) /\ obj' = obj
  <2>1. work'[n] = Idle /\ queue'[n] = queue[n] \cup {p}
    BY <1>6 DEF Requeue, Goto, TypeOK
  <2> QED
    BY <1>1, <1>2, <1>3, <1>6, <2>1
<1> QED
  BY <1>4, <1>5, <1>6

LEMMA ReleaseStep ==
  ASSUME TypeOK, NEW n \in Nodes, Release(n)
  PROVE  /\ Calm(n) /\ cache' = cache /\ lost \subseteq lost'
         /\ work[n] # Idle /\ work[n].pc = "release" /\ work'[n] = Idle
         /\ queue[n] \subseteq queue'[n]
         /\ \/ obj' = obj
            \/ /\ obj'[work[n].pf] = Absent /\ \A o \in PFs : o # work[n].pf => obj'[o] = obj[o]
               /\ NothingLost' => NodesCleared(obj[work[n].pf])
<1>1. work[n] # Idle /\ work[n].pc = "release"
  BY NotIdle DEF Release, At_
<1>2. work[n].pf \in PFs
  BY <1>1, TaskTypes
<1>3. /\ Goto(n, Idle)
      /\ \/ queue' = queue
         \/ queue' = [queue EXCEPT ![n] = @ \cup {work[n].pf}]
      /\ \/ obj' = obj /\ lost' = lost
         \/ /\ obj' = [obj EXCEPT ![work[n].pf] = Absent]
            /\ lost' = IF NodesCleared(obj[work[n].pf]) THEN lost ELSE lost \cup {work[n].pf}
  BY DEF Release, Requeue
<1>4. Calm(n) /\ cache' = cache
  BY DEF Release, Calm, fwd
<1>5. work'[n] = Idle /\ queue[n] \subseteq queue'[n]
  BY <1>3 DEF Goto, TypeOK
<1>6. lost \subseteq lost'
  BY <1>3
<1>7. \/ obj' = obj
      \/ /\ obj'[work[n].pf] = Absent /\ \A o \in PFs : o # work[n].pf => obj'[o] = obj[o]
         /\ NothingLost' => NodesCleared(obj[work[n].pf])
  BY <1>2, <1>3 DEF TypeOK, NothingLost
<1> QED
  BY <1>1, <1>4, <1>5, <1>6, <1>7

LEMMA CrashStep ==
  ASSUME TypeOK, NEW n \in Nodes, Crash(n)
  PROVE  /\ work'[n] = Idle /\ obj' = obj /\ contested' = contested /\ unguarded' = unguarded
         /\ listens'[n] = {} /\ active'[n] \subseteq active[n]
         /\ stray'[n] = (IF Backend = "nftables" THEN stray[n] ELSE {})
         /\ Standing(Forwarder(n)') \subseteq Standing(Forwarder(n))
         /\ queue'[n] = {p \in PFs : obj[p].exists} /\ Forgotten(n)
BY DEF Crash, Goto, TypeOK, api, Standing, Forwarder

\* Whatever happens happens elsewhere or is a step of node n.
LEMMA NodeStep ==
  ASSUME TypeOK, ~CacheLag, [Next]_vars, NEW n \in Nodes
  PROVE  Elsewhere(n) \/ Crash(n) \/ Reconcile(n)
<1>6. TypeOK'
  BY TypeNext
<1>1. CASE UNCHANGED vars
  BY <1>1 DEF vars, Elsewhere
<1>2. CASE User
  BY <1>2, UserStep
<1>3. ASSUME NEW m \in Nodes, NEW p \in PFs, Refresh(m, p) PROVE Elsewhere(n)
  <2>1. obj' = obj /\ \A q \in PFs : cache'[n][q] = cache[n][q] \/ cache'[n][q] = obj[q]
    BY <1>3 DEF Refresh, TypeOK, api
  <2>2. queue[n] \subseteq queue'[n]
    BY <1>3 DEF Refresh, TypeOK
  <2> QED
    BY <1>3, <2>1, <2>2 DEF Refresh, Elsewhere, fwd, history
<1>4. ASSUME NEW m \in Nodes, m # n, Crash(m) PROVE Elsewhere(n)
  <2>1. obj' = obj /\ lost \subseteq lost'
    BY <1>4 DEF Crash, api, Forgotten
  <2>2. /\ work'[n] = work[n] /\ listens'[n] = listens[n] /\ active'[n] = active[n] /\ started'[n] = started[n]
        /\ torn'[n] = torn[n] /\ stray'[n] = stray[n] /\ queue'[n] = queue[n] /\ cache'[n] = cache[n]
    BY <1>4 DEF Crash, TypeOK, Goto
  <2> QED
    BY <1>4, <2>1, <2>2 DEF Crash, Elsewhere
<1>5. ASSUME NEW m \in Nodes, m # n, Reconcile(m) PROVE Elsewhere(n)
  <2>1. ASSUME NEW p \in PFs, Begin(m, p) PROVE Elsewhere(n)
    <3>1. \E task : Goto(m, task)
      BY <2>1 DEF Begin
    <3>2. work'[n] = work[n] /\ queue'[n] = queue[n]
      BY <2>1, <3>1, <1>5 DEF Begin, TypeOK, Goto
    <3> QED
      BY <2>1, <3>2 DEF Begin, Elsewhere, api, fwd, history
  <2>2. CASE AddFinalizer(m)
    <3>1. \E task : Goto(m, task)
      BY <2>2 DEF AddFinalizer, Requeue
    <3>2. work'[n] = work[n]
      BY <3>1, <1>5 DEF TypeOK, Goto
    <3>3. \A q \in PFs : /\ obj'[q].exists = obj[q].exists
                         /\ obj[q].exists => obj'[q].status[n] = obj[q].status[n]
      BY <2>2, AddFinalizerStep
    <3>4. queue' = queue
      BY <2>2, AddFinalizerStep
    <3> QED
      BY <2>2, <3>2, <3>3, <3>4 DEF Elsewhere, AddFinalizer, fwd, history
  <2>3. CASE Sync(m)
    <3>1. \E task : Goto(m, task)
      BY <2>3 DEF Sync
    <3>2. work'[n] = work[n]
      BY <3>1, <1>5 DEF TypeOK, Goto
    <3> QED
      BY <2>3, <3>2 DEF Elsewhere, Sync, api, fwd, history
  <2>4. CASE Forward(m)
    <3>1. Alone(m) /\ contested \subseteq contested'
      BY <2>4, Turned
    <3> QED
      BY <2>4, <3>1, <1>5 DEF Alone, Elsewhere, Forward, api
  <2>5. CASE RemovePorts(m)
    <3>1. \E task : Goto(m, task)
      BY <2>5 DEF RemovePorts
    <3>2. work'[n] = work[n]
      BY <3>1, <1>5 DEF TypeOK, Goto
    <3> QED
      BY <2>5, <3>2 DEF Elsewhere, RemovePorts, api, fwd, history
  <2>6. CASE Withdraw(m)
    <3>1. Alone(m)
      BY <2>6, Withdrew
    <3> QED
      BY <2>6, <3>1, <1>5 DEF Alone, Elsewhere, Withdraw, api, history
  <2>7. CASE Patch(m)
    <3>1. \E task : Goto(m, task)
      BY <2>7 DEF Patch, Requeue
    <3>2. work'[n] = work[n]
      BY <3>1, <1>5 DEF TypeOK, Goto
    <3>3. queue[n] \subseteq queue'[n]
      BY <2>7, <1>5 DEF Patch, Requeue, TypeOK
    <3>4. \A q \in PFs : /\ obj'[q].exists = obj[q].exists
                         /\ obj[q].exists => obj'[q].status[n] = obj[q].status[n]
      <4> DEFINE p == work[m].pf
      <4>1. \/ /\ obj[p].exists /\ obj'[p].exists
               /\ obj'[p].status[n] = obj[p].status[n]
               /\ \A o \in PFs : o # p => obj'[o] = obj[o]
            \/ obj' = obj
        BY <2>7, <1>5, PatchStep
      <4> HIDE DEF p
      <4>2. CASE /\ obj[p].exists /\ obj'[p].exists
                 /\ obj'[p].status[n] = obj[p].status[n]
                 /\ \A o \in PFs : o # p => obj'[o] = obj[o]
        <5>1. obj[p].exists \in BOOLEAN /\ obj'[p].exists \in BOOLEAN
          <6>1. p \in PFs
            BY <2>7, PatchStep DEF p
          <6>2. obj[p] \in Object \cup {Absent} /\ obj'[p] \in Object \cup {Absent}
            BY <6>1, <1>6 DEF TypeOK
          <6>3. \A x \in Object \cup {Absent} : x.exists \in BOOLEAN
            <7>1. \A x \in Object : x.exists = TRUE
              BY DEF Object
            <7>2. Absent.exists = FALSE
              BY DEF Absent
            <7> QED
              BY <7>1, <7>2
          <6> QED
            BY <6>2, <6>3
        <5> TAKE q \in PFs
        <5>2. CASE q = p
          BY <4>2, <5>1, <5>2
        <5>3. CASE q # p
          BY <4>2, <5>3
        <5> QED
          BY <5>2, <5>3
      <4> QED
        BY <4>1, <4>2
    <3>5. lost \subseteq lost'
      BY <2>7 DEF Patch, Recording, Forgotten
    <3> QED
      BY <2>7, <3>2, <3>3, <3>4, <3>5 DEF Elsewhere, Patch, fwd
  <2>8. CASE Release(m)
    <3>1. work'[n] = work[n] /\ queue[n] \subseteq queue'[n]
      BY <2>8, <1>5 DEF Release, Requeue, Goto, TypeOK
    <3>2. /\ lost \subseteq lost' /\ cache' = cache
          /\ \/ obj' = obj
             \/ /\ obj'[work[m].pf] = Absent /\ \A o \in PFs : o # work[m].pf => obj'[o] = obj[o]
                /\ NothingLost' => NodesCleared(obj[work[m].pf])
      BY <2>8, ReleaseStep
    <3>3. PICK p : p = work[m].pf
      OBVIOUS
    <3>4. ASSUME obj'[p] = Absent, NothingLost' => NodesCleared(obj[p])
          PROVE  /\ EntriesOf(n, p)' = {} /\ ~obj'[p].exists
                 /\ NothingLost' => EntriesOf(n, p) = {}
      <4>1. EntriesOf(n, p)' = {}  /\ ~obj'[p].exists
        BY <3>4 DEF EntriesOf, Absent
      <4>2. NodesCleared(obj[p]) => EntriesOf(n, p) = {}
        BY DEF NodesCleared, EntriesOf, Range
      <4> QED
        BY <3>4, <4>1, <4>2
    <3>5. \A q \in PFs :
            \/ obj'[q] = obj[q]
            \/ /\ EntriesOf(n, q)' = {} /\ ~obj'[q].exists
               /\ NothingLost' => EntriesOf(n, q) = {}
      BY <3>2, <3>3, <3>4
    <3>6. lost \subseteq lost' /\ cache' = cache
      BY <3>2
    <3> QED
      BY <2>8, <3>1, <3>5, <3>6 DEF Elsewhere, Release, fwd
  <2> QED
    BY <1>5, <2>1, <2>2, <2>3, <2>4, <2>5, <2>6, <2>7, <2>8 DEF Reconcile
<1> QED
  BY <1>1, <1>2, <1>3, <1>4, <1>5 DEF Next

-----------------------------------------------------------------------------
(* Base is inductive.                                                      *)

\* Only an object with a finalizer is marked as deleted, and the finalizer
\* goes with the object.
LEMMA GuardedNext ==
  ASSUME TypeOK, ~CacheLag, Guarded, [Next]_vars
  PROVE  Guarded'
<1> DEFINE Safe(p) == obj'[p].exists /\ obj'[p].deleting => obj'[p].finalizer
<1> SUFFICES ASSUME NEW p \in PFs PROVE Safe(p)
  BY DEF Guarded
<1>1. obj' = obj => Safe(p)
  BY DEF Guarded
<1>2. \A q \in PFs : obj' = [obj EXCEPT ![q] = Absent] => Safe(p)
  BY DEF Guarded, TypeOK, Absent
<1> HIDE DEF Safe
<1>3. CASE User
  <2>1. ASSUME NEW q \in PFs, NEW s \in Specs, Create(q, s) PROVE Safe(p)
    BY <2>1 DEF Create, Safe, Guarded, TypeOK
  <2>2. ASSUME NEW q \in PFs, NEW s \in Specs, Update(q, s) PROVE Safe(p)
    BY <2>2, ObjectTypes DEF Update, Safe, Guarded, Object
  <2>3. ASSUME NEW q \in PFs, Delete(q) PROVE Safe(p)
    <3>1. CASE obj[q].finalizer
      BY <2>3, <3>1, ObjectTypes DEF Delete, Safe, Guarded, Object
    <3>2. CASE ~obj[q].finalizer
      BY <2>3, <3>2, <1>2 DEF Delete
    <3> QED
      BY <3>1, <3>2
  <2>4. ASSUME NEW q \in PFs, NEW v \in Services, ChangeService(q, v) PROVE Safe(p)
    BY <2>4, <1>1 DEF ChangeService
  <2> QED
    BY <1>3, <2>1, <2>2, <2>3, <2>4 DEF User
<1>4. ASSUME NEW m \in Nodes, Crash(m) \/ Reconcile(m) PROVE Safe(p)
  <2>1. CASE AddFinalizer(m)
    BY <2>1, AddFinalizerStep, ObjectTypes DEF Guarded, Safe
  <2>2. CASE Patch(m)
    <3>1. PICK q \in PFs :
            \/ /\ obj[q].exists /\ obj'[q].deleting = obj[q].deleting /\ obj'[q].finalizer = obj[q].finalizer
               /\ \A o \in PFs : o # q => obj'[o] = obj[o]
            \/ obj' = obj
      BY <2>2, PatchStep
    <3> QED
      BY <3>1 DEF Guarded, Safe
  <2>3. CASE Release(m)
    BY <2>3, ReleaseStep DEF Guarded, Safe, Absent
  <2>4. CASE ~(AddFinalizer(m) \/ Patch(m) \/ Release(m))
    <3>1. obj' = obj
      BY <1>4, <2>4 DEF Reconcile, Crash, Begin, Sync, Forward, RemovePorts, Withdraw, api
    <3> QED
      BY <3>1, <1>1
  <2> QED
    BY <2>1, <2>2, <2>3, <2>4
<1>5. ASSUME NEW m \in Nodes, NEW q \in PFs, Refresh(m, q) PROVE Safe(p)
  BY <1>5, <1>1 DEF Refresh, api
<1>6. CASE UNCHANGED vars
  BY <1>6, <1>1 DEF vars
<1> QED
  BY <1>3, <1>4, <1>5, <1>6 DEF Next

LEMMA SameEntries ==
  ASSUME obj' = obj, NEW n, NEW p
  PROVE  EntriesOf(n, p)' = EntriesOf(n, p)
BY DEF EntriesOf

LEMMA ElsewhereEntries ==
  ASSUME NEW n, Elsewhere(n), NEW p \in PFs
  PROVE  /\ EntriesOf(n, p)' = EntriesOf(n, p) \/ EntriesOf(n, p)' = {}
         /\ NothingLost' => EntriesOf(n, p)' = EntriesOf(n, p)
BY Untouched DEF Elsewhere

LEMMA RunningNext ==
  ASSUME Base, ~CacheLag, [Next]_vars, NEW n \in Nodes
  PROVE  Running(n)'
<1> TypeOK /\ Running(n)
  BY DEF Base
<1>1. CASE \/ listens'[n] = listens[n] /\ started'[n] = started[n]
           \/ listens'[n] = {}
  BY <1>1 DEF Running, Started, Forwarder
<1>2. CASE Forward(n)
  <2>1. PICK o \in work[n].todo : Served(n, o)
    BY <1>2, Turned
  <2> QED
    BY <2>1 DEF Served, Gains, Tries, Adds, Tears, Drops, Loses, Started, Forwarder, Running
<1>3. CASE Withdraw(n)
  <2>1. GivenUp(n) \/ \E o \in work[n].todo : Revoked(n, o)
    BY <1>3, Withdrew
  <2> QED
    BY <2>1 DEF GivenUp, Revoked, Tears, Drops, Loses, Started, Forwarder, Running
<1>4. CASE Elsewhere(n)
  BY <1>1, <1>4 DEF Elsewhere
<1>5. CASE Crash(n)
  BY <1>1, <1>5, CrashStep
<1>6. CASE Reconcile(n) /\ ~Forward(n) /\ ~Withdraw(n)
  BY <1>1, <1>6 DEF Reconcile, Begin, AddFinalizer, Sync, RemovePorts, Patch, Release, fwd
<1> QED
  BY <1>2, <1>3, <1>4, <1>5, <1>6, NodeStep

LEMMA StagedNext ==
  ASSUME Base, ~CacheLag, [Next]_vars, NEW n \in Nodes
  PROVE  Staged(n)'
<1> TypeOK /\ Staged(n)
  BY DEF Base
<1>1. CASE work'[n] = work[n] \/ work'[n] = Idle
  BY <1>1 DEF Staged, Earlier
<1>2. ASSUME NEW p \in PFs, Begin(n, p) PROVE Staged(n)'
  <2>1. CASE work'[n] = Idle
    BY <1>1, <2>1
  <2>2. CASE work'[n] # Idle
    <3>1. work'[n].pc \in {"finalizer", "remove"} /\ work'[n].ports = <<>>
      BY <1>2, <2>2, BeginStep
    <3> QED
      BY <3>1 DEF Staged
  <2> QED
    BY <2>1, <2>2
<1>3. CASE AddFinalizer(n)
  <2>1. work[n] # Idle /\ work[n].pc = "finalizer" /\ work'[n].pc = "sync" /\ work'[n].ports = work[n].ports
    BY <1>3, AddFinalizerStep
  <2> QED
    BY <2>1 DEF Staged, Planning
<1>4. CASE Sync(n) \/ Forward(n)
  <2>1. work'[n].pc \in {"patch", "forward"}
    BY <1>4, SyncStep, Turned
  <2> QED
    BY <2>1 DEF Staged, Planning
<1>5. CASE RemovePorts(n)
  <2>1. work'[n] = Idle
        \/ /\ work'[n].ports = <<>> /\ work'[n].inst = work[n].inst
           /\ \/ work'[n].pc \in {"release", "patch", "patch-release"}
              \/ work'[n].pc = "withdraw" /\ \A x \in work'[n].todo : x.verb = "remove" /\ x.entry \in Earlier(n)
    <3>1. work[n] # Idle => work[n].ports = <<>> \/ work[n].pc \notin {"remove", "sync"}
      BY DEF Staged, Planning
    <3> QED
      BY <1>5, <3>1, RemovePortsStep DEF Withdrawn
  <2>2. CASE work'[n] = Idle
    BY <1>1, <2>2
  <2>3. CASE work'[n] # Idle
    <3>1. Range(<<>>) = {}
      BY DEF Range
    <3>2. work'[n].inst = work[n].inst => Earlier(n)' = Earlier(n)
      BY DEF Earlier
    <3> QED
      BY <2>1, <2>3, <3>1, <3>2 DEF Staged
  <2> QED
    BY <2>2, <2>3
<1>6. CASE Withdraw(n)
  <2>1. work[n] # Idle /\ work[n].pc = "withdraw" /\ work[n].inst.deleting \in BOOLEAN
    BY <1>6, NotIdle, TaskTypes DEF Withdraw, At_
  <2>2. GivenUp(n) \/ \E o \in work[n].todo : Revoked(n, o)
    BY <1>6, Withdrew
  <2>3. CASE GivenUp(n)
    BY <1>1, <2>3 DEF GivenUp
  <2>4. ASSUME NEW o \in work[n].todo, Revoked(n, o) PROVE Staged(n)'
    <3>1. /\ work'[n].inst = work[n].inst /\ work'[n].todo \subseteq work[n].todo
          /\ work'[n].pc \in {"withdraw", "patch", "patch-release"}
          /\ work'[n].pc = "patch-release" => work[n].inst.deleting
          /\ work[n].inst.deleting => work'[n].ports = work[n].ports
          /\ ~work[n].inst.deleting => Range(work'[n].ports) = Range(work[n].ports) \cup {NoTargetEntry(o.entry)}
      BY <2>4 DEF Revoked, Takes, Withdrawn
    <3>2. Earlier(n)' = Earlier(n)
      BY <3>1 DEF Earlier
    <3>3. /\ \A x \in work[n].todo : x.verb = "remove" /\ x.entry \in Earlier(n)
          /\ \A x \in Range(work[n].ports) : x.state = "NoTarget" /\ \E d \in Earlier(n) : x.port = d.port
          /\ work[n].inst.deleting => work[n].ports = <<>>
      BY <2>1 DEF Staged
    <3>4. NoTargetEntry(o.entry).state = "NoTarget" /\ NoTargetEntry(o.entry).port = o.entry.port
      BY DEF NoTargetEntry, Entry
    <3>5. \A x \in Range(work'[n].ports) : x.state = "NoTarget" /\ \E d \in Earlier(n) : x.port = d.port
      BY <2>1, <2>4, <3>1, <3>3, <3>4
    <3> QED
      BY <2>1, <3>1, <3>2, <3>3, <3>5 DEF Staged, Planning
  <2> QED
    BY <2>2, <2>3, <2>4
<1>7. CASE Patch(n)
  BY <1>1, <1>7, PatchStep DEF Staged, Planning
<1>8. CASE Release(n)
  BY <1>1, <1>8, ReleaseStep
<1>9. CASE Elsewhere(n)
  BY <1>1, <1>9 DEF Elsewhere
<1>10. CASE Crash(n)
  BY <1>1, <1>10, CrashStep
<1> QED
  BY <1>2, <1>3, <1>4, <1>5, <1>6, <1>7, <1>8, <1>9, <1>10, NodeStep DEF Reconcile

\* Of the entries to keep or remove, the one in turn shares its port with no
\* other, and comes before those to add.
LEMMA InTurn ==
  ASSUME TypeOK, NEW n \in Nodes, Apart(n), work[n] # Idle, work[n].pc = "forward",
         NEW o, Takes(n, o), NEW x \in work[n].todo, x.verb # "add", x # o
  PROVE  o.verb # "add" /\ x.entry.port # o.entry.port
<1>1. x \in Ops /\ o \in Ops /\ ~Before(x, o)
  BY TaskTypes DEF Takes
<1>2. o.verb # "add"
  BY <1>1, OpTypes DEF Before, Rank
<1> QED
  BY <1>2 DEF Apart, Takes

LEMMA ApartNext ==
  ASSUME Base, ~CacheLag, [Next]_vars, NEW n \in Nodes
  PROVE  Apart(n)'
<1> TypeOK /\ Apart(n)
  BY DEF Base
<1>1. CASE work'[n] = work[n] \/ work'[n] = Idle \/ work'[n].pc # "forward"
  BY <1>1 DEF Apart
<1>2. CASE Sync(n)
  <2> DEFINE s == work[n].inst.status[n]
  <2>1. /\ \A x \in Range(work'[n].ports) : x.port = NamedPort
        /\ \A x \in work'[n].todo : x.verb # "add" => x.entry \in Recorded(s)
        /\ \A x, y \in work'[n].todo : x.verb # "add" /\ y.verb # "add" /\ x.entry = y.entry => x = y
        /\ s \in Seq(Entries)
    BY <1>2, SyncStep
  <2>2. \A d, e \in Recorded(s) : d.port.num = e.port.num => d = e
    BY <2>1, RecordedEntries
  <2> HIDE DEF s
  <2> QED
    BY <2>1, <2>2 DEF Apart
<1>3. CASE Forward(n)
  <2>1. work[n] # Idle /\ work[n].pc = "forward"
    BY <1>3, NotIdle DEF Forward, At_
  <2>2. PICK o \in work[n].todo : Takes(n, o) /\ Served(n, o)
    BY <1>3, Turned
  <2>3. \A e \in Range(work'[n].ports) : e \in Range(work[n].ports) \/ e.port = o.entry.port
    BY <2>2 DEF Served, Lists
  <2>4. work'[n].todo = work[n].todo \ {o}
    BY <2>2 DEF Takes
  <2>5. ASSUME NEW x \in work'[n].todo, x.verb # "add"
        PROVE  /\ \A y \in work'[n].todo : y.verb # "add" /\ y.entry.port = x.entry.port => x = y
               /\ \A e \in Range(work'[n].ports) : e.port = x.entry.port => e.port = NamedPort
    <3>1. x.entry.port # o.entry.port
      BY <2>1, <2>2, <2>4, <2>5, InTurn
    <3> QED
      BY <2>1, <2>3, <2>4, <2>5, <3>1 DEF Apart
  <2> QED
    BY <2>5 DEF Apart
<1>4. ASSUME NEW p \in PFs, Begin(n, p) PROVE Apart(n)'
  BY <1>1, <1>4, BeginStep
<1>5. CASE AddFinalizer(n)
  BY <1>1, <1>5, AddFinalizerStep
<1>6. CASE RemovePorts(n)
  BY <1>1, <1>6, RemovePortsStep DEF Withdrawn
<1>7. CASE Withdraw(n)
  BY <1>1, <1>7, Withdrew DEF GivenUp, Revoked, Withdrawn
<1>8. CASE Patch(n)
  BY <1>1, <1>8, PatchStep
<1>9. CASE Release(n) \/ Crash(n)
  BY <1>1, <1>9, ReleaseStep, CrashStep
<1>10. CASE Elsewhere(n)
  BY <1>1, <1>10 DEF Elsewhere
<1> QED
  BY <1>2, <1>3, <1>4, <1>5, <1>6, <1>7, <1>8, <1>9, <1>10, NodeStep DEF Reconcile

LEMMA SteadyNext ==
  ASSUME Base, ~CacheLag, [Next]_vars, NEW n \in Nodes
  PROVE  Steady(n)'
<1> TypeOK /\ Steady(n) /\ Staged(n)
  BY DEF Base
<1> DEFINE Now(p) == /\ work'[n].pc \in Unpatched => EntriesOf(n, p)' = Earlier(n)' \/ EntriesOf(n, p)' = {}
                     /\ work'[n].pc = "release" \/ ~cache'[n][p].exists => EntriesOf(n, p)' = {}
<1> SUFFICES ASSUME NEW p \in PFs, Doing(n, p)' PROVE Now(p)
  BY DEF Steady
<1>0. work'[n] # Idle /\ work'[n].pf = p
  BY DEF Doing
\* The reconcile goes on and the object stays as it is.
<1>1. ASSUME work[n] # Idle, work[n].pf = p, work'[n].inst = work[n].inst,
             EntriesOf(n, p)' = EntriesOf(n, p), cache'[n][p] = cache[n][p],
             work'[n].pc \in Unpatched => work[n].pc \in Unpatched,
             work'[n].pc = "release" => EntriesOf(n, p) = {}
      PROVE  Now(p)
  <2>1. Earlier(n)' = Earlier(n)
    BY <1>1 DEF Earlier
  <2>2. Doing(n, p)
    BY <1>1 DEF Doing
  <2> QED
    BY <1>1, <2>1, <2>2 DEF Steady
<1>2. CASE Elsewhere(n)
  <2>1. Doing(n, p) /\ Earlier(n)' = Earlier(n) /\ work'[n] = work[n]
    BY <1>0, <1>2 DEF Elsewhere, Doing, Earlier
  <2>2. EntriesOf(n, p)' = EntriesOf(n, p) \/ EntriesOf(n, p)' = {}
    BY <1>2, ElsewhereEntries
  <2>3. cache'[n][p] = cache[n][p] \/ (~cache'[n][p].exists => EntriesOf(n, p)' = {})
    BY <1>2 DEF Elsewhere, EntriesOf
  <2> QED
    BY <2>1, <2>2, <2>3 DEF Steady
<1>3. ASSUME NEW q \in PFs, Begin(n, q) PROVE Now(p)
  <2>1. /\ obj' = obj /\ cache' = cache /\ cache[n][q] = obj[q] /\ p = q
        /\ obj[p].exists /\ work'[n].inst = obj[p] /\ work'[n].pc \in {"finalizer", "remove"}
    BY <1>0, <1>3, BeginStep
  <2>2. EntriesOf(n, p)' = Earlier(n)'
    BY <2>1 DEF EntriesOf, Earlier
  <2> QED
    BY <2>1, <2>2
<1>4. CASE AddFinalizer(n)
  <2>1. /\ work[n] # Idle /\ work[n].pc = "finalizer" /\ work'[n].pc = "sync" /\ work[n].pf = p
        /\ work'[n].inst = work[n].inst /\ cache' = cache
        /\ obj'[p].exists = obj[p].exists /\ (obj[p].exists => obj'[p].status[n] = obj[p].status[n])
    BY <1>0, <1>4, AddFinalizerStep
  <2> QED
    BY <1>1, <2>1, Untouched DEF Unpatched, Planning
<1>5. CASE Sync(n)
  <2>1. /\ work[n] # Idle /\ work[n].pc = "sync" /\ work'[n].pc \in {"patch", "forward"} /\ work[n].pf = p
        /\ work'[n].inst = work[n].inst /\ cache' = cache /\ obj' = obj
    BY <1>0, <1>5, SyncStep
  <2> QED
    BY <1>1, <2>1, SameEntries DEF Unpatched, Planning
<1>6. CASE RemovePorts(n)
  <2>1. /\ work[n] # Idle /\ work[n].pc \in {"sync", "remove"} /\ work[n].pf = p
        /\ work'[n].inst = work[n].inst /\ cache' = cache /\ obj' = obj
        /\ work'[n].pc = "release" => Earlier(n) = {}
    BY <1>0, <1>6, RemovePortsStep DEF Withdrawn
  <2>2. Earlier(n) = {} => EntriesOf(n, p) = {}
    BY <2>1 DEF Steady, Doing, Unpatched, Planning
  <2> QED
    BY <1>1, <2>1, <2>2, SameEntries DEF Unpatched, Planning
<1>7. CASE Forward(n)
  <2>1. /\ work[n].pc = "forward" /\ work[n] # Idle
    BY <1>7, NotIdle DEF Forward, At_
  <2>2. work[n].pf = p /\ work'[n].inst = work[n].inst /\ work'[n].pc \in {"patch", "forward"}
    BY <1>0, <1>7, Turned DEF Takes
  <2>3. cache' = cache /\ obj' = obj
    BY <1>7 DEF Forward, api
  <2> QED
    BY <1>1, <2>1, <2>2, <2>3, SameEntries DEF Unpatched, Planning
<1>8. CASE Withdraw(n)
  <2>1. /\ work[n].pc = "withdraw" /\ work[n] # Idle
    BY <1>8, NotIdle DEF Withdraw, At_
  <2>2. work[n].pf = p /\ work'[n].inst = work[n].inst /\ work'[n].pc \in {"patch", "patch-release", "withdraw"}
    BY <1>0, <1>8, Withdrew DEF Takes, Revoked, GivenUp, Withdrawn
  <2>3. cache' = cache /\ obj' = obj
    BY <1>8 DEF Withdraw, api
  <2> QED
    BY <1>1, <2>1, <2>2, <2>3, SameEntries DEF Unpatched, Planning
<1>9. CASE Patch(n)
  <2>1. /\ work[n] # Idle /\ work[n].pc = "patch-release" /\ work[n].pf = p
        /\ obj'[p].exists /\ obj'[p].status[n] = work[n].ports /\ work'[n].pc = "release"
    BY <1>0, <1>9, PatchStep
  <2>2. work[n].ports = <<>>
    BY <2>1 DEF Staged
  <2>3. EntriesOf(n, p)' = {}
    BY <2>1, <2>2 DEF EntriesOf, Range
  <2> QED
    BY <2>3
<1>10. CASE Release(n) \/ Crash(n)
  BY <1>0, <1>10, ReleaseStep, CrashStep
<1> QED
  BY <1>2, <1>3, <1>4, <1>5, <1>6, <1>7, <1>8, <1>9, <1>10, NodeStep DEF Reconcile

LEMMA DisputedNext ==
  ASSUME Base, ~CacheLag, [Next]_vars, NEW n \in Nodes
  PROVE  Disputed(n)'
<1> TypeOK /\ Disputed(n) /\ Staged(n)
  BY DEF Base
<1> DEFINE C(p) == Claimed(n, p)
           E(p) == EntriesOf(n, p)
\* Nothing new is claimed, and what was contested stays so.
<1>1. ASSUME contested \subseteq contested',
             \A p \in PFs : EntriesOf(n, p)' \subseteq E(p) /\ Claimed(n, p)' \subseteq C(p)
      PROVE  Disputed(n)'
  BY <1>1 DEF Disputed
<1>2. \A p \in PFs : E(p) \subseteq C(p)
  BY DEF Claimed
<1>3. ASSUME contested \subseteq contested', \A p \in PFs : EntriesOf(n, p)' \subseteq E(p),
             work'[n] = work[n] \/ work'[n] = Idle
      PROVE  Disputed(n)'
  BY <1>1, <1>3 DEF Claimed, Doing, Earlier
<1>4. CASE Elsewhere(n)
  BY <1>3, <1>4, ElsewhereEntries DEF Elsewhere
<1>5. CASE Crash(n)
  BY <1>3, <1>5, CrashStep, SameEntries
<1>6. CASE Release(n)
  <2>1. PICK q : q = work[n].pf
    OBVIOUS
  <2>2. work'[n] = Idle /\ contested' = contested
        /\ (obj' = obj \/ (obj'[q] = Absent /\ \A o \in PFs : o # q => obj'[o] = obj[o]))
    BY <1>6, <2>1, ReleaseStep DEF Calm
  <2>3. \A p \in PFs : EntriesOf(n, p)' \subseteq E(p)
    BY <2>2 DEF EntriesOf, Absent
  <2> QED
    BY <1>3, <2>2, <2>3
<1>7. ASSUME NEW q \in PFs, Begin(n, q) PROVE Disputed(n)'
  <2>1. /\ obj' = obj /\ contested' = contested /\ work[n] = Idle
        /\ \/ work'[n] = Idle
           \/ obj[q].exists /\ work'[n].pf = q /\ work'[n].inst = obj[q] /\ work'[n].ports = <<>>
    BY <1>7, BeginStep DEF Calm
  <2>2. CASE work'[n] = Idle
    BY <1>3, <2>1, <2>2, SameEntries
  <2>3. CASE work'[n] # Idle
    <3>1. Earlier(n)' = E(q) /\ Range(work'[n].ports) = {}
      BY <2>1, <2>3 DEF Earlier, EntriesOf, Range
    <3>2. \A p \in PFs : Claimed(n, p)' \subseteq C(p)
      <4> TAKE p \in PFs
      <4>1. EntriesOf(n, p)' = EntriesOf(n, p)
        BY <2>1, SameEntries
      <4>2. Doing(n, p)' => p = q
        BY <2>1, <2>3 DEF Doing
      <4> QED
        BY <3>1, <4>1, <4>2 DEF Claimed
    <3> QED
      BY <1>1, <2>1, <3>2, SameEntries
  <2> QED
    BY <2>2, <2>3
\* The reconcile goes on, and what it lists anew is an earlier entry, or not
\* of a port, or of a port that is contested when others have it.
<1>8. ASSUME contested \subseteq contested', NEW q \in PFs, work[n] # Idle, work[n].pf = q,
             work'[n] = Idle \/ (work'[n].pf = q /\ work'[n].inst = work[n].inst),
             \A p \in PFs : EntriesOf(n, p)' = E(p),
             work'[n] = Idle
             \/ \A e \in Range(work'[n].ports) :
                  \/ e \in Range(work[n].ports)
                  \/ \E d \in Earlier(n) : d.port = e.port
                  \/ e.port \notin Ports
                  \/ e.port \in contested' \/ ~Shared(n, q, e.port)
      PROVE  Disputed(n)'
  <2>1. CASE work'[n] = Idle
    BY <1>3, <1>8, <2>1
  <2>2. CASE work'[n] # Idle
    <3>1. Earlier(n)' = Earlier(n) /\ Doing(n, q) /\ \A p \in PFs : Doing(n, p)' => p = q
      BY <1>8, <2>2 DEF Earlier, Doing
    <3>2. ASSUME NEW o \in PFs, NEW p \in PFs, o # p, NEW d \in EntriesOf(n, o)', NEW e \in Claimed(n, p)',
                 d.port = e.port, d.port \in Ports
          PROVE  d.port \in contested'
      <4>1. d \in E(o)
        BY <1>8, <3>2
      <4>2. CASE e \in C(p)
        BY <1>8, <3>2, <4>1, <4>2 DEF Disputed
      <4>3. CASE e \notin C(p)
        <5>1. p = q /\ e \in Range(work'[n].ports) /\ e \notin Range(work[n].ports)
          BY <1>8, <3>1, <4>3 DEF Claimed
        <5>2. Shared(n, q, e.port)
          BY <3>2, <4>1, <5>1 DEF Shared
        <5>3. CASE \E c \in Earlier(n) : c.port = e.port
          BY <1>8, <3>1, <3>2, <4>1, <5>1, <5>3 DEF Disputed, Claimed
        <5> QED
          BY <1>8, <2>2, <3>2, <5>1, <5>2, <5>3
      <4> QED
        BY <4>2, <4>3
    <3> QED
      BY <3>2 DEF Disputed
  <2> QED
    BY <2>1, <2>2
<1>9. CASE AddFinalizer(n)
  <2>1. /\ contested' = contested /\ work[n] # Idle
        /\ work'[n].pf = work[n].pf /\ work'[n].inst = work[n].inst /\ work'[n].ports = work[n].ports
    BY <1>9, AddFinalizerStep DEF Calm
  <2>2. \A p \in PFs : EntriesOf(n, p)' = E(p)
    BY <1>9, AddFinalizerStep, Untouched
  <2>3. work[n].pf \in PFs
    BY <2>1, TaskTypes
  <2> QED
    BY <1>8, <2>1, <2>2, <2>3
<1>10. CASE Sync(n)
  <2>1. /\ contested' = contested /\ work[n] # Idle /\ obj' = obj
        /\ work'[n].pf = work[n].pf /\ work'[n].inst = work[n].inst
        /\ \A x \in Range(work'[n].ports) : x.port = NamedPort
    BY <1>10, SyncStep DEF Calm
  <2>2. work[n].pf \in PFs
    BY <2>1, TaskTypes
  <2> QED
    BY <1>8, <2>1, <2>2, SameEntries, PortsHaveNumbers
<1>11. CASE RemovePorts(n)
  <2>1. /\ contested' = contested /\ work[n] # Idle /\ obj' = obj
        /\ work'[n] = Idle \/ (work'[n].pf = work[n].pf /\ work'[n].inst = work[n].inst /\ work'[n].ports = work[n].ports)
    BY <1>11, RemovePortsStep DEF Calm
  <2>2. work[n].pf \in PFs
    BY <2>1, TaskTypes
  <2> QED
    BY <1>8, <2>1, <2>2, SameEntries
<1>12. CASE Forward(n)
  <2>1. work[n] # Idle /\ obj' = obj
    BY <1>12, NotIdle DEF Forward, At_, api
  <2>2. PICK o \in work[n].todo :
          /\ Takes(n, o) /\ Served(n, o) /\ contested \subseteq contested'
          /\ Shared(n, work[n].pf, o.entry.port) /\ o.entry.port \in Ports => o.entry.port \in contested'
    BY <1>12, Turned
  <2>3. \A e \in Range(work'[n].ports) : e \in Range(work[n].ports) \/ e.port = o.entry.port
    BY <2>2 DEF Served, Lists
  <2>4. work'[n].pf = work[n].pf /\ work'[n].inst = work[n].inst
    BY <2>2 DEF Takes
  <2>5. work[n].pf \in PFs
    BY <2>1, TaskTypes
  <2> QED
    BY <1>8, <2>1, <2>2, <2>3, <2>4, <2>5, SameEntries
<1>13. CASE Withdraw(n)
  <2>1. work[n] # Idle /\ work[n].pc = "withdraw" /\ obj' = obj /\ contested' = contested
    BY <1>13, NotIdle DEF Withdraw, At_, api, history
  <2>2. GivenUp(n) \/ \E o \in work[n].todo : Revoked(n, o)
    BY <1>13, Withdrew
  <2>3. CASE GivenUp(n)
    BY <1>3, <2>1, <2>3, SameEntries DEF GivenUp
  <2>4. ASSUME NEW o \in work[n].todo, Revoked(n, o) PROVE Disputed(n)'
    <3>1. work'[n].pf = work[n].pf /\ work'[n].inst = work[n].inst
      BY <2>4 DEF Revoked, Takes
    <3>2. o.entry \in Earlier(n) /\ NoTargetEntry(o.entry).port = o.entry.port
      BY <2>1, <2>4 DEF Staged, NoTargetEntry, Entry
    <3>3. \A e \in Range(work'[n].ports) : e \in Range(work[n].ports) \/ \E d \in Earlier(n) : d.port = e.port
      BY <2>4, <3>2 DEF Revoked
    <3>4. work[n].pf \in PFs
      BY <2>1, TaskTypes
    <3> QED
      BY <1>8, <2>1, <3>1, <3>3, <3>4, SameEntries
  <2> QED
    BY <2>2, <2>3, <2>4
<1>14. CASE Patch(n)
  <2>1. PICK q : q = work[n].pf
    OBVIOUS
  <2>2. /\ contested' = contested /\ work[n] # Idle /\ q \in PFs
        /\ \/ /\ obj'[q].exists /\ obj'[q].status[n] = work[n].ports
              /\ \A o \in PFs : o # q => obj'[o] = obj[o]
              /\ work'[n] = Idle \/ (work'[n].pf = q /\ work'[n].inst = work[n].inst /\ work'[n].ports = work[n].ports)
           \/ obj' = obj /\ work'[n] = Idle
    BY <1>14, <2>1, PatchStep DEF Calm
  <2>3. CASE obj' = obj /\ work'[n] = Idle
    BY <1>3, <2>2, <2>3, SameEntries
  <2>4. CASE /\ obj'[q].exists /\ obj'[q].status[n] = work[n].ports
             /\ \A o \in PFs : o # q => obj'[o] = obj[o]
             /\ work'[n] = Idle \/ (work'[n].pf = q /\ work'[n].inst = work[n].inst /\ work'[n].ports = work[n].ports)
    <3>1. EntriesOf(n, q)' = Range(work[n].ports)
      BY <2>4 DEF EntriesOf
    <3>2. \A o \in PFs : o # q => EntriesOf(n, o)' = E(o)
      BY <2>4 DEF EntriesOf
    <3>3. Doing(n, q) /\ (\A p \in PFs : Doing(n, p) => p = q) /\ (\A p \in PFs : Doing(n, p)' => p = q)
      BY <2>1, <2>2, <2>4 DEF Doing
    <3>4. Earlier(n)' = Earlier(n) \/ work'[n] = Idle
      BY <2>4 DEF Earlier
    <3>5. EntriesOf(n, q)' \subseteq C(q) /\ Claimed(n, q)' \subseteq C(q)
      BY <2>4, <3>1, <3>3, <3>4 DEF Claimed, Doing
    <3>6. \A o \in PFs : o # q => C(o) = E(o) /\ Claimed(n, o)' = E(o)
      BY <3>2, <3>3 DEF Claimed
    <3>7. ASSUME NEW o \in PFs, NEW p \in PFs, o # p, NEW d \in EntriesOf(n, o)', NEW e \in Claimed(n, p)',
                 d.port = e.port, d.port \in Ports
          PROVE  d.port \in contested'
      <4>1. CASE o = q
        BY <2>2, <3>5, <3>6, <3>7, <4>1 DEF Disputed
      <4>2. CASE p = q
        BY <2>2, <3>2, <3>5, <3>7, <4>2 DEF Disputed
      <4>3. CASE o # q /\ p # q
        BY <2>2, <3>2, <3>6, <3>7, <4>3, <1>2 DEF Disputed
      <4> QED
        BY <4>1, <4>2, <4>3
    <3> QED
      BY <3>7 DEF Disputed
  <2> QED
    BY <2>2, <2>3, <2>4
<1> QED
  BY <1>4, <1>5, <1>6, <1>7, <1>9, <1>10, <1>11, <1>12, <1>13, <1>14, NodeStep DEF Reconcile

LEMMA BaseInit == Init => Base
<1> SUFFICES ASSUME Init PROVE Base
  OBVIOUS
<1>1. TypeOK
  BY TypeInit
<1>2. \A p \in PFs : ~obj[p].exists
  BY DEF Init, Absent
<1>3. \A n \in Nodes : work[n] = Idle /\ listens[n] = {} /\ \A p \in PFs : EntriesOf(n, p) = {}
  BY <1>2 DEF Init, EntriesOf
<1>4. Guarded
  BY <1>2 DEF Guarded
<1>5. \A n \in Nodes : Running(n) /\ Staged(n) /\ Apart(n) /\ Steady(n) /\ Disputed(n)
  BY <1>3 DEF Running, Staged, Apart, Steady, Doing, Disputed
<1> QED
  BY <1>1, <1>4, <1>5 DEF Base

LEMMA BaseNext ==
  ASSUME Base, ~CacheLag, [Next]_vars
  PROVE  Base'
<1>1. TypeOK' /\ Guarded'
  BY TypeNext, GuardedNext DEF Base
<1>2. \A n \in Nodes : Running(n)' /\ Staged(n)' /\ Apart(n)' /\ Steady(n)' /\ Disputed(n)'
  BY RunningNext, StagedNext, ApartNext, SteadyNext, DisputedNext
<1> QED
  BY <1>1, <1>2 DEF Base

-----------------------------------------------------------------------------
(* What is called Ready is redirected.                                     *)

LEMMA TrueIsHeld ==
  ASSUME NEW n, NEW e, True(n, e)
  PROVE  Held(n, e)
BY DEF True, Held

LEMMA StaysTrue ==
  ASSUME NEW n, listens'[n] = listens[n], active'[n] = active[n], torn'[n] = torn[n],
         contested \subseteq contested', NEW e
  PROVE  (True(n, e) => True(n, e)') /\ (Held(n, e) => Held(n, e)')
BY DEF True, Held, Doubted

\* What a call does for the ports of the guard.
Calls(f, g, q, t) ==
  Gains(f, g, q, t) \/ Tries(f, g, q, t) \/ Tears(f, g, q) \/ Drops(f, g, q, t) \/ Loses(f, g, q, t)

\* A call for port q concerns no other port: a first start finds no keys.
LEMMA CallForOnePort ==
  ASSUME NEW n, Running(n), contested \subseteq contested', NEW q, NEW t, NEW e,
         Calls(Forwarder(n), Forwarder(n)', q, t)
  PROVE  /\ True(n, e) /\ (e.port # q \/ e.port \in contested' \/ ~Loses(Forwarder(n), Forwarder(n)', q, t))
              => True(n, e)'
         /\ Held(n, e) /\ (e.port # q \/ e.port \in contested' \/ ~Gains(Forwarder(n), Forwarder(n)', q, t))
              => Held(n, e)'
<1> DEFINE f == Forwarder(n)
           g == Forwarder(n)'
           R == Redirects(e.port, e.target)
<1>1. /\ f.listens = listens[n] /\ f.active = active[n] /\ f.torn = torn[n]
      /\ g.listens = listens'[n] /\ g.active = active'[n] /\ g.torn = torn'[n]
  BY DEF Forwarder
<1>2. /\ True(n, e) <=> (e.state = "Ready" /\ e.port \notin contested \cup f.torn
                           => e.port \in f.listens /\ R \subseteq f.active)
      /\ Held(n, e) <=> (e.state = "Ready" /\ e.port \notin contested \cup f.torn /\ e.port \in f.listens
                           => R \subseteq f.active)
      /\ True(n, e)' <=> (e.state = "Ready" /\ e.port \notin contested' \cup g.torn
                            => e.port \in g.listens /\ R \subseteq g.active)
      /\ Held(n, e)' <=> (e.state = "Ready" /\ e.port \notin contested' \cup g.torn /\ e.port \in g.listens
                            => R \subseteq g.active)
  BY <1>1 DEF True, Held, Doubted
<1>3. f.listens # {} => Started(f)
  BY <1>1 DEF Running
<1>4. \A r \in R : r[1] = e.port
  BY RuleParts
<1> HIDE DEF f, g, R
<1>5. CASE Gains(f, g, q, t)
  <2>1. ~Loses(f, g, q, t) /\ g.listens = f.listens \cup {q} /\ q \notin f.listens /\ g.torn = f.torn
        /\ (Started(f) => f.active \subseteq g.active)
    BY <1>5 DEF Gains, Adds, Loses
  <2> QED
    BY <1>2, <1>3, <1>5, <2>1 DEF f, g
<1>6. CASE Tries(f, g, q, t)
  <2>1. g.listens = f.listens /\ g.torn = f.torn /\ (Started(f) => f.active \subseteq g.active)
    BY <1>6 DEF Tries, Adds
  <2> QED
    BY <1>2, <1>3, <2>1 DEF f, g
<1>7. CASE Tears(f, g, q)
  <2>1. CASE e.port = q
    <3>1. g.listens = f.listens /\ ((g.torn = f.torn /\ g.active = f.active) \/ e.port \in g.torn)
      BY <1>7, <2>1 DEF Tears
    <3> QED
      BY <1>2, <3>1 DEF f, g
  <2>2. CASE e.port # q
    <3>1. g.listens = f.listens /\ (e.port \in g.torn <=> e.port \in f.torn) /\ (R \subseteq f.active => R \subseteq g.active)
      BY <1>4, <1>7, <2>2 DEF Tears
    <3> QED
      BY <1>2, <3>1 DEF f, g
  <2> QED
    BY <2>1, <2>2
<1>8. CASE Drops(f, g, q, t)
  <2>1. g.listens = f.listens /\ g.torn = f.torn /\ g.active = f.active
    BY <1>8 DEF Drops
  <2> QED
    BY <1>2, <2>1 DEF f, g
<1>9. CASE Loses(f, g, q, t)
  <2>1. g.listens = f.listens \ {q} /\ g.torn = f.torn \ {q} /\ \A r \in f.active : r[1] # q => r \in g.active
    BY <1>9 DEF Loses
  <2>2. e.port # q /\ R \subseteq f.active => R \subseteq g.active
    BY <1>4, <2>1
  <2> QED
    BY <1>2, <1>9, <2>1, <2>2 DEF f, g
<1> QED
  BY <1>5, <1>6, <1>7, <1>8, <1>9 DEF Calls, f, g

LEMMA ReadyForward ==
  ASSUME Base, NEW n \in Nodes, ReadyInv(n), Forward(n)
  PROVE  ReadyInv(n)'
<1> TypeOK /\ Running(n) /\ Staged(n) /\ Apart(n)
  BY DEF Base
<1>1. work[n] # Idle /\ work[n].pc = "forward" /\ obj' = obj /\ queue' = queue
  BY NotIdle DEF Forward, At_, api
<1>2. PICK o \in work[n].todo :
        /\ Takes(n, o) /\ Served(n, o) /\ contested \subseteq contested'
        /\ Shared(n, work[n].pf, o.entry.port) /\ o.entry.port \in Ports => o.entry.port \in contested'
        /\ work'[n].pc \in {"patch", "forward"}
  BY Turned
<1> DEFINE q == o.entry.port
           t == o.entry.target
           f == Forwarder(n)
           g == Forwarder(n)'
           True1(e) == True(n, e)'
           Held1(e) == Held(n, e)'
<1>3. PICK p \in PFs : p = work[n].pf
  BY <1>1, TaskTypes
<1>4. o \in Ops /\ listens[n] \subseteq Ports
  BY <1>1, TaskTypes DEF TypeOK
<1>5. work'[n] # Idle /\ work'[n].pf = p /\ work'[n].inst = work[n].inst /\ work'[n].todo = work[n].todo \ {o}
  BY <1>2, <1>3 DEF Takes, Tasks, Idle
<1>6. Calls(f, g, q, t)
  BY <1>2 DEF Served, Calls
<1>7. \A e : /\ True(n, e) /\ (e.port # q \/ e.port \in contested' \/ ~Loses(f, g, q, t)) => True1(e)
             /\ Held(n, e) /\ (e.port # q \/ e.port \in contested' \/ ~Gains(f, g, q, t)) => Held1(e)
  BY <1>2, <1>6, CallForOnePort
<1>8. Gains(f, g, q, t) \/ Loses(f, g, q, t) => q \in Ports
  <2>1. CASE o.verb = "remove"
    <3>1. Gains(f, g, q, t) \/ Loses(f, g, q, t) => q \in listens[n] \/ q \in listens'[n]
      BY DEF Gains, Loses, Forwarder
    <3>2. ~Gains(f, g, q, t)
      BY <1>2, <2>1 DEF Served, Gains, Tears, Drops, Loses
    <3> QED
      BY <1>4, <3>1, <3>2 DEF Loses, Forwarder
  <2>2. CASE o.verb # "remove"
    BY <1>4, <2>2, OpTypes
  <2> QED
    BY <2>1, <2>2
<1> HIDE DEF True1, Held1
\* Entries of other objects.
<1>9. ASSUME NEW z \in PFs, z # p, NEW e \in EntriesOf(n, z)
      PROVE  (True(n, e) => True1(e)) /\ (Held(n, e) => Held1(e))
  <2>1. e.port = q => Shared(n, p, q)
    BY <1>9 DEF Shared
  <2> QED
    BY <1>2, <1>3, <1>7, <1>8, <2>1
<1>10. ASSUME NEW z \in PFs
       PROVE  /\ z \notin queue'[n] /\ ~Doing(n, z)' => \A e \in EntriesOf(n, z)' : True1(e)
              /\ ~(Doing(n, z)' /\ work'[n].pc \in {"forward", "patch"}) => \A e \in EntriesOf(n, z)' : Held1(e)
  <2>1. EntriesOf(n, z)' = EntriesOf(n, z)
    BY <1>1, SameEntries
  <2>2. (Doing(n, z)' <=> z = p) /\ (Doing(n, z) <=> z = p)
    BY <1>1, <1>3, <1>5 DEF Doing
  <2> QED
    BY <1>1, <1>2, <1>9, <2>1, <2>2 DEF ReadyInv
\* Entries for the new status.
<1>11. ASSUME NEW e \in Range(work'[n].ports) PROVE True1(e)
  <2>1. CASE e \in Range(work[n].ports)
    <3>1. True(n, e)
      BY <1>1, <2>1 DEF ReadyInv
    <3>2. CASE Loses(f, g, q, t) /\ e.port = q
      <4>0. ~Gains(f, g, q, t) /\ ~Tries(f, g, q, t)
        BY <3>2 DEF Loses, Gains, Tries
      <4>1. o.verb = "remove"
        BY <1>2, <4>0 DEF Served
      <4>2. e.port = NamedPort
        BY <1>1, <1>2, <2>1, <3>2, <4>1 DEF Apart, Takes
      <4> QED
        BY <1>8, <3>2, <4>2, PortsHaveNumbers
    <3> QED
      BY <1>7, <3>1, <3>2
  <2>2. CASE e \notin Range(work[n].ports)
    <3>1. \/ Gains(f, g, q, t) /\ e.port = q /\ e.target = t
          \/ /\ e.port = q /\ e.target = t
             /\ e.state = "Ready" => o.verb = "keep" /\ o.entry.state = "Ready" /\ q \in listens[n] /\ Keeps(f, g)
          \/ e.state = "Residual"
      BY <1>2, <2>2 DEF Served, Lists
    <3>2. CASE Gains(f, g, q, t) /\ e.port = q /\ e.target = t
      BY <3>2 DEF Gains, Forwarder, True, True1
    <3>3. CASE /\ e.port = q /\ e.target = t
               /\ e.state = "Ready" => o.verb = "keep" /\ o.entry.state = "Ready" /\ q \in listens[n] /\ Keeps(f, g)
      <4>1. o.verb = "keep" => Held(n, o.entry)
        BY <1>1, <1>2 DEF ReadyInv
      <4>2. Keeps(f, g) => listens'[n] = listens[n] /\ active'[n] = active[n] /\ torn'[n] = torn[n]
        BY DEF Keeps, Forwarder
      <4> QED
        BY <1>2, <3>3, <4>1, <4>2 DEF Held, True, True1, Doubted
    <3>4. CASE e.state = "Residual"
      BY <3>4 DEF True, True1
    <3> QED
      BY <3>1, <3>2, <3>3, <3>4
  <2> QED
    BY <2>1, <2>2
\* Entries still to keep.
<1>12. ASSUME NEW x \in work'[n].todo, x.verb = "keep" PROVE Held1(x.entry)
  <2>1. x \in work[n].todo /\ x # o /\ Held(n, x.entry)
    BY <1>1, <1>5, <1>12 DEF ReadyInv
  <2>2. x.entry.port # q
    BY <1>1, <1>2, <1>12, <2>1, InTurn
  <2> QED
    BY <1>7, <2>1, <2>2
<1> QED
  BY <1>2, <1>10, <1>11, <1>12 DEF ReadyInv, True1, Held1, Planning

LEMMA ReadyWithdraw ==
  ASSUME Base, NEW n \in Nodes, ReadyInv(n), Withdraw(n)
  PROVE  ReadyInv(n)'
<1> TypeOK /\ Running(n) /\ Staged(n) /\ Disputed(n)
  BY DEF Base
<1> DEFINE True1(e) == True(n, e)'
           Held1(e) == Held(n, e)'
<1>1. work[n] # Idle /\ work[n].pc = "withdraw" /\ obj' = obj /\ contested' = contested
  BY NotIdle DEF Withdraw, At_, api, history
<1>2. PICK p \in PFs : p = work[n].pf
  BY <1>1, TaskTypes
<1>3. GivenUp(n) \/ \E o \in work[n].todo : Revoked(n, o)
  BY Withdrew
<1>4. listens[n] \subseteq Ports
  BY DEF TypeOK
<1>5. CASE GivenUp(n)
  <2>1. work'[n] = Idle /\ queue'[n] = queue[n] \cup {p}
    BY <1>2, <1>5 DEF GivenUp
  <2>2. \A e : (True(n, e) => True1(e)) /\ (Held(n, e) => Held1(e))
    <3>1. PICK o \in work[n].todo : Tears(Forwarder(n), Forwarder(n)', o.entry.port)
      BY <1>5 DEF GivenUp
    <3>2. \A q, t : ~Gains(Forwarder(n), Forwarder(n)', q, t) /\ ~Loses(Forwarder(n), Forwarder(n)', q, t)
      BY <3>1 DEF Tears, Gains, Loses
    <3>3. Calls(Forwarder(n), Forwarder(n)', o.entry.port, o.entry.target)
      BY <3>1 DEF Calls
    <3> QED
      BY <1>1, <3>2, <3>3, CallForOnePort
  <2> HIDE DEF True1, Held1
  <2>3. ASSUME NEW z \in PFs
        PROVE  /\ z \notin queue'[n] => \A e \in EntriesOf(n, z)' : True1(e)
               /\ \A e \in EntriesOf(n, z)' : Held1(e)
    <3>1. EntriesOf(n, z)' = EntriesOf(n, z)
      BY <1>1, SameEntries
    <3>2. Doing(n, z) => z = p
      BY <1>2 DEF Doing
    <3> QED
      BY <1>1, <2>1, <2>2, <3>1, <3>2 DEF ReadyInv
  <2> QED
    BY <2>1, <2>3 DEF ReadyInv, True1, Held1
<1>6. ASSUME NEW o \in work[n].todo, Revoked(n, o) PROVE ReadyInv(n)'
  <2> DEFINE q == o.entry.port
             t == o.entry.target
             f == Forwarder(n)
             g == Forwarder(n)'
  <2>1. /\ work'[n] # Idle /\ work'[n].pf = p /\ work'[n].inst = work[n].inst /\ queue'[n] = queue[n]
        /\ work'[n].pc \in {"withdraw", "patch", "patch-release"}
    BY <1>2, <1>6 DEF Revoked, Takes, Withdrawn, Tasks, Idle
  <2>2. Drops(f, g, q, t) \/ Loses(f, g, q, t)
    BY <1>6 DEF Revoked
  <2>3. \A e : /\ True(n, e) /\ (e.port # q \/ e.port \in contested' \/ ~Loses(f, g, q, t)) => True1(e)
               /\ Held(n, e) => Held1(e)
    <3>1. ~Gains(f, g, q, t) /\ Calls(f, g, q, t)
      BY <2>2 DEF Drops, Loses, Gains, Calls
    <3> QED
      BY <1>1, <3>1, CallForOnePort
  <2>4. Loses(f, g, q, t) => q \in Ports
    BY <1>4 DEF Loses, Forwarder
  <2>5. o.entry \in Earlier(n)
    BY <1>1, <1>6 DEF Staged
  <2> HIDE DEF True1, Held1
  <2>6. ASSUME NEW z \in PFs, z # p, NEW e \in EntriesOf(n, z), True(n, e)
        PROVE  True1(e)
    <3>1. o.entry \in Claimed(n, p)
      BY <1>1, <1>2, <2>5 DEF Claimed, Doing
    <3>2. e.port = q /\ q \in Ports => q \in contested
      BY <2>6, <3>1 DEF Disputed
    <3> QED
      BY <1>1, <2>3, <2>4, <2>6, <3>2
  <2>7. ASSUME NEW z \in PFs
        PROVE  /\ z \notin queue'[n] /\ ~Doing(n, z)' => \A e \in EntriesOf(n, z)' : True1(e)
               /\ \A e \in EntriesOf(n, z)' : Held1(e)
    <3>1. EntriesOf(n, z)' = EntriesOf(n, z)
      BY <1>1, SameEntries
    <3>2. (Doing(n, z)' <=> z = p) /\ (Doing(n, z) <=> z = p)
      BY <1>1, <1>2, <2>1 DEF Doing
    <3> QED
      BY <1>1, <2>1, <2>3, <2>6, <3>1, <3>2 DEF ReadyInv
  <2>8. ASSUME NEW e \in Range(work'[n].ports) PROVE True1(e)
    <3>1. e.state = "NoTarget"
      BY <1>1, <1>6 DEF Revoked, Staged, NoTargetEntry, Entry
    <3> QED
      BY <3>1 DEF True1, True
  <2> QED
    BY <2>1, <2>7, <2>8 DEF ReadyInv, True1, Held1, Planning
<1> QED
  BY <1>3, <1>5, <1>6

LEMMA ReadyNext ==
  ASSUME Base, ~CacheLag, [Next]_vars, NEW n \in Nodes, ReadyInv(n)
  PROVE  ReadyInv(n)'
<1> TypeOK /\ Guarded /\ Running(n) /\ Staged(n) /\ Steady(n)
  BY DEF Base
<1> DEFINE True1(e) == True(n, e)'
           Held1(e) == Held(n, e)'
           Reported(p) == /\ p \notin queue'[n] /\ ~Doing(n, p)' => \A e \in EntriesOf(n, p)' : True1(e)
                          /\ ~(Doing(n, p)' /\ work'[n].pc \in {"forward", "patch"})
                               => \A e \in EntriesOf(n, p)' : Held1(e)
           InWork == work'[n] # Idle =>
                       /\ work'[n].pc \in Planning => \A e \in Earlier(n)' : Held1(e)
                       /\ \A e \in Range(work'[n].ports) : True1(e)
                       /\ work'[n].pc = "forward" => \A x \in work'[n].todo : x.verb = "keep" => Held1(x.entry)
<1>0. (\A p \in PFs : Reported(p)) /\ InWork => ReadyInv(n)'
  BY DEF ReadyInv
<1>1. \A e : True1(e) => Held1(e)
  BY DEF True, Held
<1>2. (listens'[n] = listens[n] /\ active'[n] = active[n] /\ torn'[n] = torn[n] /\ contested \subseteq contested')
        => \A e : (True(n, e) => True1(e)) /\ (Held(n, e) => Held1(e))
  BY StaysTrue
<1>3. CASE Elsewhere(n)
  <2>1. work'[n] = work[n] /\ queue[n] \subseteq queue'[n]
        /\ \A e : (True(n, e) => True1(e)) /\ (Held(n, e) => Held1(e))
    BY <1>2, <1>3 DEF Elsewhere
  <2>2. Earlier(n)' = Earlier(n)
    BY <2>1 DEF Earlier
  <2> HIDE DEF True1, Held1
  <2>3. ASSUME NEW p \in PFs PROVE Reported(p)
    <3>1. EntriesOf(n, p)' \subseteq EntriesOf(n, p)
      BY <1>3, ElsewhereEntries
    <3>2. Doing(n, p)' <=> Doing(n, p)
      BY <2>1 DEF Doing
    <3> QED
      BY <2>1, <3>1, <3>2 DEF ReadyInv
  <2>4. InWork
    BY <2>1, <2>2 DEF ReadyInv
  <2> QED
    BY <1>0, <2>3, <2>4
<1>4. CASE Crash(n)
  <2>1. work'[n] = Idle /\ obj' = obj /\ listens'[n] = {} /\ queue'[n] = {p \in PFs : obj[p].exists}
    BY <1>4, CrashStep
  <2>2. \A e : Held1(e)
    BY <2>1 DEF Held
  <2> HIDE DEF True1, Held1
  <2>3. ASSUME NEW p \in PFs PROVE Reported(p)
    BY <2>1, <2>2 DEF EntriesOf
  <2> QED
    BY <1>0, <2>1, <2>3
<1>5. ASSUME NEW q \in PFs, Begin(n, q) PROVE ReadyInv(n)'
  <2>1. /\ obj' = obj /\ work[n] = Idle /\ queue'[n] = queue[n] \ {q}
        /\ \/ work'[n] = Idle /\ (obj[q].exists => obj[q].deleting /\ ~obj[q].finalizer)
           \/ /\ obj[q].exists /\ work'[n] # Idle /\ work'[n].pf = q /\ work'[n].inst = obj[q]
              /\ work'[n].pc \in {"finalizer", "remove"} /\ work'[n].ports = <<>>
    BY <1>5, BeginStep
  <2>2. \A e : (True(n, e) => True1(e)) /\ (Held(n, e) => Held1(e))
    BY <1>2, <1>5, BeginStep DEF Calm
  <2> HIDE DEF True1, Held1
  <2>3. \A p \in PFs : ~Doing(n, p) /\ EntriesOf(n, p)' = EntriesOf(n, p)
    BY <2>1, SameEntries DEF Doing
  <2>4. work'[n] = Idle => EntriesOf(n, q) = {}
    BY <2>1 DEF Guarded, EntriesOf
  <2>5. work'[n] # Idle => Doing(n, q)' /\ Earlier(n)' = EntriesOf(n, q) /\ Range(work'[n].ports) = {}
    BY <2>1 DEF Doing, Earlier, EntriesOf, Range
  <2>6. ASSUME NEW p \in PFs PROVE Reported(p)
    BY <2>1, <2>2, <2>3, <2>4, <2>5 DEF ReadyInv
  <2>7. InWork
    BY <2>1, <2>2, <2>3, <2>5 DEF ReadyInv
  <2> QED
    BY <1>0, <2>6, <2>7
\* The reconcile goes on and leaves the forwarder and the object alone.
<1>6. ASSUME Calm(n), work[n] # Idle, work[n].pc \in Planning, NEW q \in PFs, work[n].pf = q,
             work'[n] # Idle, work'[n].pf = q, work'[n].inst = work[n].inst, queue' = queue,
             \A p \in PFs : EntriesOf(n, p)' = EntriesOf(n, p),
             \A e \in Range(work'[n].ports) : e \in Range(work[n].ports) \/ e.state = "Failed",
             work'[n].pc = "forward" => \A x \in work'[n].todo : x.verb = "keep" => x.entry \in Earlier(n)
      PROVE  ReadyInv(n)'
  <2>1. \A e : (True(n, e) => True1(e)) /\ (Held(n, e) => Held1(e))
    BY <1>2, <1>6 DEF Calm
  <2>2. \A e : e.state = "Failed" => True1(e)
    BY DEF True
  <2> HIDE DEF True1, Held1
  <2>3. Earlier(n)' = Earlier(n) /\ \A p \in PFs : Doing(n, p)' <=> Doing(n, p)
    BY <1>6 DEF Earlier, Doing
  <2>4. ASSUME NEW p \in PFs PROVE Reported(p)
    BY <1>6, <2>1, <2>3 DEF ReadyInv, Planning
  <2>5. InWork
    BY <1>6, <2>1, <2>2, <2>3 DEF ReadyInv
  <2> QED
    BY <1>0, <2>4, <2>5
<1>7. CASE AddFinalizer(n)
  <2>1. /\ Calm(n) /\ queue' = queue /\ work[n] # Idle /\ work[n].pc = "finalizer"
        /\ work'[n] # Idle /\ work'[n].pf = work[n].pf /\ work'[n].inst = work[n].inst
        /\ work'[n].pc = "sync" /\ work'[n].ports = work[n].ports
    BY <1>7, AddFinalizerStep
  <2>2. \A p \in PFs : EntriesOf(n, p)' = EntriesOf(n, p)
    BY <1>7, AddFinalizerStep, Untouched
  <2>3. work[n].pf \in PFs
    BY <2>1, TaskTypes
  <2> QED
    BY <1>6, <2>1, <2>2, <2>3 DEF Planning
<1>8. CASE Sync(n)
  <2> DEFINE s == work[n].inst.status[n]
  <2>1. /\ Calm(n) /\ queue' = queue /\ obj' = obj /\ work[n] # Idle /\ work[n].pc = "sync"
        /\ work'[n] # Idle /\ work'[n].pf = work[n].pf /\ work'[n].inst = work[n].inst
        /\ \A x \in Range(work'[n].ports) : x.state = "Failed"
        /\ \A x \in work'[n].todo : x.verb # "add" => x.entry \in Recorded(s)
        /\ s \in Seq(Entries)
    BY <1>8, SyncStep
  <2>2. Recorded(s) \subseteq Earlier(n)
    BY <2>1, RecordedEntries DEF Earlier
  <2> HIDE DEF s
  <2>3. work[n].pf \in PFs
    BY <2>1, TaskTypes
  <2> QED
    BY <1>6, <2>1, <2>2, <2>3, SameEntries DEF Planning
<1>9. CASE RemovePorts(n)
  <2>1. /\ Calm(n) /\ queue' = queue /\ obj' = obj /\ work[n] # Idle /\ work[n].pc \in {"sync", "remove"}
        /\ \/ work'[n] = Idle /\ Earlier(n) = {}
           \/ /\ work'[n] # Idle /\ work'[n].pf = work[n].pf /\ work'[n].inst = work[n].inst
              /\ work'[n].ports = work[n].ports /\ work'[n].pc \in {"release", "withdraw", "patch", "patch-release"}
    BY <1>9, RemovePortsStep DEF Withdrawn
  <2>2. PICK q \in PFs : q = work[n].pf
    BY <2>1, TaskTypes
  <2>3. CASE work'[n] # Idle
    BY <1>6, <2>1, <2>2, <2>3, SameEntries DEF Planning
  <2>4. CASE work'[n] = Idle
    <3>1. EntriesOf(n, q) = {}
      BY <2>1, <2>2, <2>4 DEF Steady, Doing, Unpatched, Planning
    <3>2. \A e : (True(n, e) => True1(e)) /\ (Held(n, e) => Held1(e))
      BY <1>2, <2>1 DEF Calm
    <3> HIDE DEF True1, Held1
    <3>3. ASSUME NEW p \in PFs PROVE Reported(p)
      <4>1. EntriesOf(n, p)' = EntriesOf(n, p) /\ (Doing(n, p) => p = q)
        BY <2>1, <2>2, SameEntries DEF Doing
      <4> QED
        BY <2>1, <3>1, <3>2, <4>1 DEF ReadyInv
    <3> QED
      BY <1>0, <2>4, <3>3
  <2> QED
    BY <2>3, <2>4
<1>10. CASE Patch(n)
  <2>1. PICK q : q = work[n].pf
    OBVIOUS
  <2>2. /\ Calm(n) /\ work[n] # Idle /\ q \in PFs
        /\ \/ /\ obj'[q].exists /\ obj'[q].status[n] = work[n].ports /\ queue' = queue
              /\ \A o \in PFs : o # q => obj'[o] = obj[o]
              /\ \/ work'[n] = Idle
                 \/ work'[n].pc = "release" /\ work'[n].pf = q /\ work'[n].ports = work[n].ports
           \/ /\ ~cache[n][q].exists /\ obj' = obj /\ work'[n] = Idle /\ queue'[n] = queue[n] \cup {q}
    BY <1>10, <2>1, PatchStep
  <2>3. \A e : (True(n, e) => True1(e)) /\ (Held(n, e) => Held1(e))
    BY <1>2, <2>2 DEF Calm
  <2>4. Doing(n, q) /\ \A p \in PFs : Doing(n, p) => p = q
    BY <2>1, <2>2 DEF Doing
  <2> HIDE DEF True1, Held1
  <2>5. \A p \in PFs : p # q => EntriesOf(n, p)' = EntriesOf(n, p)
    BY <2>2 DEF EntriesOf
  <2>6. ASSUME NEW p \in PFs, p # q PROVE Reported(p)
    BY <2>2, <2>3, <2>4, <2>5, <2>6 DEF ReadyInv
  <2>7. Reported(q)
    <3>1. CASE obj'[q].exists /\ obj'[q].status[n] = work[n].ports
      <4>1. EntriesOf(n, q)' = Range(work[n].ports)
        BY <3>1 DEF EntriesOf
      <4> QED
        BY <1>1, <2>2, <2>3, <4>1 DEF ReadyInv
    <3>2. CASE ~cache[n][q].exists /\ obj' = obj
      <4>1. EntriesOf(n, q)' = EntriesOf(n, q)
        BY <3>2, SameEntries
      <4>2. EntriesOf(n, q) = {}
        BY <2>2, <2>4, <3>2 DEF Steady
      <4> QED
        BY <4>1, <4>2
    <3> QED
      BY <2>2, <3>1, <3>2
  <2>8. InWork
    BY <2>2, <2>3 DEF ReadyInv, Planning
  <2> QED
    BY <1>0, <2>6, <2>7, <2>8
<1>11. CASE Release(n)
  <2>1. PICK q \in PFs : q = work[n].pf
    BY <1>11, ReleaseStep, TaskTypes
  <2>2. /\ Calm(n) /\ work[n] # Idle /\ work[n].pc = "release" /\ work'[n] = Idle /\ queue[n] \subseteq queue'[n]
        /\ \/ obj' = obj
           \/ obj'[q] = Absent /\ \A o \in PFs : o # q => obj'[o] = obj[o]
    BY <1>11, <2>1, ReleaseStep
  <2>3. \A e : (True(n, e) => True1(e)) /\ (Held(n, e) => Held1(e))
    BY <1>2, <2>2 DEF Calm
  <2>4. EntriesOf(n, q) = {} /\ \A p \in PFs : Doing(n, p) => p = q
    BY <2>1, <2>2 DEF Doing, Steady
  <2> HIDE DEF True1, Held1
  <2>5. \A p \in PFs : EntriesOf(n, p)' \subseteq EntriesOf(n, p)
    BY <2>2 DEF EntriesOf, Absent
  <2>6. ASSUME NEW p \in PFs PROVE Reported(p)
    BY <2>2, <2>3, <2>4, <2>5 DEF ReadyInv
  <2> QED
    BY <1>0, <2>2, <2>6
<1> QED
  BY <1>3, <1>4, <1>5, <1>7, <1>8, <1>9, <1>10, <1>11, ReadyForward, ReadyWithdraw, NodeStep DEF Reconcile

LEMMA ReadyInit == Init => \A n \in Nodes : ReadyInv(n)
<1> SUFFICES ASSUME Init, NEW n \in Nodes PROVE ReadyInv(n)
  OBVIOUS
<1>1. work[n] = Idle /\ \A p \in PFs : EntriesOf(n, p) = {}
  BY DEF Init, EntriesOf, Absent
<1> QED
  BY <1>1 DEF ReadyInv

(* What a settled node reports as Ready is redirected at every hook, for   *)
(* any number of nodes and objects, with either backend, and for any       *)
(* restarts, edits and failing calls, half done or not, when reconciles    *)
(* start from an up-to-date cache: the first Add of a process wipes the    *)
(* table only while the guard has no key, so that the sync of an unchanged *)
(* entry adds it anew; a later Add takes no redirect away; and a removal   *)
(* that failed half way leaves its mark on the port (torn).                *)
THEOREM ReadyRedirects == ~CacheLag => (Spec => []ReadyIsActive)
<1> SUFFICES ASSUME ~CacheLag PROVE Spec => []ReadyIsActive
  OBVIOUS
<1> DEFINE Inv == Base /\ \A n \in Nodes : ReadyInv(n)
<1>1. Init => Inv
  BY BaseInit, ReadyInit
<1>2. Inv /\ [Next]_vars => Inv'
  BY BaseNext, ReadyNext
<1>3. Inv => ReadyIsActive
  <2> SUFFICES ASSUME Inv, NEW n \in Nodes, NEW p \in PFs, Settled(n, p), NEW e \in EntriesOf(n, p),
                      e.state = "Ready", e.port \notin contested \cup torn[n]
               PROVE  Redirects(e.port, e.target) \subseteq active[n]
    BY DEF ReadyIsActive
  <2>1. True(n, e)
    BY DEF Settled, ReadyInv, Doing
  <2> QED
    BY <2>1 DEF True, Doubted
<1> HIDE DEF Inv
<1> QED
  BY <1>1, <1>2, <1>3, PTL DEF Spec

-----------------------------------------------------------------------------
(* What is redirected is recorded.                                         *)

LEMMA RecordForward ==
  ASSUME Base, NEW n \in Nodes, RecordInv(n), Forward(n)
  PROVE  RecordInv(n)'
<1> TypeOK
  BY DEF Base
<1>1. work[n] # Idle /\ work[n].pc = "forward" /\ obj' = obj /\ unguarded' = unguarded /\ lost' = lost
  BY NotIdle DEF Forward, At_, api
<1> SUFFICES ASSUME NothingLost PROVE RecordInv(n)'
  BY <1>1 DEF RecordInv, NothingLost
<1>2. PICK o \in work[n].todo :
        /\ Takes(n, o) /\ Served(n, o)
        /\ work'[n].pc = IF work'[n].todo = {} THEN "patch" ELSE "forward"
  BY Turned
<1> DEFINE q == o.entry.port
           t == o.entry.target
           f == Forwarder(n)
           g == Forwarder(n)'
           Known(r) == \E y \in PFs : \E d \in Account(n, y)' : d.port = r[1] /\ d.target = r[2]
<1>3. PICK p \in PFs : p = work[n].pf
  BY <1>1, TaskTypes
<1>4. Standing(f) = active[n] \ stray[n] /\ Standing(g) = active'[n] \ stray'[n] /\ Standing(f) \subseteq Rules
  BY DEF Forwarder, Standing, TypeOK, Rules
<1>5. work'[n] # Idle /\ work'[n].pf = p /\ work'[n].inst = work[n].inst /\ work'[n].todo = work[n].todo \ {o}
  BY <1>2, <1>3 DEF Takes, Tasks, Idle
<1>6. Range(work[n].ports) \subseteq Range(work'[n].ports)
  BY <1>2 DEF Served, Lists
<1>7. \A z \in PFs : /\ EntriesOf(n, z)' = EntriesOf(n, z)
                     /\ Doing(n, z) <=> z = p
                     /\ Doing(n, z)' <=> z = p
  BY <1>1, <1>3, <1>5, SameEntries DEF Doing
<1>8. \A z \in PFs : z # p => Account(n, z) = EntriesOf(n, z) /\ Account(n, z)' = EntriesOf(n, z)
  BY <1>7 DEF Account
<1>9. Account(n, p) = Range(work[n].ports) \cup {x.entry : x \in {y \in work[n].todo : y.verb # "add"}}
  BY <1>1, <1>7 DEF Account, Planning
<1>10. Account(n, p)' = Range(work'[n].ports) \cup {x.entry : x \in {y \in work'[n].todo : y.verb # "add"}}
  BY <1>2, <1>7 DEF Account, Planning
\* The list has an entry for what the call may leave in force.
<1>11. \/ /\ \E d \in Range(work'[n].ports) : d.port = q /\ d.target = t
          /\ Standing(g) \subseteq Standing(f) \cup Redirects(q, t)
       \/ Standing(g) \subseteq Standing(f) \ Redirects(q, t)
  BY <1>2 DEF Served, Lists, Gains, Tries, Adds, Tears, Drops, Loses
<1> HIDE DEF f, g
\* What had an entry has it still, unless it goes.
<1>12. ASSUME NEW r \in Standing(g), r \in Standing(f), NEW z \in PFs, NEW e \in Account(n, z),
              e.port = r[1], e.target = r[2]
       PROVE  Known(r)
  <2>1. CASE z # p
    BY <1>8, <1>12, <2>1
  <2>2. CASE z = p /\ e \in Range(work[n].ports)
    BY <1>6, <1>10, <1>12, <2>2
  <2>3. CASE z = p /\ e \notin Range(work[n].ports)
    <3>1. PICK x \in work[n].todo : x.verb # "add" /\ e = x.entry
      BY <1>9, <1>12, <2>3
    <3>2. CASE x # o
      BY <1>5, <1>10, <1>12, <2>3, <3>1, <3>2
    <3>3. CASE x = o
      <4>1. r \in Redirects(q, t)
        BY <1>4, <1>12, <3>1, <3>3, RuleParts
      <4>2. \E d \in Range(work'[n].ports) : d.port = q /\ d.target = t
        BY <1>11, <1>12, <4>1
      <4> QED
        BY <1>10, <1>12, <3>1, <3>3, <4>2
    <3> QED
      BY <3>2, <3>3
  <2> QED
    BY <2>1, <2>2, <2>3
<1>13. ASSUME NEW r \in Standing(g) PROVE Known(r)
  <2>1. CASE r \in Standing(f)
    <3>1. PICK z \in PFs : \E e \in Account(n, z) : e.port = r[1] /\ e.target = r[2]
      BY <1>4, <2>1 DEF RecordInv, Accounted
    <3> QED
      BY <1>12, <2>1, <3>1
  <2>2. CASE r \notin Standing(f)
    <3>1. r \in Redirects(q, t) /\ \E d \in Range(work'[n].ports) : d.port = q /\ d.target = t
      BY <1>11, <1>13, <2>2
    <3>2. r[1] = q /\ r[2] = t
      BY <3>1, RuleParts
    <3> QED
      BY <1>10, <3>1, <3>2
  <2> QED
    BY <2>1, <2>2
<1>14. Accounted(n)'
  BY <1>4, <1>13 DEF Accounted
<1>15. Earlier(n)' = Earlier(n)
  BY <1>5 DEF Earlier
<1>16. \A z \in PFs : obj'[z].exists => Recorded(obj'[z].status[n]) = Range(obj'[z].status[n])
  BY <1>1 DEF RecordInv
<1>17. \A z \in PFs : Doing(n, z)' => EntriesOf(n, z)' = Earlier(n)' /\ Recorded(work'[n].inst.status[n]) = Earlier(n)'
  BY <1>1, <1>5, <1>7, <1>15 DEF RecordInv, Unpatched
<1> QED
  BY <1>14, <1>16, <1>17 DEF RecordInv

LEMMA RecordWithdraw ==
  ASSUME Base, NEW n \in Nodes, RecordInv(n), Withdraw(n)
  PROVE  RecordInv(n)'
<1> TypeOK /\ Staged(n)
  BY DEF Base
<1>1. work[n] # Idle /\ work[n].pc = "withdraw" /\ obj' = obj /\ unguarded' = unguarded /\ lost' = lost
  BY NotIdle DEF Withdraw, At_, api, history
<1> SUFFICES ASSUME NothingLost PROVE RecordInv(n)'
  BY <1>1 DEF RecordInv, NothingLost
<1>2. PICK p \in PFs : p = work[n].pf
  BY <1>1, TaskTypes
<1> DEFINE f == Forwarder(n)
           g == Forwarder(n)'
<1>3. Standing(f) = active[n] \ stray[n] /\ Standing(g) = active'[n] \ stray'[n] /\ Standing(f) \subseteq Rules
  BY DEF Forwarder, Standing, TypeOK, Rules
<1>4. \A z \in PFs : EntriesOf(n, z)' = EntriesOf(n, z) /\ (Doing(n, z) <=> z = p)
  BY <1>1, <1>2, SameEntries DEF Doing
<1>5. Account(n, p) = {x.entry : x \in work[n].todo} /\ \A z \in PFs : z # p => Account(n, z) = EntriesOf(n, z)
  BY <1>1, <1>4 DEF Account, Planning
<1>6. EntriesOf(n, p) = Earlier(n) /\ Recorded(work[n].inst.status[n]) = Earlier(n)
  BY <1>1, <1>4 DEF RecordInv, Unpatched
<1>7. \A x \in work[n].todo : x.entry \in Earlier(n)
  BY <1>1 DEF Staged
<1>8. \A z \in PFs : obj'[z].exists => Recorded(obj'[z].status[n]) = Range(obj'[z].status[n])
  BY <1>1 DEF RecordInv
<1>9. \A r \in Standing(f) : \E z \in PFs : \E e \in Account(n, z) : e.port = r[1] /\ e.target = r[2]
  BY <1>3 DEF RecordInv, Accounted
<1>10. CASE GivenUp(n)
  <2>1. Standing(g) \subseteq Standing(f) /\ work'[n] = Idle
    BY <1>10 DEF GivenUp, Tears
  <2>2. \A z \in PFs : ~Doing(n, z)' /\ Account(n, z)' = EntriesOf(n, z)
    BY <1>4, <2>1 DEF Doing, Account
  <2>3. \A z \in PFs : Account(n, z) \subseteq Account(n, z)'
    BY <1>5, <1>6, <1>7, <2>2
  <2> HIDE DEF f, g
  <2>4. Accounted(n)'
    BY <1>3, <1>9, <2>1, <2>3 DEF Accounted
  <2> QED
    BY <1>8, <2>2, <2>4 DEF RecordInv
<1>11. ASSUME NEW o \in work[n].todo, Revoked(n, o) PROVE RecordInv(n)'
  <2>1. /\ work'[n] # Idle /\ work'[n].pf = p /\ work'[n].inst = work[n].inst
        /\ work'[n].todo = work[n].todo \ {o}
        /\ work'[n].todo # {} => work'[n].pc = "withdraw"
        /\ work'[n].pc \in {"withdraw", "patch", "patch-release"}
    BY <1>2, <1>11 DEF Revoked, Takes, Withdrawn, Tasks, Idle
  <2>2. Standing(g) \subseteq Standing(f) \ Redirects(o.entry.port, o.entry.target)
    BY <1>11 DEF Revoked, Drops, Loses
  <2>3. \A z \in PFs : /\ Doing(n, z)' <=> z = p
                       /\ z # p => Account(n, z)' = EntriesOf(n, z)
    BY <1>4, <2>1 DEF Doing, Account
  <2>4. work'[n].todo # {} => Account(n, p)' = {x.entry : x \in work'[n].todo}
    BY <2>1, <2>3 DEF Account, Planning
  <2> HIDE DEF f, g
  <2>5. ASSUME NEW r \in Standing(g)
        PROVE  \E z \in PFs : \E e \in Account(n, z)' : e.port = r[1] /\ e.target = r[2]
    <3>1. r \in Standing(f) /\ r \notin Redirects(o.entry.port, o.entry.target)
      BY <2>2
    <3>2. PICK z \in PFs : \E e \in Account(n, z) : e.port = r[1] /\ e.target = r[2]
      BY <1>9, <3>1
    <3>3. PICK e \in Account(n, z) : e.port = r[1] /\ e.target = r[2]
      BY <3>2
    <3>4. e # o.entry
      BY <1>3, <3>1, <3>3, RuleParts
    <3>5. CASE z # p
      BY <1>5, <2>3, <3>3, <3>5
    <3>6. CASE z = p
      <4>1. PICK x \in work[n].todo : e = x.entry
        BY <1>5, <3>6
      <4>2. x \in work'[n].todo
        BY <2>1, <3>4, <4>1
      <4> QED
        BY <2>4, <3>3, <4>1, <4>2
    <3> QED
      BY <3>5, <3>6
  <2>6. Accounted(n)'
    BY <1>3, <2>5 DEF Accounted
  <2>7. Earlier(n)' = Earlier(n)
    BY <2>1 DEF Earlier
  <2> QED
    BY <1>4, <1>6, <1>8, <2>1, <2>3, <2>6, <2>7 DEF RecordInv
<1> QED
  BY <1>10, <1>11, Withdrew

\* But between a sync and its patch the status itself accounts for everything.
LEMMA NothingPending ==
  ASSUME TypeOK, NEW n \in Nodes, Staged(n), RecordInv(n), NothingLost,
         ~At_(n, "forward"), ~At_(n, "patch"), NEW p \in PFs
  PROVE  Account(n, p) \subseteq EntriesOf(n, p)
<1>1. CASE ~Doing(n, p) \/ work[n].pc \in Planning \cup {"release"}
  BY <1>1 DEF Account
<1>2. CASE Doing(n, p) /\ work[n].pc = "withdraw"
  <2>1. work[n] # Idle /\ EntriesOf(n, p) = Earlier(n) /\ \A x \in work[n].todo : x.entry \in Earlier(n)
    BY <1>2 DEF RecordInv, Unpatched, Staged, Doing
  <2> QED
    BY <1>2, <2>1 DEF Account, Planning
<1>3. CASE Doing(n, p) /\ work[n].pc = "patch-release"
  <2>1. work[n].ports = <<>>
    BY <1>3 DEF Staged, Doing
  <2> QED
    BY <1>3, <2>1 DEF Account, Planning, Range
<1>4. Doing(n, p) => work[n].pc \in Planning \cup {"release", "withdraw", "patch-release"}
  BY TaskTypes DEF Doing, At_, Planning
<1> QED
  BY <1>1, <1>2, <1>3, <1>4

LEMMA RecordNext ==
  ASSUME Base, ~CacheLag, [Next]_vars, NEW n \in Nodes, RecordInv(n)
  PROVE  RecordInv(n)'
<1> TypeOK /\ Staged(n) /\ Steady(n)
  BY DEF Base
<1> SUFFICES ASSUME NothingLost' PROVE RecordInv(n)'
  BY DEF RecordInv
\* The forwarder stays, and so do the entries that account for it.
<1>1. ASSUME active'[n] \ stray'[n] \subseteq active[n] \ stray[n], Accounted(n),
             \A p \in PFs : \A e \in Account(n, p) : e.port \in Ports => e \in Account(n, p)'
      PROVE  Accounted(n)'
  <2>1. \A r \in active[n] : r[1] \in Ports
    BY DEF TypeOK
  <2> QED
    BY <1>1, <2>1 DEF Accounted
<1>2. CASE Elsewhere(n)
  <2>1. NothingLost
    BY <1>2 DEF Elsewhere, NothingLost
  <2>2. Accounted(n) /\ \A p \in PFs : EntriesOf(n, p)' = EntriesOf(n, p)
    BY <1>2, <2>1, ElsewhereEntries DEF RecordInv
  <2>3. work'[n] = work[n]
    BY <1>2 DEF Elsewhere
  <2>4. Accounted(n)'
    <3>1. \A p \in PFs : Account(n, p)' = Account(n, p)
      BY <2>2, <2>3 DEF Account, Doing
    <3> QED
      BY <1>1, <1>2, <2>2, <3>1 DEF Elsewhere
  <2>5. ASSUME NEW p \in PFs, obj'[p].exists PROVE Recorded(obj'[p].status[n]) = Range(obj'[p].status[n])
    <3>1. CASE obj'[p].exists = obj[p].exists /\ (obj[p].exists => obj'[p].status[n] = obj[p].status[n])
      BY <2>1, <2>5, <3>1 DEF RecordInv
    <3>2. CASE obj'[p].status[n] = <<>>
      BY <3>2 DEF Recorded, Range
    <3> QED
      BY <1>2, <2>5, <3>1, <3>2 DEF Elsewhere
  <2>6. Earlier(n)' = Earlier(n)
    BY <2>3 DEF Earlier
  <2> QED
    BY <2>1, <2>2, <2>3, <2>4, <2>5, <2>6 DEF RecordInv, Doing
\* Between a sync and its patch a crash loses what the sync did.
<1>3. CASE Crash(n)
  <2>1. /\ work'[n] = Idle /\ obj' = obj /\ NothingLost
        /\ active'[n] \ stray'[n] \subseteq active[n] \ stray[n]
    BY <1>3, CrashStep DEF Forgotten, NothingLost, Standing, Forwarder
  <2>2. work[n] # Idle => ~At_(n, "forward") /\ ~At_(n, "patch")
    <3>1. work[n] # Idle => work[n].pf \in PFs
      BY TaskTypes
    <3> QED
      BY <1>3, <2>1, <3>1, CrashStep DEF Forgotten, NothingLost, At_
  <2>3. ASSUME NEW p \in PFs PROVE Account(n, p) \subseteq Account(n, p)'
    <3>1. Account(n, p)' = EntriesOf(n, p)
      BY <2>1, SameEntries DEF Account, Doing
    <3>2. CASE work[n] = Idle
      BY <3>1, <3>2 DEF Account, Doing
    <3>3. CASE work[n] # Idle
      BY <2>1, <2>2, <3>1, <3>3, NothingPending
    <3> QED
      BY <3>2, <3>3
  <2>4. Accounted(n)'
    BY <1>1, <2>1, <2>3 DEF RecordInv
  <2> QED
    BY <2>1, <2>4 DEF RecordInv, Doing
<1>4. ASSUME NEW q \in PFs, Begin(n, q) PROVE RecordInv(n)'
  <2>1. /\ obj' = obj /\ work[n] = Idle /\ Calm(n) /\ NothingLost
        /\ \/ work'[n] = Idle
           \/ /\ obj[q].exists /\ work'[n] # Idle /\ work'[n].pf = q /\ work'[n].inst = obj[q]
              /\ work'[n].pc \in {"finalizer", "remove"}
    BY <1>4, BeginStep DEF NothingLost, Calm
  <2>2. \A p \in PFs : ~Doing(n, p) /\ EntriesOf(n, p)' = EntriesOf(n, p)
    BY <2>1, SameEntries DEF Doing
  <2>3. \A p \in PFs : Account(n, p)' = EntriesOf(n, p) /\ Account(n, p) = EntriesOf(n, p)
    BY <2>1, <2>2 DEF Account, Planning, Doing
  <2>4. Accounted(n)'
    BY <1>1, <2>1, <2>3 DEF RecordInv, Calm
  <2>5. ASSUME NEW p \in PFs, Doing(n, p)'
        PROVE  EntriesOf(n, p)' = Earlier(n)' /\ Recorded(work'[n].inst.status[n]) = Earlier(n)'
    <3>1. p = q /\ obj[q].exists /\ work'[n].inst = obj[q]
      BY <2>1, <2>5 DEF Doing
    <3> QED
      BY <2>1, <2>2, <3>1 DEF EntriesOf, Earlier, RecordInv
  <2> QED
    BY <2>1, <2>4, <2>5 DEF RecordInv
\* The reconcile goes on and leaves the object alone.
<1>5. ASSUME Calm(n), lost' = lost, work[n] # Idle, work[n].pc \in Planning, NEW q \in PFs, work[n].pf = q,
             work'[n] = Idle \/ (work'[n].pf = q /\ work'[n].inst = work[n].inst),
             \A p \in PFs : /\ EntriesOf(n, p)' = EntriesOf(n, p) /\ obj'[p].exists = obj[p].exists
                            /\ obj[p].exists => obj'[p].status[n] = obj[p].status[n],
             EntriesOf(n, q) = Earlier(n) /\ Recorded(work[n].inst.status[n]) = Earlier(n)
               => \A e \in Earlier(n) : e.port \in Ports => e \in Account(n, q)'
      PROVE  RecordInv(n)'
  <2>1. NothingLost
    BY <1>5 DEF NothingLost, Calm
  <2>2. \A p \in PFs : Doing(n, p) <=> p = q
    BY <1>5 DEF Doing
  <2>3. EntriesOf(n, q) = Earlier(n) /\ Recorded(work[n].inst.status[n]) = Earlier(n)
    BY <1>5, <2>1, <2>2 DEF RecordInv, Unpatched
  <2>4. Account(n, q) = EntriesOf(n, q)
    BY <1>5, <2>2 DEF Account
  <2>5. \A p \in PFs : p # q => Account(n, p) = EntriesOf(n, p) /\ Account(n, p)' = EntriesOf(n, p)
    BY <1>5 DEF Account, Doing
  <2>6. Accounted(n)'
    BY <1>1, <1>5, <2>1, <2>3, <2>4, <2>5 DEF RecordInv, Calm
  <2>7. ASSUME NEW p \in PFs, Doing(n, p)'
        PROVE  EntriesOf(n, p)' = Earlier(n)' /\ Recorded(work'[n].inst.status[n]) = Earlier(n)'
    <3>1. p = q /\ work'[n].inst = work[n].inst
      BY <1>5, <2>7 DEF Doing
    <3> QED
      BY <1>5, <2>3, <3>1 DEF Earlier
  <2> QED
    BY <1>5, <2>1, <2>6, <2>7 DEF RecordInv
<1>6. CASE AddFinalizer(n)
  <2>1. /\ Calm(n) /\ lost' = lost /\ work[n] # Idle /\ work[n].pc = "finalizer"
        /\ work'[n] # Idle /\ work'[n].pf = work[n].pf /\ work'[n].inst = work[n].inst
        /\ work'[n].pc = "sync"
        /\ \A p \in PFs : /\ obj'[p].exists = obj[p].exists
                          /\ obj[p].exists => obj'[p].status[n] = obj[p].status[n]
    BY <1>6, AddFinalizerStep
  <2>2. \A p \in PFs : EntriesOf(n, p)' = EntriesOf(n, p)
    BY <2>1, Untouched
  <2>3. PICK q \in PFs : q = work[n].pf
    BY <2>1, TaskTypes
  <2>4. Account(n, q)' = EntriesOf(n, q)
    BY <2>1, <2>2 DEF Account, Planning
  <2> QED
    BY <1>5, <2>1, <2>2, <2>3, <2>4 DEF Planning
<1>7. CASE Sync(n)
  <2> DEFINE s == work[n].inst.status[n]
  <2>1. /\ Calm(n) /\ lost' = lost /\ obj' = obj /\ work[n] # Idle /\ work[n].pc = "sync"
        /\ work'[n] # Idle /\ work'[n].pf = work[n].pf /\ work'[n].inst = work[n].inst
        /\ work'[n].pc = IF work'[n].todo = {} THEN "patch" ELSE "forward"
        /\ \A e \in Recorded(s) : \E x \in work'[n].todo : x.verb # "add" /\ x.entry = e
    BY <1>7, SyncStep
  <2> HIDE DEF s
  <2>2. PICK q \in PFs : q = work[n].pf
    BY <2>1, TaskTypes
  <2>3. Recorded(s) \subseteq Account(n, q)'
    <3>1. Doing(n, q)'
      BY <2>1, <2>2 DEF Doing
    <3>2. CASE work'[n].todo = {}
      BY <2>1, <3>2
    <3>3. CASE work'[n].todo # {}
      BY <2>1, <3>1, <3>3 DEF Account, Planning
    <3> QED
      BY <3>2, <3>3
  <2> QED
    BY <1>5, <2>1, <2>2, <2>3, SameEntries DEF Planning, s
<1>8. CASE RemovePorts(n)
  <2>1. /\ Calm(n) /\ lost' = lost /\ obj' = obj /\ work[n] # Idle /\ work[n].pc \in {"sync", "remove"}
        /\ \/ work'[n] = Idle /\ Earlier(n) = {}
           \/ /\ work'[n] # Idle /\ work'[n].pf = work[n].pf /\ work'[n].inst = work[n].inst
              /\ \/ work'[n].pc = "release" /\ Earlier(n) = {}
                 \/ /\ work'[n].pc = IF work'[n].todo = {} THEN Withdrawn(work[n].inst.deleting) ELSE "withdraw"
                    /\ \A e \in Earlier(n) : e.port # NamedPort => \E x \in work'[n].todo : x.entry = e
    BY <1>8, RemovePortsStep
  <2>2. PICK q \in PFs : q = work[n].pf
    BY <2>1, TaskTypes
  <2>3. \A e \in Earlier(n) : e.port \in Ports => e \in Account(n, q)'
    <3>1. CASE Earlier(n) = {} \/ work'[n].todo = {}
      BY <2>1, <3>1, PortsHaveNumbers
    <3>2. CASE Earlier(n) # {} /\ work'[n].todo # {}
      <4>1. work'[n].pc = "withdraw" /\ Doing(n, q)'
        BY <2>1, <2>2, <3>2 DEF Doing
      <4> QED
        BY <2>1, <3>2, <4>1, PortsHaveNumbers DEF Account, Planning
    <3> QED
      BY <3>1, <3>2
  <2> QED
    BY <1>5, <2>1, <2>2, <2>3, SameEntries DEF Planning
<1>9. CASE Patch(n)
  <2>1. PICK q : q = work[n].pf
    OBVIOUS
  <2>2. /\ Calm(n) /\ work[n] # Idle /\ q \in PFs /\ work[n].pc \in {"patch", "patch-release"}
        /\ \/ /\ obj[q].exists /\ obj'[q].exists /\ obj'[q].status[n] = work[n].ports
              /\ \A o \in PFs : o # q => obj'[o] = obj[o]
              /\ Recording(n, q)
              /\ \/ work'[n] = Idle
                 \/ work'[n].pc = "release" /\ work'[n].pf = q
           \/ ~cache[n][q].exists /\ obj' = obj /\ work'[n] = Idle /\ Forgotten(n)
    BY <1>9, <2>1, PatchStep
  <2>3. NothingLost /\ Doing(n, q) /\ (\A p \in PFs : Doing(n, p) => p = q) /\ \A p \in PFs : Doing(n, p)' => p = q
    BY <2>1, <2>2 DEF Doing, Calm, NothingLost, Recording, Forgotten
  <2>4. \A p \in PFs : p # q => EntriesOf(n, p)' = EntriesOf(n, p)
    BY <2>2 DEF EntriesOf
  <2>5. Account(n, q) = Range(work[n].ports)
    BY <2>2, <2>3 DEF Account, Planning
  <2>6. \A p \in PFs : Account(n, p)' = EntriesOf(n, p)'
    BY <2>2 DEF Account, Doing
  <2>7. \A p \in PFs : p # q => Account(n, p) = EntriesOf(n, p)
    BY <2>3 DEF Account
  <2>8. ~(Doing(n, q)' /\ work'[n].pc \in Unpatched)
    BY <2>2 DEF Doing, Unpatched, Planning
  <2>9. CASE obj'[q].exists /\ obj'[q].status[n] = work[n].ports /\ Recording(n, q) /\ \A o \in PFs : o # q => obj'[o] = obj[o]
    <3>1. EntriesOf(n, q)' = Range(work[n].ports)
      BY <2>9 DEF EntriesOf
    <3>2. Recorded(work[n].ports) = Range(work[n].ports)
      BY <2>2, <2>9 DEF Recording, NothingLost
    <3>3. Accounted(n)'
      BY <1>1, <2>2, <2>3, <2>4, <2>5, <2>6, <2>7, <3>1 DEF RecordInv, Calm
    <3>4. \A p \in PFs : obj'[p].exists => Recorded(obj'[p].status[n]) = Range(obj'[p].status[n])
      BY <2>3, <2>9, <3>2 DEF RecordInv
    <3> QED
      BY <2>3, <2>8, <3>3, <3>4 DEF RecordInv
  <2>10. CASE obj' = obj /\ Forgotten(n)
    <3>1. work[n].pc = "patch-release"
      BY <2>1, <2>2, <2>10 DEF Forgotten, NothingLost
    <3>2. Range(work[n].ports) = {}
      BY <2>2, <3>1 DEF Staged, Range
    <3>3. Accounted(n)'
      BY <1>1, <2>2, <2>3, <2>4, <2>5, <2>6, <2>7, <3>2 DEF RecordInv, Calm
    <3> QED
      BY <2>3, <2>8, <2>10, <3>3 DEF RecordInv
  <2> QED
    BY <2>2, <2>9, <2>10
<1>10. CASE Release(n)
  <2>1. PICK q \in PFs : q = work[n].pf
    BY <1>10, ReleaseStep, TaskTypes
  <2>2. /\ Calm(n) /\ work[n] # Idle /\ work[n].pc = "release" /\ work'[n] = Idle /\ lost \subseteq lost'
        /\ \/ obj' = obj
           \/ /\ obj'[q] = Absent /\ \A o \in PFs : o # q => obj'[o] = obj[o]
              /\ NodesCleared(obj[q])
    BY <1>10, <2>1, ReleaseStep
  <2>3. NothingLost /\ \A p \in PFs : ~Doing(n, p)'
    BY <2>2 DEF Doing, Calm, NothingLost
  <2>4. \A p \in PFs : Account(n, p) = EntriesOf(n, p) /\ Account(n, p)' = EntriesOf(n, p)'
    BY <2>2, <2>3 DEF Account
  <2>5. NodesCleared(obj[q]) => EntriesOf(n, q) = {}
    BY DEF NodesCleared, EntriesOf, Range
  <2>6. \A p \in PFs : EntriesOf(n, p) \subseteq EntriesOf(n, p)'
    BY <2>2, <2>5 DEF EntriesOf
  <2>7. Accounted(n)'
    BY <1>1, <2>2, <2>3, <2>4, <2>6 DEF RecordInv, Calm
  <2>8. \A p \in PFs : obj'[p].exists => Recorded(obj'[p].status[n]) = Range(obj'[p].status[n])
    BY <2>2, <2>3 DEF RecordInv, Absent
  <2> QED
    BY <2>3, <2>7, <2>8 DEF RecordInv
<1> QED
  BY <1>2, <1>3, <1>4, <1>6, <1>7, <1>8, <1>9, <1>10, RecordForward, RecordWithdraw, NodeStep DEF Reconcile

LEMMA RecordInit == Init => \A n \in Nodes : RecordInv(n)
<1> SUFFICES ASSUME Init, NEW n \in Nodes PROVE RecordInv(n)
  OBVIOUS
<1>1. work[n] = Idle /\ active[n] = {} /\ \A p \in PFs : ~obj[p].exists
  BY DEF Init, Absent
<1> QED
  BY <1>1 DEF RecordInv, Accounted, Doing

LEMMA RecordHolds ==
  ASSUME ~CacheLag
  PROVE  Spec => [](TypeOK /\ \A n \in Nodes : RecordInv(n))
<1> DEFINE Inv == Base /\ \A n \in Nodes : RecordInv(n)
<1>1. Init => Inv
  BY BaseInit, RecordInit
<1>2. Inv /\ [Next]_vars => Inv'
  BY BaseNext, RecordNext
<1>3. Inv => TypeOK /\ \A n \in Nodes : RecordInv(n)
  BY DEF Base
<1> HIDE DEF Inv
<1> QED
  BY <1>1, <1>2, <1>3, PTL DEF Spec

(* Every redirect of a settled node has an entry in a status, so that the  *)
(* controller can still remove it, with either backend and for any         *)
(* restarts, edits and failing calls: every call of a sync leaves the      *)
(* entries of its list and of the ports to come that account for what it   *)
(* may have put in force, also by a call that failed half way, and an entry*)
(* goes only with its redirects, or with the answer that the port is not   *)
(* forwarded, which makes them stray.                                      *)
THEOREM RedirectsAreRecorded == ~CacheLag => (Spec => []ActiveIsRecorded)
<1> SUFFICES ASSUME ~CacheLag PROVE Spec => []ActiveIsRecorded
  OBVIOUS
<1>1. TypeOK /\ (\A n \in Nodes : RecordInv(n)) => ActiveIsRecorded
  <2> SUFFICES ASSUME TypeOK, NEW n \in Nodes, RecordInv(n),
                      \A p \in PFs : Settled(n, p) /\ p \notin unguarded \cup lost,
                      NEW r \in active[n] \ stray[n]
               PROVE  \E p \in PFs : \E e \in EntriesOf(n, p) : e.port = r[1] /\ e.target = r[2]
    BY DEF ActiveIsRecorded
  <2>1. NothingLost
    BY DEF NothingLost, TypeOK
  <2>2. PICK p \in PFs : \E e \in Account(n, p) : e.port = r[1] /\ e.target = r[2]
    BY <2>1 DEF RecordInv, Accounted
  <2>3. Account(n, p) = EntriesOf(n, p)
    BY DEF Account, Doing, Settled
  <2> QED
    BY <2>2, <2>3
<1> QED
  BY <1>1, RecordHolds, PTL

(* When the objects are gone and each left through its finalizer, a settled*)
(* node redirects nothing but what is stray, under the same conditions: no *)
(* entry is left that could account for another redirect.                  *)
THEOREM GuardedDeleteIsClean == ~CacheLag => (Spec => []CleanAfterGuardedDelete)
<1> SUFFICES ASSUME ~CacheLag PROVE Spec => []CleanAfterGuardedDelete
  OBVIOUS
<1>1. TypeOK /\ (\A n \in Nodes : RecordInv(n)) => CleanAfterGuardedDelete
  <2> SUFFICES ASSUME NothingLost, \A p \in PFs : obj[p] = Absent, NEW n \in Nodes, RecordInv(n),
                      \A p \in PFs : Settled(n, p), NEW r \in active[n] \ stray[n]
               PROVE  FALSE
    BY DEF CleanAfterGuardedDelete, NothingLost
  <2>1. PICK p \in PFs : \E e \in Account(n, p) : e.port = r[1] /\ e.target = r[2]
    BY DEF RecordInv, Accounted
  <2>2. Account(n, p) = {}
    BY DEF Account, Doing, Settled, EntriesOf, Absent
  <2> QED
    BY <2>1, <2>2
<1> QED
  BY <1>1, RecordHolds, PTL

(* When an object is released, a node without entries in it has kept no    *)
(* redirect of it but stray ones, under the same conditions, for any number*)
(* of objects and of nodes: removePortForwarding goes to the release only  *)
(* with nothing left to withdraw.                                          *)
THEOREM ReleaseIsClean == ~CacheLag => (Spec => ReleasedNodesAreClean)
<1> SUFFICES ASSUME ~CacheLag PROVE Spec => ReleasedNodesAreClean
  OBVIOUS
<1> DEFINE Inv == Base /\ \A n \in Nodes : RecordInv(n)
           Clean == \A n, m \in Nodes, p \in PFs :
                      /\ Releases(n, p) /\ unguarded \cup lost = {} /\ obj[p].status[m] = <<>>
                      /\ ~At_(m, "forward") /\ ~At_(m, "patch")
                      => \A r \in active[m] \ stray[m] :
                           \E o \in PFs \ {p} : \E e \in EntriesOf(m, o) : e.port = r[1] /\ e.target = r[2]
<1>1. Init => Inv
  BY BaseInit, RecordInit
<1>2. Inv /\ [Next]_vars => Inv'
  BY BaseNext, RecordNext
<1>3. Inv /\ [Next]_vars => [Clean]_vars
  <2> SUFFICES ASSUME TypeOK, NEW m \in Nodes, Staged(m), RecordInv(m), NEW p \in PFs,
                      NothingLost, obj[p].exists, obj[p].status[m] = <<>>,
                      ~At_(m, "forward"), ~At_(m, "patch"), NEW r \in active[m] \ stray[m]
               PROVE  \E o \in PFs \ {p} : \E e \in EntriesOf(m, o) : e.port = r[1] /\ e.target = r[2]
    BY DEF Releases, NothingLost, Base
  <2>1. PICK o \in PFs : \E e \in Account(m, o) : e.port = r[1] /\ e.target = r[2]
    BY DEF RecordInv, Accounted
  <2>2. EntriesOf(m, p) = {}
    BY DEF EntriesOf, Range
  <2>3. Account(m, o) \subseteq EntriesOf(m, o)
    BY NothingPending
  <2> QED
    BY <2>1, <2>2, <2>3
<1> HIDE DEF Inv, Clean
<1>4. Spec => [][Clean]_vars
  BY <1>1, <1>2, <1>3, PTL DEF Spec
<1> QED
  BY <1>4 DEF ReleasedNodesAreClean, Clean
=============================================================================
