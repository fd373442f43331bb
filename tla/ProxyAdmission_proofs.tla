------------------------- MODULE ProxyAdmission_proofs -------------------------
(***************************************************************************)
(* Proofs about ProxyAdmission for every set of manifests: what the        *)
(* webhooks admit the controller can build, writing it again is admitted   *)
(* and changes nothing, and the defaults fit the ports of the spec.        *)
(***************************************************************************)
EXTENDS ProxyAdmission, Lists

-----------------------------------------------------------------------------
(* The ports of a Service that names none.                                *)

\* All the ports are ports, in a list.
LEMMA AllPortsTyped ==
  ASSUME NEW backends \in Seq(Seq(PortRefs))
  PROVE  AllPorts(backends) \in Seq(PortRefs)
<1> DEFINE B == Seq(PortRefs)
           n == Len(backends)
           F == [x \in B \X B |-> x[1] \o x[2]]
           Body(g) == g = [s \in SUBSET (1..n) |->
                             IF s = {} THEN <<>> ELSE g[s \ {Max(s)}] \o backends[Max(s)]]
           c == CHOOSE g : Body(g)
<1>1. F \in [B \X B -> B] /\ \A b, a \in B : F[<<b, a>>] = b \o a
  <2>1. \A b, a \in B : b \o a \in B
    OBVIOUS
  <2> HIDE DEF B
  <2>2. QED
    BY <2>1
<1>2. <<>> \in B /\ n \in Nat /\ backends \in Seq(B) /\ DOMAIN backends = 1..n
  OBVIOUS
<1>3. \E g : Body(g)
  <2> HIDE DEF F, B
  <2>1. PICK g \in [SUBSET (1..n) -> B] : Folds(g, F, <<>>, backends, n)
    BY <1>1, <1>2, Folding
  <2>2. ASSUME NEW s \in SUBSET (1..n), s # {}
        PROVE  F[<<g[s \ {Max(s)}], backends[Max(s)]>>] = g[s \ {Max(s)}] \o backends[Max(s)]
    <3>1. Max(s) \in 1..n
      BY <1>2, <2>2, Highest
    <3>2. backends[Max(s)] \in B /\ g[s \ {Max(s)}] \in B
      BY <1>2, <3>1
    <3>3. QED
      BY <1>1, <3>2
  <2>3. Body(g)
    BY <2>1, <2>2 DEF Folds
  <2>4. QED
    BY <2>3
<1>4. Body(c)
  <2> HIDE DEF Body
  <2> QED
    BY <1>3
<1>5. AllPorts(backends) = c[1..n]
  BY <1>2, Zenon DEF AllPorts, FoldLeft, MapThenFoldSet
<1> HIDE DEF c
<1>6. \A k \in 0..n : c[1..k] \in B
  <2> HIDE DEF F, B
  <2>1. {} \in SUBSET (1..n)
    OBVIOUS
  <2>2. c[{}] = <<>> /\ \A s \in SUBSET (1..n) : s # {} => c[s] = c[s \ {Max(s)}] \o backends[Max(s)]
    BY <1>4, <2>1
  <2>3. ASSUME NEW s \in SUBSET (1..n), s # {}, c[s \ {Max(s)}] \in B
        PROVE  c[s] = F[<<c[s \ {Max(s)}], backends[Max(s)]>>]
    <3>1. Max(s) \in 1..n
      BY <1>2, <2>3, Highest
    <3>2. backends[Max(s)] \in B
      BY <1>2, <3>1
    <3>3. QED
      BY <1>1, <2>2, <2>3, <3>2
  <2>4. Runs(c, F, B, B, <<>>, backends)
    BY <1>1, <1>2, <2>2, <2>3 DEF Runs
  <2>5. QED
    BY <2>4, FoldSteps, Zenon
<1> HIDE DEF n, F, Body, c
<1>7. c[1..n] \in B
  BY <1>2, <1>6
<1>8. QED
  BY <1>5, <1>7

\* The ports made are the first of each name among the backends' ports.
FirstOf(p, ports, k) == \E i \in 1..k : First(ports, i) /\ ports[i] = Port(p.name, p.number)

LEMMA Generated ==
  ASSUME NEW backends \in Seq(Seq(PortRefs))
  PROVE  /\ GeneratedPorts(backends) \in Seq(ServicePorts)
         /\ \A p \in Range(GeneratedPorts(backends)) :
              FirstOf(p, AllPorts(backends), Len(AllPorts(backends)))
<1> DEFINE all == AllPorts(backends)
           n == Len(all)
           A == PortRefs
           B == Seq(ServicePorts)
           New(p) == [name |-> p.name, number |-> p.number, target |-> Port(p.name, 0)]
           Step(made, p) == IF p.name = "" \/ \E m \in Range(made) : m.name = p.name
                            THEN made ELSE Append(made, New(p))
           F == [x \in B \X A |-> Step(x[1], x[2])]
           Body(g) == g = [s \in SUBSET (1..n) |->
                             IF s = {} THEN <<>> ELSE Step(g[s \ {Max(s)}], all[Max(s)])]
           c == CHOOSE g : Body(g)
<1>1. F \in [B \X A -> B] /\ \A b \in B, a \in A : F[<<b, a>>] = Step(b, a)
  <2>1. \A p \in A : New(p) \in ServicePorts
    BY DEF PortRefs, ServicePorts, Port
  <2> HIDE DEF New
  <2>2. \A b \in B, a \in A : Append(b, New(a)) \in B
    BY <2>1
  <2>3. \A b \in B, a \in A : Step(b, a) \in B
    BY <2>2
  <2> HIDE DEF Step, A, B
  <2>4. QED
    BY <2>3
<1>2. <<>> \in B /\ n \in Nat /\ all \in Seq(A) /\ DOMAIN all = 1..n
  BY AllPortsTyped
<1>3. \E g : Body(g)
  <2> HIDE DEF F, A, B, Step, all
  <2>1. PICK g \in [SUBSET (1..n) -> B] : Folds(g, F, <<>>, all, n)
    BY <1>1, <1>2, Folding
  <2>2. ASSUME NEW s \in SUBSET (1..n), s # {}
        PROVE  F[<<g[s \ {Max(s)}], all[Max(s)]>>] = Step(g[s \ {Max(s)}], all[Max(s)])
    <3>1. Max(s) \in 1..n
      BY <1>2, <2>2, Highest
    <3>2. all[Max(s)] \in A
      BY <1>2, <3>1
    <3>3. s \ {Max(s)} \in SUBSET (1..n)
      OBVIOUS
    <3>4. g[s \ {Max(s)}] \in B
      BY <3>3
    <3>5. QED
      BY <1>1, <3>2, <3>4
  <2>3. Body(g)
    BY <2>1, <2>2 DEF Folds
  <2>4. QED
    BY <2>3
<1>4. Body(c)
  <2> HIDE DEF Body
  <2> QED
    BY <1>3
<1>5. GeneratedPorts(backends) = c[1..n]
  BY <1>2, Zenon DEF GeneratedPorts, FoldLeft, MapThenFoldSet
<1> HIDE DEF c
<1>6. /\ c[1..0] = <<>> /\ \A k \in 0..n : c[1..k] \in B
      /\ \A k \in 1..n : c[1..k] = F[<<c[1..(k - 1)], all[k]>>]
  <2> HIDE DEF F, A, B, Step
  <2>1. {} \in SUBSET (1..n)
    OBVIOUS
  <2>2. c[{}] = <<>> /\ \A s \in SUBSET (1..n) : s # {} => c[s] = Step(c[s \ {Max(s)}], all[Max(s)])
    BY <1>4, <2>1
  <2>3. ASSUME NEW s \in SUBSET (1..n), s # {}, c[s \ {Max(s)}] \in B
        PROVE  c[s] = F[<<c[s \ {Max(s)}], all[Max(s)]>>]
    <3>1. Max(s) \in 1..n
      BY <1>2, <2>3, Highest
    <3>2. all[Max(s)] \in A
      BY <1>2, <3>1
    <3>3. QED
      BY <1>1, <2>2, <2>3, <3>2
  <2>4. Runs(c, F, A, B, <<>>, all)
    BY <1>1, <1>2, <2>2, <2>3 DEF Runs
  <2>5. QED
    BY <2>4, FoldSteps
<1> HIDE DEF all, n, F, Body, Step, A, B
<1> DEFINE Kept(k) == /\ \A p \in Range(c[1..k]) : FirstOf(p, all, k)
                      /\ \A i \in 1..k : all[i].name = "" \/ \E m \in Range(c[1..k]) : m.name = all[i].name
           Q == {k \in 0..n : Kept(k)}
<1>7. Kept(0)
  BY <1>6 DEF Range
<1>8. ASSUME NEW k \in 1..n, Kept(k - 1) PROVE Kept(k)
  <2> DEFINE made == c[1..(k - 1)]
             p == all[k]
  <2>1. k - 1 \in 0..n /\ made \in B /\ p \in A /\ c[1..k] = Step(made, p)
    <3>1. k - 1 \in 0..n
      BY <1>2
    <3>2. made \in B
      BY <1>6, <3>1
    <3>3. p \in A
      BY <1>2
    <3>4. c[1..k] = F[<<made, p>>]
      BY <1>6
    <3> HIDE DEF made, p
    <3>5. QED
      BY <1>1, <3>1, <3>2, <3>3, <3>4
  <2>2. CASE p.name = "" \/ \E m \in Range(made) : m.name = p.name
    <3>1. c[1..k] = made
      BY <2>1, <2>2 DEF Step
    <3>2. \A i \in 1..k : i = k \/ i \in 1..(k - 1)
      BY <1>2
    <3>3. \A q : FirstOf(q, all, k - 1) => FirstOf(q, all, k)
      BY <1>2 DEF FirstOf
    <3> HIDE DEF made
    <3>4. QED
      BY <1>8, <2>2, <3>1, <3>2, <3>3 DEF made
  <2>3. CASE ~(p.name = "" \/ \E m \in Range(made) : m.name = p.name)
    <3>1. c[1..k] = Append(made, New(p))
      BY <2>1, <2>3 DEF Step
    <3>2. Range(c[1..k]) = Range(made) \cup {New(p)}
      <4>1. made \in Seq(ServicePorts)
        BY <2>1 DEF B
      <4> HIDE DEF New, made
      <4>2. ASSUME NEW e PROVE Range(Append(made, e)) = Range(made) \cup {e}
        <5>1. /\ DOMAIN Append(made, e) = DOMAIN made \cup {Len(made) + 1} /\ Append(made, e)[Len(made) + 1] = e
              /\ \A i \in DOMAIN made : Append(made, e)[i] = made[i]
          BY <4>1
        <5>2. QED
          BY <5>1 DEF Range
      <4>3. QED
        BY <3>1, <4>2
    <3>3. FirstOf(New(p), all, k)
      <4>1. First(all, k)
        <5>1. ASSUME NEW j \in 1..(k - 1) PROVE all[j].name # all[k].name
          BY <1>8, <2>3
        <5>2. QED
          BY <5>1 DEF First
      <4>2. p = Port(p.name, p.number)
        BY <2>1 DEF A, PortRefs, Port
      <4>3. QED
        BY <4>1, <4>2 DEF FirstOf
    <3>4. \A i \in 1..k : i = k \/ i \in 1..(k - 1)
      BY <1>2
    <3>5. \A q : FirstOf(q, all, k - 1) => FirstOf(q, all, k)
      BY <1>2 DEF FirstOf
    <3>6. New(p).name = p.name
      OBVIOUS
    <3> HIDE DEF New
    <3>7. QED
      BY <1>8, <3>2, <3>3, <3>4, <3>5, <3>6
  <2>4. QED
    BY <2>2, <2>3
<1>9. \A k \in 0..n : k \in Q
  <2> HIDE DEF Kept
  <2>1. 0 \in Q
    BY <1>2, <1>7
  <2>2. ASSUME NEW k \in 1..n, k - 1 \in Q PROVE k \in Q
    <3>1. k \in 0..n
      BY <1>2
    <3>2. QED
      BY <1>8, <2>2, <3>1
  <2> HIDE DEF Q
  <2>3. QED
    BY <1>2, <2>1, <2>2, Counting
<1>10. n \in 0..n /\ Kept(n) /\ c[1..n] \in B
  <2> HIDE DEF Kept
  <2>1. n \in 0..n
    BY <1>2
  <2>2. QED
    BY <1>6, <1>9, <2>1
<1>11. QED
  BY <1>5, <1>10 DEF all, n, B

-----------------------------------------------------------------------------
(* Defaulting twice is defaulting once.  The lemmas below follow the       *)
(* structure of an Ingress; what they ask of it is its shape, which the    *)
(* defaults keep, and nothing of the names and numbers in it.              *)

Listed(s) == \E n \in Nat : s = [i \in 1..n |-> s[i]]

RuleShape(r) == /\ r = [host |-> r.host, http |-> r.http]
                /\ Listed(r.http) /\ \A h \in DOMAIN r.http : Listed(r.http[h])

IngressShape(g) == /\ g = [default |-> g.default, rules |-> g.rules]
                   /\ Listed(g.rules) /\ \A i \in DOMAIN g.rules : RuleShape(g.rules[i])

SpecShape(s) == /\ s = [name |-> s.name, proper |-> s.proper, backends |-> s.backends,
                        ports |-> s.ports, ingress |-> s.ingress]
                /\ s.backends \in Seq(Seq(PortRefs)) /\ s.ports \in Seq(ServicePorts)
                /\ Listed(s.ingress) /\ \A i \in DOMAIN s.ingress : IngressShape(s.ingress[i])

-----------------------------------------------------------------------------
(* Shapes.                                                                 *)

\* A sequence is a list.
LEMMA SeqIsListed == ASSUME NEW S, NEW s \in Seq(S) PROVE Listed(s)
BY DEF Listed

\* A list with something done to each element is a list, and empty only if the
\* list was.
LEMMA MappedIsListed ==
  ASSUME NEW s, Listed(s), NEW t, DOMAIN t = DOMAIN s, t = [i \in DOMAIN s |-> t[i]]
  PROVE  Listed(t) /\ (t = <<>> <=> s = <<>>)
<1>1. PICK n \in Nat : s = [i \in 1..n |-> s[i]]
  BY DEF Listed
<1>2. DOMAIN s = 1..n /\ t = [i \in 1..n |-> t[i]]
  BY <1>1
<1>3. Listed(t)
  BY <1>2 DEF Listed
<1>4. n = 0 => s = <<>> /\ t = <<>>
  BY <1>1, <1>2
<1>5. n # 0 => s # <<>> /\ t # <<>>
  BY <1>2
<1>6. QED
  BY <1>3, <1>4, <1>5

\* Every manifest has the shape of a spec.
LEMMA ManifestShape == ASSUME NEW m \in Manifests PROVE SpecShape(m)
<1>1. m \in ProxySpecs
  BY ManifestsAssumption
<1>2. ASSUME NEW r \in HttpRules PROVE RuleShape(r)
  BY SeqIsListed DEF HttpRules, RuleShape
<1>3. ASSUME NEW g \in Ingresses PROVE IngressShape(g)
  BY <1>2, SeqIsListed DEF Ingresses, IngressShape
<1>4. QED
  BY <1>1, <1>3, SeqIsListed DEF ProxySpecs, SpecShape

-----------------------------------------------------------------------------
(* Idempotence.                                                            *)

\* A path that has its type and a backend is as the defaults would have it.
LEMMA PathSettled ==
  ASSUME NEW path, NEW number
  PROVE  DefaultPath(DefaultPath(path, number), number) = DefaultPath(path, number)
<1>1. CASE \E ref \in Range(path.backend) : ~Unset(ref)
  BY <1>1 DEF DefaultPath
<1>2. CASE ~\E ref \in Range(path.backend) : ~Unset(ref)
  BY <1>2 DEF DefaultPath
<1>3. QED
  BY <1>1, <1>2

\* So is a rule whose paths are; one with a host that had none has a path now.
LEMMA RuleSettled ==
  ASSUME NEW rule, NEW number, RuleShape(rule)
  PROVE  /\ RuleShape(DefaultRule(rule, number))
         /\ DefaultRule(DefaultRule(rule, number), number) = DefaultRule(rule, number)
<1> DEFINE http    == IF rule.host /\ rule.http = <<>> THEN <<CatchAll>> ELSE rule.http
           P(h)    == [i \in DOMAIN http[h] |-> DefaultPath(http[h][i], number)]
           done    == [h \in DOMAIN http |-> P(h)]
           d       == DefaultRule(rule, number)
<1>1. Listed(http) /\ \A h \in DOMAIN http : Listed(http[h])
  <2>1. CASE rule.host /\ rule.http = <<>>
    <3>1. http = <<CatchAll>> /\ DOMAIN http = {1} /\ http[1] = CatchAll
      BY <2>1
    <3>2. <<CatchAll>> \in Seq({CatchAll}) /\ CatchAll \in Seq({[typed |-> FALSE, backend |-> <<>>]})
      BY DEF CatchAll
    <3>3. Listed(<<CatchAll>>) /\ Listed(CatchAll)
      BY <3>2, SeqIsListed
    <3>4. QED
      BY <3>1, <3>3
  <2>2. CASE ~(rule.host /\ rule.http = <<>>)
    BY <2>2 DEF RuleShape
  <2>3. QED
    BY <2>1, <2>2
<1>2. d = [host |-> rule.host, http |-> done]
  BY DEF DefaultRule, RuleShape
<1> HIDE DEF http
<1>3. Listed(done) /\ (done = <<>> <=> http = <<>>)
  BY <1>1, MappedIsListed
<1>4. ASSUME NEW h \in DOMAIN http PROVE Listed(done[h])
  BY <1>1, MappedIsListed
<1>5. RuleShape(d)
  BY <1>2, <1>3, <1>4 DEF RuleShape
<1>6. ~(d.host /\ d.http = <<>>)
  BY <1>2, <1>3 DEF http
<1>7. [h \in DOMAIN done |-> [i \in DOMAIN done[h] |-> DefaultPath(done[h][i], number)]] = done
  <2>1. ASSUME NEW h \in DOMAIN http
        PROVE  [i \in DOMAIN done[h] |-> DefaultPath(done[h][i], number)] = done[h]
    BY PathSettled
  <2>2. QED
    BY <2>1
<1>8. ASSUME NEW e, e = [host |-> rule.host, http |-> done], ~(e.host /\ e.http = <<>>)
      PROVE  DefaultRule(e, number) = e
  <2> HIDE DEF done
  <2>1. e.http = done /\ [e EXCEPT !.http = done] = e
    BY <1>8
  <2>2. DefaultRule(e, number)
          = [e EXCEPT !.http = [h \in DOMAIN done |-> [i \in DOMAIN done[h] |-> DefaultPath(done[h][i], number)]]]
    BY <1>8, <2>1 DEF DefaultRule
  <2>3. QED
    BY <1>7, <2>1, <2>2
<1>9. QED
  BY <1>2, <1>5, <1>6, <1>8

\* So is an Ingress with the ports it was completed from.
LEMMA IngressSettled ==
  ASSUME NEW ingress, NEW ports, IngressShape(ingress)
  PROVE  /\ IngressShape(DefaultIngress(ingress, ports))
         /\ DefaultIngress(DefaultIngress(ingress, ports), ports) = DefaultIngress(ingress, ports)
<1> DEFINE number == ports[1].number
           d      == DefaultIngress(ingress, ports)
<1>1. CASE Len(ports) # 1
  <2>1. d = ingress
    BY <1>1 DEF DefaultIngress
  <2>2. QED
    BY <2>1
<1>2. CASE Len(ports) = 1 /\ ingress.rules = <<>>
  <2>1. d = [default |-> <<Port("", number)>>, rules |-> ingress.rules]
    BY <1>2 DEF DefaultIngress, IngressShape
  <2>2. ASSUME NEW e, e = [default |-> <<Port("", number)>>, rules |-> ingress.rules]
        PROVE  IngressShape(e) /\ DefaultIngress(e, ports) = e
    <3>1. IngressShape(e)
      BY <2>2 DEF IngressShape
    <3>2. DefaultIngress(e, ports) = [e EXCEPT !.default = <<Port("", number)>>]
      BY <1>2, <2>2 DEF DefaultIngress
    <3>3. DefaultIngress(e, ports) = e
      BY <2>2, <3>2
    <3>4. QED
      BY <3>1, <3>3
  <2>3. QED
    BY <2>1, <2>2
<1>3. CASE Len(ports) = 1 /\ ingress.rules # <<>>
  <2> DEFINE done == [i \in DOMAIN ingress.rules |-> DefaultRule(ingress.rules[i], number)]
  <2>1. d = [default |-> ingress.default, rules |-> done]
    BY <1>3 DEF DefaultIngress, IngressShape
  <2>2. Listed(done) /\ done # <<>>
    BY <1>3, MappedIsListed DEF IngressShape
  <2>3. \A i \in DOMAIN done : RuleShape(done[i]) /\ DefaultRule(done[i], number) = done[i]
    BY RuleSettled DEF IngressShape
  <2>4. [i \in DOMAIN done |-> DefaultRule(done[i], number)] = done
    BY <2>3
  <2> HIDE DEF done
  <2>5. IngressShape(d)
    BY <2>1, <2>2, <2>3 DEF IngressShape
  <2>6. ASSUME NEW e, e = [default |-> ingress.default, rules |-> done]
        PROVE  DefaultIngress(e, ports) = e
    BY <1>3, <2>2, <2>4, <2>6 DEF DefaultIngress
  <2>7. QED
    BY <2>1, <2>5, <2>6
<1>4. QED
  BY <1>1, <1>2, <1>3

\* A spec that was defaulted, and has ports, is as the defaults would have it.
LEMMA DefaultedSettled ==
  ASSUME NEW spec, SpecShape(spec), DefaultPorts(spec) # <<>>
  PROVE  SpecShape(Defaulted(spec)) /\ Defaulted(Defaulted(spec)) = Defaulted(spec)
<1> DEFINE ports == DefaultPorts(spec)
           name  == IF spec.name = "" THEN ProxyName ELSE spec.name
           done  == [i \in DOMAIN spec.ingress |-> DefaultIngress(spec.ingress[i], ports)]
           Made(e) == e = [name |-> name, proper |-> spec.proper, backends |-> spec.backends,
                           ports |-> ports, ingress |-> done]
<1> HIDE DEF ports
<1>1. Made(Defaulted(spec))
  <2>1. Defaulted(spec) = [spec EXCEPT !.name = name, !.ports = ports, !.ingress = done]
    BY Zenon DEF Defaulted, ports
  <2> HIDE DEF name, done
  <2>2. QED
    BY <2>1 DEF SpecShape
<1>2. ports # <<>> /\ ports \in Seq(ServicePorts) /\ spec.backends \in Seq(Seq(PortRefs))
  BY Generated DEF ports, DefaultPorts, SpecShape
<1>3. Listed(done) /\ \A i \in DOMAIN done : IngressShape(done[i])
  BY MappedIsListed, IngressSettled DEF SpecShape
<1>4. [i \in DOMAIN done |-> DefaultIngress(done[i], ports)] = done
  BY IngressSettled DEF SpecShape
<1> HIDE DEF done
<1>5. ASSUME NEW e, Made(e) PROVE SpecShape(e) /\ Defaulted(e) = e
  <2>1. SpecShape(e)
    BY <1>2, <1>3, <1>5 DEF SpecShape
  <2>2. DefaultPorts(e) = ports
    BY <1>2, <1>5 DEF DefaultPorts
  <2>3. (IF e.name = "" THEN ProxyName ELSE e.name) = e.name
    BY <1>5
  <2>4. Defaulted(e) = [e EXCEPT !.name = e.name, !.ports = ports, !.ingress = done]
    BY <1>4, <1>5, <2>2, <2>3 DEF Defaulted
  <2>5. QED
    BY <1>5, <2>1, <2>4
<1>6. QED
  BY <1>1, <1>5

-----------------------------------------------------------------------------
(* What is admitted.                                                       *)

\* Validation leaves the controller no nil pointer.
LEMMA ValidIsBuildable == ASSUME NEW spec, Valid(spec) PROVE Buildable(spec)
BY DEF Valid, ValidIngress, ValidRule, ValidPath, Buildable, Paths

\* What was admitted once is admitted as it is stored, and stored as it is.
LEMMA AdmittedSettled ==
  ASSUME NEW spec, SpecShape(spec), Admitted(spec)
  PROVE  /\ SpecShape(Defaulted(spec)) /\ Valid(Defaulted(spec))
         /\ Admitted(Defaulted(spec)) /\ Defaulted(Defaulted(spec)) = Defaulted(spec)
<1> DEFINE d == Defaulted(spec)
<1>1. Schema(d) /\ Valid(d)
  BY DEF Admitted
<1>2. d.ports = DefaultPorts(spec)
  BY DEF Defaulted, SpecShape
<1>3. d.ports # <<>>
  BY <1>1 DEF Valid, ValidService
<1>4. SpecShape(d) /\ Defaulted(d) = d
  BY <1>2, <1>3, DefaultedSettled
<1> HIDE DEF d
<1>5. \A ingress \in Range(d.ingress), rule \in UNION {Range(g.rules) : g \in Range(d.ingress)} :
        rule.http # <<>>
  BY <1>1 DEF Valid, ValidIngress, ValidRule
<1>6. ~DefaulterFails(d)
  BY <1>3, <1>5 DEF DefaulterFails
<1>7. QED
  BY <1>1, <1>4, <1>6 DEF Admitted, d

-----------------------------------------------------------------------------
(* The invariant.                                                          *)

\* The object, if there is one, is an admitted spec with the defaults in it.
Stored == stored = <<>> \/ \E spec : SpecShape(spec) /\ Admitted(spec) /\ stored = <<Defaulted(spec)>>

\* A request that is admitted stores such a spec.
LEMMA WriteStores ==
  ASSUME NEW spec, NEW annotation, NEW whole, NEW inPlace, SpecShape(spec),
         Write(spec, annotation, whole, inPlace)
  PROVE  Stored'
BY DEF Write, Stored

\* A spec keeps its shape when a part of another takes the place of its own.
LEMMA PartShape ==
  ASSUME NEW old, NEW m, SpecShape(old), SpecShape(m), NEW part \in {"backends", "ports", "ingress"}
  PROVE  SpecShape([old EXCEPT ![part] = m[part]])
<1> DEFINE Is(s, n, q, b, p, g) ==
             s = [name |-> n, proper |-> q, backends |-> b, ports |-> p, ingress |-> g]
           new == [old EXCEPT ![part] = m[part]]
<1>1. ASSUME NEW o, NEW n, NEW q, NEW b, NEW p, NEW g, Is(o, n, q, b, p, g)
      PROVE  /\ Is([o EXCEPT !["backends"] = m["backends"]], n, q, m.backends, p, g)
             /\ Is([o EXCEPT !["ports"] = m["ports"]], n, q, b, m.ports, g)
             /\ Is([o EXCEPT !["ingress"] = m["ingress"]], n, q, b, p, m.ingress)
  <2>1. Is([o EXCEPT !["backends"] = m["backends"]], n, q, m.backends, p, g)
    BY <1>1
  <2>2. Is([o EXCEPT !["ports"] = m["ports"]], n, q, b, m.ports, g)
    BY <1>1
  <2>3. Is([o EXCEPT !["ingress"] = m["ingress"]], n, q, b, p, m.ingress)
    BY <1>1
  <2>4. QED
    BY <2>1, <2>2, <2>3
<1>2. Is(old, old.name, old.proper, old.backends, old.ports, old.ingress)
  BY DEF SpecShape
<1>3. \/ Is(new, old.name, old.proper, m.backends, old.ports, old.ingress)
      \/ Is(new, old.name, old.proper, old.backends, m.ports, old.ingress)
      \/ Is(new, old.name, old.proper, old.backends, old.ports, m.ingress)
  <2> HIDE DEF Is
  <2>1. part = "backends" \/ part = "ports" \/ part = "ingress"
    OBVIOUS
  <2>2. QED
    BY <1>1, <1>2, <2>1, Zenon
<1> HIDE DEF new
<1>4. SpecShape(new)
  BY <1>3 DEF SpecShape
<1>5. QED
  BY <1>4 DEF new

\* Every request keeps that so.
LEMMA StoredStep == Stored /\ [Next]_vars => Stored'
<1> SUFFICES ASSUME Stored, [Next]_vars PROVE Stored'
  OBVIOUS
<1>1. ASSUME NEW m \in Manifests, NEW a, Create(m, a) PROVE Stored'
  BY <1>1, ManifestShape, WriteStores DEF Create
<1>2. ASSUME NEW m \in Manifests, Replace(m) PROVE Stored'
  BY <1>2, ManifestShape, WriteStores DEF Replace, Restored
<1>3. ASSUME NEW m \in Manifests, Apply(m) PROVE Stored'
  <2>1. Restored("kubectl-client-side-apply", Patched(m), <<m>>) = m
    BY DEF Restored
  <2>2. QED
    BY <1>3, <2>1, ManifestShape, WriteStores DEF Apply
<1>4. ASSUME NEW part \in {"backends", "ports", "ingress"}, NEW m \in Manifests, Edit(part, m[part])
      PROVE  Stored'
  <2>1. PICK spec : SpecShape(spec) /\ Admitted(spec) /\ stored = <<Defaulted(spec)>>
    BY <1>4 DEF Edit, Stored
  <2> DEFINE old == stored[1]
             new == [old EXCEPT ![part] = m[part]]
  <2>2. SpecShape(old) /\ SpecShape(m)
    BY <2>1, AdmittedSettled, ManifestShape
  <2>3. SpecShape(new)
    BY <1>4, <2>2, PartShape
  <2>4. Restored("kubectl-edit", new, applied) = new
    BY DEF Restored
  <2>5. QED
    BY <1>4, <2>3, <2>4, WriteStores DEF Edit
<1>5. CASE Delete \/ UNCHANGED vars
  BY <1>5 DEF Delete, vars, Stored
<1>6. QED
  BY <1>1, <1>2, <1>3, <1>4, <1>5 DEF Next

\* The invariant holds in every reachable state.
LEMMA Invariant == Spec => []Stored
<1>1. Init => Stored
  BY DEF Init, Stored
<1>2. QED
  BY <1>1, StoredStep, PTL DEF Spec

\* THEOREM: by whichever writes a stored proxy came about, the controller that
\* builds its Service and Ingress meets no nil pointer in it.
THEOREM StoredIsBuildable == Spec => []ChildrenBuildable
<1>1. Stored => ChildrenBuildable
  BY AdmittedSettled, ValidIsBuildable DEF Stored, ChildrenBuildable, Range
<1>2. QED
  BY Invariant, <1>1, PTL

\* THEOREM: a stored proxy that is sent back as it is passes both webhooks and
\* the schema, and is not changed by them.
THEOREM StoredPassesUnchanged == Spec => []StoredIsSettled
<1>1. Stored => StoredIsSettled
  BY AdmittedSettled DEF Stored, StoredIsSettled, Range
<1>2. QED
  BY Invariant, <1>1, PTL

-----------------------------------------------------------------------------
(* What the manifest leaves to the defaults.                               *)

\* The object is as the manifest it was last written from has it, with the
\* defaults, until a client changes it in place.
Whole ==
  stored # <<>> => \E m \in Manifests : origin = <<m>> /\ (~edited => stored = <<Defaulted(m)>>)

\* Every request keeps that so.
LEMMA WholeStep == Whole /\ [Next]_vars => Whole'
<1> SUFFICES ASSUME Whole, [Next]_vars PROVE Whole'
  OBVIOUS
<1>1. ASSUME NEW m \in Manifests, NEW a, Create(m, a) PROVE Whole'
  BY <1>1 DEF Create, Write, Whole
<1>2. ASSUME NEW m \in Manifests, Replace(m) PROVE Whole'
  BY <1>2 DEF Replace, Restored, Write, Whole
<1>3. ASSUME NEW m \in Manifests, Apply(m) PROVE Whole'
  <2>1. Restored("kubectl-client-side-apply", Patched(m), <<m>>) = m
    BY DEF Restored
  <2>2. QED
    BY <1>3, <2>1 DEF Apply, Write, Whole
<1>4. ASSUME NEW part, NEW value, Edit(part, value) PROVE Whole'
  BY <1>4 DEF Edit, Write, Whole
<1>5. CASE Delete \/ UNCHANGED vars
  BY <1>5 DEF Delete, vars, Whole
<1>6. QED
  BY <1>1, <1>2, <1>3, <1>4, <1>5 DEF Next

\* The parts of a spec with its defaults.
LEMMA DefaultedHas ==
  ASSUME NEW spec, SpecShape(spec)
  PROVE  /\ Defaulted(spec).backends = spec.backends /\ Defaulted(spec).ports = DefaultPorts(spec)
         /\ Defaulted(spec).ingress = [i \in DOMAIN spec.ingress |->
                                         DefaultIngress(spec.ingress[i], DefaultPorts(spec))]
BY DEF Defaulted, SpecShape

\* The range of a list of one.
LEMMA RangeOfOne == ASSUME NEW x PROVE Range(<<x>>) = {x}
BY DEF Range

\* A reference that the defaults add to an Ingress is to the Service's only port.
LEMMA DefaultedRefers ==
  ASSUME NEW spec, SpecShape(spec), NEW ref \in References(Defaulted(spec))
  PROVE  ref \in References(spec) \/ Resolves(ref, Defaulted(spec).ports)
<1> DEFINE ports  == DefaultPorts(spec)
           number == ports[1].number
<1>1. PICK i \in DOMAIN spec.ingress :
        \/ ref \in Range(DefaultIngress(spec.ingress[i], ports).default)
        \/ \E path \in Paths(DefaultIngress(spec.ingress[i], ports)) : ref \in Range(path.backend)
  <2> DEFINE D == Defaulted(spec)
  <2>1. PICK e \in Range(D.ingress) : \/ ref \in Range(e.default)
                                      \/ \E path \in Paths(e) : ref \in Range(path.backend)
    BY DEF References
  <2>2. D.ingress = [i \in DOMAIN spec.ingress |-> DefaultIngress(spec.ingress[i], ports)]
    BY DefaultedHas
  <2>3. PICK i \in DOMAIN spec.ingress : e = DefaultIngress(spec.ingress[i], ports)
    BY <2>2 DEF Range
  <2>4. QED
    BY <2>1, <2>3
<1> DEFINE g == spec.ingress[i]
           d == DefaultIngress(g, ports)
<1>2. ports \in Seq(ServicePorts) /\ Defaulted(spec).ports = ports
  BY DefaultedHas, Generated DEF DefaultPorts, SpecShape
<1>3. IngressShape(g)
  BY DEF SpecShape
<1>4. ASSUME ref \in Range(g.default) \/ \E path \in Paths(g) : ref \in Range(path.backend)
      PROVE  ref \in References(spec)
  BY <1>4 DEF References, Range
<1> HIDE DEF ports
<1>5. CASE Len(ports) # 1
  <2>1. d = g
    BY <1>5 DEF DefaultIngress
  <2>2. QED
    BY <1>1, <1>4, <2>1
<1> SUFFICES ASSUME Len(ports) = 1 PROVE ref \in References(spec) \/ Resolves(ref, Defaulted(spec).ports)
  BY <1>5
<1>6. Resolves(Port("", number), Defaulted(spec).ports)
  <2>1. ports[1] \in Range(ports)
    BY <1>2 DEF Range
  <2>2. QED
    BY <1>2, <2>1 DEF Resolves
<1>7. CASE g.rules = <<>>
  <2>1. d = [default |-> <<Port("", number)>>, rules |-> g.rules]
    BY <1>3, <1>7 DEF DefaultIngress, IngressShape
  <2> HIDE DEF d
  <2>2. Paths(d) = Paths(g)
    BY <2>1 DEF Paths
  <2>3. Range(d.default) = {Port("", number)}
    BY <2>1, RangeOfOne
  <2>4. QED
    BY <1>1, <1>4, <1>6, <2>2, <2>3 DEF d
<1>8. CASE g.rules # <<>>
  <2>1. d = [default |-> g.default,
             rules |-> [r \in DOMAIN g.rules |-> DefaultRule(g.rules[r], number)]]
    BY <1>3, <1>8 DEF DefaultIngress, IngressShape
  <2>2. ASSUME NEW path \in Paths(d), ref \in Range(path.backend)
        PROVE  ref = Port("", number) \/ \E old \in Paths(g) : ref \in Range(old.backend)
    <3>1. PICK r \in DOMAIN g.rules : \E h \in Range(DefaultRule(g.rules[r], number).http) : path \in Range(h)
      BY <2>1, <2>2 DEF Paths, Range
    <3> DEFINE rule == g.rules[r]
               http == IF rule.host /\ rule.http = <<>> THEN <<CatchAll>> ELSE rule.http
    <3>2. DefaultRule(rule, number).http
            = [h \in DOMAIN http |-> [j \in DOMAIN http[h] |-> DefaultPath(http[h][j], number)]]
      <4>1. RuleShape(rule)
        BY <1>3 DEF IngressShape
      <4>2. QED
        BY <4>1 DEF DefaultRule, RuleShape
    <3> HIDE DEF http
    <3>3. PICK h \in DOMAIN http : \E j \in DOMAIN http[h] : path = DefaultPath(http[h][j], number)
      BY <3>1, <3>2 DEF Range
    <3>4. PICK j \in DOMAIN http[h] : path = DefaultPath(http[h][j], number)
      BY <3>3
    <3>5. CASE path.backend = <<Port("", number)>>
      BY <2>2, <3>5, RangeOfOne
    <3>6. CASE path.backend # <<Port("", number)>>
      <4>1. path.backend = http[h][j].backend /\ \E x \in Range(http[h][j].backend) : ~Unset(x)
        BY <3>4, <3>6 DEF DefaultPath
      <4>2. ~(rule.host /\ rule.http = <<>>)
        <5>1. SUFFICES ASSUME http = <<CatchAll>> PROVE FALSE
          BY DEF http
        <5>2. h = 1 /\ j = 1 /\ http[h][j].backend = <<>>
          BY <5>1 DEF CatchAll
        <5>3. QED
          BY <4>1, <5>2 DEF Range
      <4>3. http = rule.http
        BY <4>2 DEF http
      <4>4. http[h][j] \in Paths(g)
        BY <4>3 DEF Paths, Range
      <4>5. QED
        BY <2>2, <4>1, <4>4
    <3>7. QED
      BY <3>5, <3>6
  <2>3. d.default = g.default
    BY <2>1
  <2>4. QED
    BY <1>1, <1>4, <1>6, <2>2, <2>3
<1>9. QED
  BY <1>7, <1>8

\* An Ingress without rules refers to the Service's port if it is the only one.
LEMMA DefaultedFalls ==
  ASSUME NEW spec, SpecShape(spec), Len(Defaulted(spec).ports) = 1,
         NEW ref \in DefaultBackends(Defaulted(spec))
  PROVE  Resolves(ref, Defaulted(spec).ports)
<1> DEFINE ports == DefaultPorts(spec)
<1>1. ports \in Seq(ServicePorts) /\ Defaulted(spec).ports = ports
  BY DefaultedHas, Generated DEF DefaultPorts, SpecShape
<1>2. PICK i \in DOMAIN spec.ingress :
        /\ DefaultIngress(spec.ingress[i], ports).rules = <<>>
        /\ ref \in Range(DefaultIngress(spec.ingress[i], ports).default)
  <2> DEFINE D == Defaulted(spec)
  <2>1. PICK e \in Range(D.ingress) : e.rules = <<>> /\ ref \in Range(e.default)
    BY DEF DefaultBackends
  <2>2. D.ingress = [i \in DOMAIN spec.ingress |-> DefaultIngress(spec.ingress[i], ports)]
    BY DefaultedHas
  <2>3. PICK i \in DOMAIN spec.ingress : e = DefaultIngress(spec.ingress[i], ports)
    BY <2>2 DEF Range
  <2>4. QED
    BY <2>1, <2>3
<1> DEFINE g == spec.ingress[i]
           d == DefaultIngress(g, ports)
<1> HIDE DEF ports
<1>3. IngressShape(g)
  BY DEF SpecShape
<1>4. g.rules = <<>>
  <2>1. SUFFICES ASSUME g.rules # <<>> PROVE FALSE
    OBVIOUS
  <2> DEFINE done == [r \in DOMAIN g.rules |-> DefaultRule(g.rules[r], ports[1].number)]
  <2>2. d = [default |-> g.default, rules |-> done]
    BY <1>1, <1>3, <2>1 DEF DefaultIngress, IngressShape
  <2>3. done # <<>>
    BY <1>3, <2>1, MappedIsListed DEF IngressShape
  <2> HIDE DEF done
  <2>4. QED
    BY <1>2, <2>2, <2>3
<1>5. d = [default |-> <<Port("", ports[1].number)>>, rules |-> g.rules]
  BY <1>1, <1>3, <1>4 DEF DefaultIngress, IngressShape
<1>6. ref = Port("", ports[1].number)
  <2> HIDE DEF d
  <2>1. ref \in Range(d.default)
    BY <1>2 DEF d
  <2>2. QED
    BY <1>5, <2>1, RangeOfOne
<1>7. ports[1] \in Range(ports)
  BY <1>1 DEF Range
<1>8. QED
  BY <1>1, <1>6, <1>7 DEF Resolves

\* THEOREM: as long as no client changes the object in place, what a manifest
\* leaves out fits what it says: the ports are the first of each name among the
\* backends, and an Ingress refers to what the manifest names or to a port of
\* the Service; and whoever wrote it, an Ingress without rules falls back to the
\* Service's port if it is the only one.
THEOREM DefaultsAlwaysFit == Spec => []DefaultsFit
<1>1. Init => Whole
  BY DEF Init, Whole
<1>2. Stored /\ Whole => DefaultsFit
  <2> SUFFICES ASSUME Stored, Whole, NEW spec \in Range(stored), NEW m \in Range(origin)
               PROVE  /\ ~edited /\ m.ports = <<>> =>
                           \A p \in Range(spec.ports) :
                             \E i \in DOMAIN AllPorts(spec.backends) :
                               /\ First(AllPorts(spec.backends), i)
                               /\ AllPorts(spec.backends)[i] = Port(p.name, p.number)
                      /\ ~edited => \A ref \in References(spec) : ref \in References(m) \/ Resolves(ref, spec.ports)
                      /\ Len(spec.ports) = 1 => \A ref \in DefaultBackends(spec) : Resolves(ref, spec.ports)
    BY DEF DefaultsFit
  <2>1. stored # <<>>
    BY DEF Range
  <2>2. m \in Manifests /\ (~edited => spec = Defaulted(m))
    BY <2>1 DEF Whole, Range
  <2>3. SpecShape(m)
    BY <2>2, ManifestShape
  <2>4. PICK s : SpecShape(s) /\ spec = Defaulted(s)
    BY <2>1 DEF Stored, Range
  <2>5. ASSUME ~edited, m.ports = <<>>, NEW p \in Range(spec.ports)
        PROVE  \E i \in DOMAIN AllPorts(spec.backends) :
                 /\ First(AllPorts(spec.backends), i)
                 /\ AllPorts(spec.backends)[i] = Port(p.name, p.number)
    <3>1. spec.backends = m.backends /\ spec.ports = GeneratedPorts(m.backends)
      BY <2>2, <2>3, <2>5, DefaultedHas DEF DefaultPorts
    <3>2. m.backends \in Seq(Seq(PortRefs))
      BY <2>3 DEF SpecShape
    <3>3. FirstOf(p, AllPorts(m.backends), Len(AllPorts(m.backends)))
      BY <2>5, <3>1, <3>2, Generated
    <3>4. DOMAIN AllPorts(m.backends) = 1..Len(AllPorts(m.backends))
      BY <3>2, AllPortsTyped
    <3>5. QED
      BY <3>1, <3>3, <3>4 DEF FirstOf
  <2>6. ~edited => \A ref \in References(spec) : ref \in References(m) \/ Resolves(ref, spec.ports)
    BY <2>2, <2>3, DefaultedRefers
  <2>7. Len(spec.ports) = 1 => \A ref \in DefaultBackends(spec) : Resolves(ref, spec.ports)
    BY <2>4, DefaultedFalls
  <2>8. QED
    BY <2>5, <2>6, <2>7
<1>3. QED
  BY Invariant, <1>1, <1>2, WholeStep, PTL DEF Spec
=============================================================================
