-------------------------- MODULE WebhookCerts_proofs --------------------------
(***************************************************************************)
(* Proofs about WebhookCerts for every number of configurations, webhooks, *)
(* Pods and Secrets, and every bound on events: a configuration nobody     *)
(* works on is stale only if an event was dropped, and a write changes the *)
(* bundles of the controllers' own webhooks only.                          *)
(***************************************************************************)
EXTENDS WebhookCerts, WellFoundedInduction, TLAPS

-----------------------------------------------------------------------------
(* The inductive invariant.                                                *)

\* A CA that the manager's caches resolve to.
Cached(ca) == \E s \in MountedVolumes : HasCa(s) /\ ca = <<s, known.secret[s]>>

\* The Secrets that Pods mount, or mounted when the caches saw them, are in
\* the record of the mounted ones.
MountsRecorded ==
  \A p \in Pods : /\ pods[p] \in Secrets => pods[p] \in mounted
                  /\ known.pods[p] \in Secrets => known.pods[p] \in mounted

\* A configuration that waits for nothing is as the caches have it, and has
\* the CA of a Secret mounted there.
Settled(c) ==
  /\ c \notin behind => known.cfg[c] = cfg[c]
  /\ proc[c] = Idle /\ c \notin queue \cup behind \cup missed => \A e \in Ours : Cached(cfg[c].bundle[e])

\* A reconcile has put such a CA into the webhooks it has passed; it tells
\* whether it has changed its copy, and one that is outdated will be repeated.
\* While its copy is current it differs from the configuration in the bundles
\* it may change only.
Underway(c) ==
  proc[c] # Idle =>
    /\ proc[c].at \in Ours \cup {Entries + 1}
    /\ c \notin missed => \A e \in Ours : e < proc[c].at => Cached(proc[c].inst.bundle[e])
    /\ ~proc[c].current => c \in behind \cup queue
    /\ proc[c].current /\ ~proc[c].dirty => proc[c].inst = cfg[c]
    /\ proc[c].current =>
         /\ proc[c].inst.spec = cfg[c].spec
         /\ \A e \in 1..Entries : proc[c].inst.bundle[e] # cfg[c].bundle[e] =>
              e \in Ours /\ proc[c].inst.bundle[e] \in mounted \X Writes

Inv == MountsRecorded /\ \A c \in Configs : Settled(c) /\ Underway(c)

-----------------------------------------------------------------------------
(* The next webhook of a reconcile.                                        *)

\* A nonempty set of numbers has a least one, which Min is.
LEMMA MinIsLeast ==
  ASSUME NEW S \in SUBSET Nat, S # {}
  PROVE  Min(S) \in S /\ \A x \in S : Min(S) <= x
<1> DEFINE Less == {ss \in Nat \X Nat : ss[1] < ss[2]}
<1>1. OpToRel(<, Nat) = Less
  BY DEF OpToRel
<1>2. IsWellFoundedOn(Less, Nat)
  BY NatLessThanWellFounded, <1>1
<1>3. PICK m \in S : \A x \in S : <<x, m>> \notin Less
  <2> HIDE DEF Less
  <2> QED
    BY <1>2, WFMin
<1>4. \A x \in S : m <= x
  <2>1. ASSUME NEW x \in S, x < m PROVE FALSE
    <3>1. <<x, m>> \in Nat \X Nat /\ <<x, m>>[1] = x /\ <<x, m>>[2] = m
      OBVIOUS
    <3>2. <<x, m>> \in Less
      BY Zenon, <2>1, <3>1
    <3>3. QED
      BY Zenon, <1>3, <3>2
  <2> HIDE DEF Less
  <2>2. QED
    BY <2>1
<1>5. QED
  BY <1>4 DEF Min

\* NextOurs goes to one of the webhooks that are ours, or past the last, and
\* skips none of them.
LEMMA NextOursIs ==
  ASSUME NEW e \in 0..Entries
  PROVE  /\ NextOurs(e) \in Ours \cup {Entries + 1} /\ NextOurs(e) \in 1..(Entries + 1)
         /\ NextOurs(e) > e
         /\ \A f \in Ours : f < NextOurs(e) => f <= e
<1> DEFINE S == {f \in Ours : f > e} \cup {Entries + 1}
<1>1. S \in SUBSET Nat /\ S # {}
  <2>1. Entries + 1 \in Nat /\ 1..Entries \subseteq Nat
    BY EntriesAssumption
  <2>2. QED
    BY <2>1, EntriesAssumption
<1>2. NextOurs(e) \in S /\ \A f \in S : NextOurs(e) <= f
  <2> HIDE DEF S
  <2>1. Min(S) \in S /\ \A x \in S : Min(S) <= x
    BY <1>1, MinIsLeast
  <2>2. NextOurs(e) = Min(S)
    BY DEF NextOurs, S
  <2>3. QED
    BY <2>1, <2>2
<1>3. Entries \in Nat /\ Ours \subseteq 1..Entries /\ NextOurs(e) \in Nat
  BY <1>1, <1>2, EntriesAssumption
<1>4. QED
  BY <1>2, <1>3

-----------------------------------------------------------------------------
(* Types.                                                                  *)

\* The initial state is well typed.
LEMMA TypeInit == Init => TypeOK
<1> SUFFICES ASSUME Init PROVE TypeOK
  OBVIOUS
<1>1. cfg \in [Configs -> Config]
  BY EntriesAssumption, BoundAssumption DEF Init, Config, Bundle
<1>2. secret \in [Secrets -> Nat] /\ pods \in [Pods -> Mount]
  BY DEF Init, Mount
<1>3. known \in [secret : [Secrets -> Nat], pods : [Pods -> Mount], cfg : [Configs -> Config]]
  BY <1>1, <1>2 DEF Init
<1>4. proc \in [Configs -> {Idle} \cup Run] /\ job \in Seq(Secrets)
  BY DEF Init
<1>5. /\ behind \subseteq Configs /\ queue \subseteq Configs /\ missed \subseteq Configs
      /\ mounted \subseteq Secrets /\ events \in 0..MaxEvents
  BY BoundAssumption DEF Init
<1>6. QED
  BY <1>1, <1>2, <1>3, <1>4, <1>5 DEF TypeOK

\* A reconcile that is told of a newer version is still a reconcile, and one
\* that is idle stays so.
LEMMA OutdateIs ==
  ASSUME proc \in [Configs -> {Idle} \cup Run], NEW c \in Configs
  PROVE  /\ Outdate(c, proc) \in [Configs -> {Idle} \cup Run]
         /\ \A d \in Configs \ {c} : Outdate(c, proc)[d] = proc[d]
         /\ Outdate(c, proc)[c] = Idle <=> proc[c] = Idle
         /\ proc[c] # Idle => Outdate(c, proc)[c] = [proc[c] EXCEPT !.current = FALSE]
<1>1. CASE proc[c] = Idle
  BY <1>1 DEF Outdate
<1>2. CASE proc[c] # Idle
  <2>1. proc[c] \in Run
    BY <1>2
  <2>2. [proc[c] EXCEPT !.current = FALSE] \in Run
    BY <2>1 DEF Run
  <2>3. \A r \in Run : r # Idle
    BY DEF Run, Idle
  <2>4. QED
    BY <1>2, <2>2, <2>3 DEF Outdate
<1>3. QED
  BY <1>1, <1>2

\* Every step keeps every variable in its set.
LEMMA TypeStep == TypeOK /\ [Next]_vars => TypeOK'
<1> SUFFICES ASSUME TypeOK, [Next]_vars PROVE TypeOK'
  OBVIOUS
<1> USE DEF TypeOK, server, cached
<1>0. Event => events' \in 0..MaxEvents
  BY BoundAssumption DEF Event
<1>1. CASE StartJob \/ JobFails
  <2>1. CertList \in Seq(Secrets) /\ <<>> \in Seq(Secrets)
    BY CertListAssumption DEF Secrets
  <2>2. job' \in Seq(Secrets) /\ UNCHANGED <<secret, pods, cfg, cached, queue, proc, mounted, missed>>
    BY <1>1, <2>1 DEF StartJob, JobFails
  <2>3. QED
    BY <1>1, <1>0, <2>2 DEF StartJob, JobFails
<1>2. CASE GenCert
  <2>1. Head(job) \in Secrets /\ Tail(job) \in Seq(Secrets)
    BY <1>2 DEF GenCert
  <2>2. QED
    BY <1>2, <2>1 DEF GenCert
<1>3. ASSUME NEW p \in Pods, ChangePod(p) PROVE TypeOK'
  BY <1>3, <1>0 DEF ChangePod
<1>4. ASSUME NEW c \in Configs, EditConfig(c) PROVE TypeOK'
  <2>1. PICK b \in {cfg[c].bundle, [e \in 1..Entries |-> None]} :
          cfg' = [cfg EXCEPT ![c] = [spec |-> events', bundle |-> b]]
    BY <1>4 DEF EditConfig
  <2>2. b \in [1..Entries -> Bundle] /\ events' \in 0..MaxEvents
    BY <1>4, <1>0, <2>1 DEF EditConfig, Config, Bundle
  <2>3. cfg' \in [Configs -> Config]
    BY <2>1, <2>2 DEF Config
  <2>4. proc' \in [Configs -> {Idle} \cup Run]
    BY <1>4, OutdateIs DEF EditConfig
  <2>5. QED
    BY <1>4, <2>2, <2>3, <2>4 DEF EditConfig
<1>5. ASSUME NEW c \in Configs, HearConfig(c) \/ Resync(c) PROVE TypeOK'
  <2>1. CASE HearConfig(c)
    <3>1. known' = [known EXCEPT !.cfg = [known.cfg EXCEPT ![c] = cfg[c]]]
      BY <2>1 DEF HearConfig
    <3>2. known' \in [secret : [Secrets -> Nat], pods : [Pods -> Mount], cfg : [Configs -> Config]]
      BY <3>1
    <3>3. QED
      BY <2>1, <3>2 DEF HearConfig
  <2>2. CASE Resync(c)
    BY <2>2 DEF Resync
  <2>3. QED
    BY <1>5, <2>1, <2>2
<1>6. ASSUME NEW s \in Secrets, HearSecret(s) PROVE TypeOK'
  BY <1>6 DEF HearSecret
<1>7. ASSUME NEW p \in Pods, HearPod(p) PROVE TypeOK'
  BY <1>7 DEF HearPod
<1>8. CASE Restart
  BY <1>8, <1>0 DEF Restart
<1>9. ASSUME NEW c \in Configs, Start(c) PROVE TypeOK'
  <2>1. NextOurs(0) \in 1..(Entries + 1)
    <3>1. 0 \in 0..Entries
      BY EntriesAssumption
    <3>2. QED
      BY <3>1, NextOursIs
  <2>2. known.cfg[c] \in Config
    OBVIOUS
  <2>3. proc'[c] \in Run
    BY <1>9, <2>1, <2>2 DEF Start, Run
  <2>4. QED
    BY <1>9, <2>3 DEF Start
<1>10. ASSUME NEW c \in Configs, Entry(c) PROVE TypeOK'
  <2>1. queue' \subseteq Configs /\ UNCHANGED <<server, cached, events, mounted, missed>>
    BY <1>10 DEF Entry, Retry
  <2>2. proc[c] \in Run /\ proc[c].at \in 0..Entries /\ proc[c].at \in 1..Entries
    <3>1. proc[c] \in Run /\ proc[c].at <= Entries
      BY <1>10 DEF Entry
    <3>2. QED
      BY <3>1, EntriesAssumption DEF Run
  <2>3. NextOurs(proc[c].at) \in 1..(Entries + 1)
    BY <2>2, NextOursIs
  <2>4. ASSUME NEW s \in MountedVolumes, HasCa(s)
        PROVE  Inject(proc[c].inst, proc[c].at, <<s, known.secret[s]>>) \in Config
    <3>1. s \in Secrets /\ known.secret[s] \in Writes
      BY <2>4 DEF MountedVolumes, HasCa, Writes
    <3>2. <<s, known.secret[s]>> \in Bundle
      BY <3>1 DEF Bundle
    <3>3. QED
      BY <2>2, <3>2 DEF Inject, Config, Run
  <2>5. proc' \in [Configs -> {Idle} \cup Run]
    <3>1. CASE proc' = [proc EXCEPT ![c] = Idle]
      BY <3>1
    <3>2. ASSUME NEW inst \in Config,
                 proc' = [proc EXCEPT ![c] = [proc[c] EXCEPT !.at = NextOurs(proc[c].at), !.inst = inst,
                                                             !.dirty = @ \/ inst # proc[c].inst]]
          PROVE  proc' \in [Configs -> {Idle} \cup Run]
      BY <2>2, <2>3, <3>2 DEF Run
    <3>3. QED
      BY <1>10, <2>4, <3>1, <3>2 DEF Entry
  <2>6. QED
    BY <2>1, <2>5
<1>11. ASSUME NEW c \in Configs, Finish(c) PROVE TypeOK'
  <2>1. proc[c] \in Run
    BY <1>11 DEF Finish
  <2>2. cfg' \in [Configs -> Config] /\ behind' \subseteq Configs /\ queue' \subseteq Configs
    BY <1>11, <2>1 DEF Finish, Retry, Run
  <2>3. events' \in 0..MaxEvents
    BY <1>11, <1>0 DEF Finish
  <2>4. QED
    BY <1>11, <2>2, <2>3 DEF Finish
<1>12. CASE UNCHANGED vars
  BY <1>12 DEF vars
<1>13. QED
  BY <1>1, <1>2, <1>3, <1>4, <1>5, <1>6, <1>7, <1>8, <1>9, <1>10, <1>11, <1>12
     DEF Next, Outside, HearSecrets, HearPods, Reconcile

\* THEOREM: every variable of the certificate controllers stays in its set.
THEOREM TypeInvariant == Spec => []TypeOK
BY TypeInit, TypeStep, PTL DEF Spec

-----------------------------------------------------------------------------
(* The invariant.                                                          *)

\* In the initial state every configuration waits for its first reconcile.
LEMMA InvInit == Init => Inv
<1> SUFFICES ASSUME Init PROVE Inv
  OBVIOUS
<1>1. MountsRecorded
  BY MountAssumption DEF Init, MountsRecorded, Secrets
<1>2. ASSUME NEW c \in Configs PROVE Settled(c) /\ Underway(c)
  BY DEF Init, Settled, Underway
<1>3. QED
  BY <1>1, <1>2 DEF Inv

\* What a Pod mounts is recorded before a cache can see it.
LEMMA MountsStep == TypeOK /\ MountsRecorded /\ [Next]_vars => MountsRecorded'
<1> SUFFICES ASSUME TypeOK, MountsRecorded, [Next]_vars PROVE MountsRecorded'
  OBVIOUS
<1> USE DEF server, cached
<1>1. CASE UNCHANGED <<pods, mounted>> /\ known'.pods = known.pods
  BY <1>1 DEF MountsRecorded
<1>2. ASSUME NEW p \in Pods, ChangePod(p) PROVE MountsRecorded'
  BY <1>2 DEF ChangePod, MountsRecorded, TypeOK
<1>3. ASSUME NEW p \in Pods, HearPod(p) PROVE MountsRecorded'
  BY <1>3 DEF HearPod, MountsRecorded, TypeOK
<1>4. CASE Restart
  BY <1>4 DEF Restart, MountsRecorded
<1>5. ASSUME NEW s \in Secrets, HearSecret(s) PROVE MountsRecorded'
  BY <1>1, <1>5 DEF HearSecret, TypeOK
<1>6. ASSUME NEW c \in Configs, HearConfig(c) PROVE MountsRecorded'
  BY <1>1, <1>6 DEF HearConfig, TypeOK
<1>7. ASSUME NEW c \in Configs, Resync(c) \/ Start(c) \/ Entry(c) \/ Finish(c) \/ EditConfig(c)
      PROVE  MountsRecorded'
  BY <1>1, <1>7 DEF Resync, Start, Entry, Finish, EditConfig
<1>8. CASE StartJob \/ JobFails \/ GenCert \/ UNCHANGED vars
  BY <1>1, <1>8 DEF StartJob, JobFails, GenCert, vars
<1>9. QED
  BY <1>2, <1>3, <1>4, <1>5, <1>6, <1>7, <1>8
     DEF Next, Outside, HearSecrets, HearPods, Reconcile

\* A step that does not touch configuration c, or the reconcile of it, and
\* lets it wait where it waited, keeps what is said of it; so does one after
\* which the caches owe it a reconcile.
LEMMA Untouched ==
  ASSUME NEW c \in Configs, Settled(c), Underway(c),
         UNCHANGED <<proc[c], cfg[c], known.cfg[c]>>,
         c \in behind' <=> c \in behind,
         c \in queue => c \in queue', c \in missed => c \in missed', mounted \subseteq mounted',
         c \in missed' \/ UNCHANGED <<known.secret, known.pods>>
  PROVE  Settled(c)' /\ Underway(c)'
<1>1. c \notin missed' => \A ca : Cached(ca) => Cached(ca)'
  BY DEF Cached, MountedVolumes, HasCa
<1>2. Settled(c)'
  BY <1>1 DEF Settled
<1>3. Underway(c)'
  BY <1>1 DEF Underway
<1>4. QED
  BY <1>2, <1>3

\* A user's edit outdates the reconcile of its configuration and is heard later.
LEMMA EditKeeps ==
  ASSUME TypeOK, NEW c \in Configs, Settled(c), Underway(c), EditConfig(c)
  PROVE  Settled(c)' /\ Underway(c)'
<1> USE DEF server, cached
<1>1. c \in behind' /\ UNCHANGED <<known, missed, mounted, queue>> /\ proc' = Outdate(c, proc)
  BY DEF EditConfig
<1>2. Settled(c)'
  BY <1>1 DEF Settled
<1>3. proc'[c] # Idle => proc[c] # Idle /\ proc[c] \in Run /\ proc'[c] = [proc[c] EXCEPT !.current = FALSE]
  BY <1>1, OutdateIs DEF TypeOK
<1>4. proc'[c] # Idle => /\ proc'[c].at = proc[c].at /\ proc'[c].inst = proc[c].inst
                         /\ ~proc'[c].current
  BY <1>3 DEF Run
<1>5. \A ca : Cached(ca) => Cached(ca)'
  BY <1>1 DEF Cached, MountedVolumes, HasCa
<1>6. Underway(c)'
  BY <1>1, <1>3, <1>4, <1>5 DEF Underway
<1>7. QED
  BY <1>2, <1>6

\* A reconcile begins with the cached copy, which is current unless an event of
\* the configuration is on its way.
LEMMA StartKeeps ==
  ASSUME TypeOK, NEW c \in Configs, Settled(c), Start(c)
  PROVE  Settled(c)' /\ Underway(c)'
<1> USE DEF server, cached
<1>1. proc'[c] = [pc |-> "entries", at |-> NextOurs(0), inst |-> known.cfg[c],
                  dirty |-> FALSE, current |-> c \notin behind]
  BY DEF Start, TypeOK
<1>2. UNCHANGED <<known, cfg, behind, mounted>>
  BY DEF Start
<1>3. proc'[c] # Idle
  BY <1>1 DEF Idle
<1>4. NextOurs(0) \in Ours \cup {Entries + 1} /\ \A f \in Ours : ~(f < NextOurs(0))
  <2>1. 0 \in 0..Entries /\ \A f \in Ours : ~(f <= 0)
    BY EntriesAssumption
  <2>2. QED
    BY <2>1, NextOursIs
<1>5. Settled(c)'
  BY <1>2, <1>3 DEF Settled
<1>6. Underway(c)'
  <2>1. /\ proc'[c].at = NextOurs(0) /\ proc'[c].inst = known.cfg[c]
        /\ proc'[c].current = (c \notin behind)
    BY <1>1
  <2>2. proc'[c].current => proc'[c].inst = cfg'[c]
    BY <1>2, <2>1 DEF Settled
  <2>3. ~proc'[c].current => c \in behind'
    BY <1>2, <2>1
  <2>4. proc'[c].at \in Ours \cup {Entries + 1} /\ \A e \in Ours : ~(e < proc'[c].at)
    BY <1>4, <2>1
  <2>5. QED
    BY <2>2, <2>3, <2>4 DEF Underway
<1>7. QED
  BY <1>5, <1>6

\* A webhook gets the CA of a Secret mounted in the caches, or the reconcile is
\* put back.
LEMMA EntryKeeps ==
  ASSUME TypeOK, MountsRecorded, NEW c \in Configs, Settled(c), Underway(c), Entry(c)
  PROVE  Settled(c)' /\ Underway(c)'
<1> USE DEF server, cached
<1> DEFINE r == proc[c]
<1>1. /\ r # Idle /\ r \in Run /\ r.at <= Entries
      /\ UNCHANGED <<known, cfg, behind, mounted, missed>>
  BY DEF Entry, TypeOK
<1>2. CASE proc' = [proc EXCEPT ![c] = Idle] /\ queue' = Retry(c)
  BY <1>1, <1>2 DEF Settled, Underway, Retry, TypeOK
<1>3. ASSUME NEW s \in MountedVolumes, HasCa(s), UNCHANGED queue,
             NEW inst, inst = Inject(r.inst, r.at, <<s, known.secret[s]>>),
             proc' = [proc EXCEPT ![c] = [r EXCEPT !.at = NextOurs(r.at), !.inst = inst,
                                                   !.dirty = @ \/ inst # r.inst]]
      PROVE  Settled(c)' /\ Underway(c)'
  <2> DEFINE ca == <<s, known.secret[s]>>
  <2>1. /\ proc'[c].at = NextOurs(r.at) /\ proc'[c].inst = inst /\ proc'[c].current = r.current
        /\ proc'[c].dirty = (r.dirty \/ inst # r.inst) /\ proc'[c].pc = "entries"
    BY <1>1, <1>3 DEF TypeOK, Run
  <2>2. proc'[c] # Idle
    BY <2>1 DEF Idle
  <2>3. /\ r.inst \in Config /\ inst.spec = r.inst.spec
        /\ inst.bundle = [r.inst.bundle EXCEPT ![r.at] = ca]
    BY <1>1, <1>3 DEF Inject, Run, Config
  <2>4. /\ r.at \in Ours /\ r.at \in 0..Entries
        /\ r.at \in 1..Entries
    BY <1>1, EntriesAssumption DEF Underway, Run
  <2>5. /\ inst.bundle[r.at] = ca
        /\ \A e \in 1..Entries : e # r.at => inst.bundle[e] = r.inst.bundle[e]
    BY <2>3, <2>4 DEF Config
  <2>6. Cached(ca) /\ s \in Secrets /\ s \in mounted /\ known.secret[s] \in Writes
    BY <1>3 DEF Cached, MountedVolumes, HasCa, MountsRecorded, TypeOK, Writes
  <2>7. \A x : Cached(x) <=> Cached(x)'
    BY <1>1 DEF Cached, MountedVolumes, HasCa
  <2>8. Settled(c)'
    BY <1>1, <2>2 DEF Settled
  <2>9. \A f \in Ours : f < NextOurs(r.at) => f < r.at \/ f = r.at
    <3>1. \A f \in Ours : f < NextOurs(r.at) => f <= r.at
      BY <2>4, NextOursIs
    <3>2. \A f \in Ours : f \in Nat /\ r.at \in Nat
      BY <2>4, EntriesAssumption
    <3>3. QED
      BY <3>1, <3>2
  <2>10. (c \notin missed => \A e \in Ours : e < proc[c].at => Cached(proc[c].inst.bundle[e]))'
    <3>1. ASSUME c \notin missed, NEW e \in Ours, e < NextOurs(r.at) PROVE Cached(inst.bundle[e])
      <4>1. CASE e = r.at
        BY <2>5, <2>6, <4>1
      <4>2. CASE e < r.at /\ e # r.at
        BY <1>1, <2>5, <3>1, <4>2, EntriesAssumption DEF Underway
      <4>3. QED
        BY <2>4, <2>9, <3>1, <4>1, <4>2, EntriesAssumption
    <3>2. QED
      BY <1>1, <2>1, <2>7, <3>1
  <2>11. proc'[c].current /\ ~proc'[c].dirty => proc'[c].inst = cfg'[c]
    BY <1>1, <2>1 DEF Underway, Run
  <2>12. proc'[c].current =>
           /\ proc'[c].inst.spec = cfg'[c].spec
           /\ \A e \in 1..Entries : proc'[c].inst.bundle[e] # cfg'[c].bundle[e] =>
                e \in Ours /\ proc'[c].inst.bundle[e] \in mounted' \X Writes
    BY <1>1, <2>1, <2>3, <2>4, <2>5, <2>6 DEF Underway
  <2>13. proc'[c].at \in Ours \cup {Entries + 1}
    BY <2>1, <2>4, NextOursIs
  <2>14. ~proc'[c].current => c \in behind' \cup queue'
    BY <1>1, <1>3, <2>1 DEF Underway
  <2>15. QED
    BY <2>8, <2>10, <2>11, <2>12, <2>13, <2>14 DEF Underway
<1>4. QED
  BY <1>2, <1>3 DEF Entry

\* A reconcile ends with every webhook passed: written, unchanged, or put back.
LEMMA FinishKeeps ==
  ASSUME TypeOK, NEW c \in Configs, Settled(c), Underway(c), Finish(c)
  PROVE  Settled(c)' /\ Underway(c)'
<1> USE DEF server, cached
<1>1. /\ proc[c] # Idle /\ proc[c].at = Entries + 1 /\ proc'[c] = Idle
      /\ UNCHANGED <<known, mounted, missed>>
  BY DEF Finish, TypeOK
<1>2. Underway(c)'
  BY <1>1 DEF Underway
<1>3. \A x : Cached(x) <=> Cached(x)'
  BY <1>1 DEF Cached, MountedVolumes, HasCa
<1>4. CASE c \in behind' \/ (c \in queue' /\ UNCHANGED <<cfg, behind>>)
  BY <1>1, <1>2, <1>4 DEF Settled
<1>5. CASE ~proc[c].dirty /\ UNCHANGED <<cfg, behind, queue>>
  <2>1. c \notin behind \cup queue => proc[c].inst = cfg[c]
    BY <1>1, <1>5 DEF Underway
  <2>2. \A e \in Ours : e < Entries + 1
    BY EntriesAssumption
  <2>3. c \notin behind \cup queue \cup missed => \A e \in Ours : Cached(cfg[c].bundle[e])
    BY <1>1, <2>1, <2>2 DEF Underway
  <2>4. QED
    BY <1>1, <1>2, <1>3, <1>5, <2>3 DEF Settled
<1>6. QED
  BY <1>4, <1>5 DEF Finish, Retry

\* Every step keeps what is said of every configuration.
LEMMA InvStep == TypeOK /\ Inv /\ [Next]_vars => Inv'
<1> SUFFICES ASSUME TypeOK, Inv, [Next]_vars, NEW c \in Configs PROVE Settled(c)' /\ Underway(c)'
  BY MountsStep DEF Inv
<1> USE DEF server, cached
<1>0. Settled(c) /\ Underway(c) /\ MountsRecorded
  BY DEF Inv
<1>1. CASE StartJob \/ JobFails \/ GenCert \/ UNCHANGED vars
  BY <1>0, <1>1, Untouched DEF StartJob, JobFails, GenCert, vars
<1>2. ASSUME NEW p \in Pods, ChangePod(p) PROVE Settled(c)' /\ Underway(c)'
  BY <1>0, <1>2, Untouched DEF ChangePod
<1>3. ASSUME NEW p \in Pods, HearPod(p) PROVE Settled(c)' /\ Underway(c)'
  BY <1>0, <1>3, Untouched DEF HearPod, TypeOK
<1>4. ASSUME NEW s \in Secrets, HearSecret(s) PROVE Settled(c)' /\ Underway(c)'
  BY <1>0, <1>4, Untouched DEF HearSecret, TypeOK
<1>5. CASE Restart
  BY <1>5 DEF Restart, Settled, Underway
<1>6. ASSUME NEW d \in Configs, d # c,
             EditConfig(d) \/ HearConfig(d) \/ Resync(d) \/ Start(d) \/ Entry(d) \/ Finish(d)
      PROVE  Settled(c)' /\ Underway(c)'
  <2>1. UNCHANGED <<proc[c], cfg[c], known.cfg[c], known.secret, known.pods>>
    <3>1. CASE EditConfig(d)
      <4>1. proc'[c] = proc[c]
        BY <1>6, <3>1, OutdateIs DEF EditConfig, TypeOK
      <4>2. cfg'[c] = cfg[c] /\ known' = known
        BY <1>6, <3>1 DEF EditConfig, TypeOK
      <4>3. QED
        BY <4>1, <4>2
    <3>2. CASE HearConfig(d) \/ Resync(d)
      BY <1>6, <3>2 DEF HearConfig, Resync, TypeOK
    <3>3. CASE Start(d) \/ Entry(d) \/ Finish(d)
      <4>1. known' = known /\ proc'[c] = proc[c]
        BY <1>6, <3>3 DEF Start, Entry, Finish, TypeOK
      <4>2. cfg'[c] = cfg[c]
        BY <1>6, <3>3 DEF Start, Entry, Finish, TypeOK
      <4>3. QED
        BY <4>1, <4>2
    <3>4. QED
      BY <1>6, <3>1, <3>2, <3>3
  <2>2. /\ c \in behind' <=> c \in behind
        /\ c \in queue => c \in queue'
        /\ c \in missed => c \in missed'
        /\ mounted \subseteq mounted'
    BY <1>6 DEF EditConfig, HearConfig, Resync, Start, Entry, Finish, Retry
  <2>3. QED
    BY <1>0, <2>1, <2>2, Untouched
<1>7. CASE HearConfig(c)
  <2>1. /\ UNCHANGED <<cfg, proc, missed, mounted>> /\ known'.cfg[c] = cfg[c] /\ c \in queue'
        /\ known'.secret = known.secret /\ known'.pods = known.pods
    BY <1>7 DEF HearConfig, TypeOK
  <2>2. \A x : Cached(x) <=> Cached(x)'
    BY <2>1 DEF Cached, MountedVolumes, HasCa
  <2>3. QED
    BY <1>0, <2>1, <2>2 DEF Settled, Underway
<1>8. CASE Resync(c)
  BY <1>0, <1>8, Untouched DEF Resync
<1>9. QED
  BY <1>0, <1>1, <1>2, <1>3, <1>4, <1>5, <1>6, <1>7, <1>8, EditKeeps, StartKeeps, EntryKeeps, FinishKeeps
     DEF Next, Outside, HearSecrets, HearPods, Reconcile

\* The invariant holds in every reachable state.
LEMMA Invariant == Spec => []Inv
BY TypeInvariant, InvInit, InvStep, PTL DEF Spec

\* THEOREM: a configuration that no controller works on has the CA of a Secret
\* that a Pod mounts, unless an event of a Pod or a Secret was dropped since its
\* last reconcile began, whatever errors, conflicts and restarts there were.
THEOREM StaleOnlyIfEventsDropped == Spec => []StaleOnlyIfMissed
<1>1. TypeOK /\ Inv => StaleOnlyIfMissed
  <2> SUFFICES ASSUME TypeOK, Inv, NEW c \in Configs, Quiet(c), c \notin missed PROVE UpToDate(c)
    BY DEF StaleOnlyIfMissed
  <2>1. \A e \in Ours : Cached(cfg[c].bundle[e])
    BY DEF Inv, Settled, Quiet
  <2>2. \A ca : Cached(ca) => ca \in Authorities
    BY DEF Cached, MountedVolumes, Authorities, Quiet
  <2>3. QED
    BY <2>1, <2>2 DEF UpToDate
<1>2. QED
  BY TypeInvariant, Invariant, <1>1, PTL

\* THEOREM: a reconcile that ends leaves the configuration as it stands but for
\* bundles of the controllers' own webhooks, and one it puts there is the CA of a
\* Secret that a Pod has mounted: neither a stale cache nor a user's edit beside
\* the reconcile makes it write anything else.
THEOREM WritesAreBundles == Spec => WritesOnlyBundles
<1> DEFINE OnlyBundles(c) ==
             proc[c] # Idle /\ proc'[c] = Idle =>
               /\ cfg'[c].spec = cfg[c].spec
               /\ \A e \in 1..Entries : cfg'[c].bundle[e] # cfg[c].bundle[e] =>
                    e \in Ours /\ cfg'[c].bundle[e] \in mounted \X Writes
<1>1. ASSUME TypeOK, Inv, [Next]_vars, NEW c \in Configs PROVE OnlyBundles(c)
  <2> USE DEF server, cached
  <2>1. CASE UNCHANGED cfg
    BY <2>1
  <2>2. ASSUME NEW d \in Configs, Finish(d) PROVE OnlyBundles(c)
    <3>1. CASE d # c
      BY <1>1, <2>2, <3>1 DEF Finish, TypeOK
    <3>2. CASE d = c /\ proc[c].current /\ cfg' = [cfg EXCEPT ![c] = proc[c].inst]
      <4>1. cfg'[c] = proc[c].inst
        BY <1>1, <3>2 DEF TypeOK
      <4>2. QED
        BY <1>1, <3>2, <4>1 DEF Inv, Underway
    <3>3. QED
      BY <2>1, <2>2, <3>1, <3>2 DEF Finish, Current
  <2>3. ASSUME NEW d \in Configs, EditConfig(d) PROVE OnlyBundles(c)
    <3>1. proc'[c] = Idle => proc[c] = Idle
      BY <1>1, <2>3, OutdateIs DEF EditConfig, TypeOK
    <3>2. QED
      BY <3>1
  <2>4. ASSUME NEW d \in Configs, HearConfig(d) \/ Resync(d) \/ Start(d) \/ Entry(d) PROVE OnlyBundles(c)
    BY <2>1, <2>4 DEF HearConfig, Resync, Start, Entry
  <2>5. CASE StartJob \/ JobFails \/ GenCert \/ HearSecrets \/ HearPods \/ Restart \/ UNCHANGED vars
    BY <2>1, <2>5
       DEF StartJob, JobFails, GenCert, HearSecrets, HearSecret, HearPods, HearPod, Restart, vars
  <2>6. ASSUME NEW p \in Pods, ChangePod(p) PROVE OnlyBundles(c)
    BY <2>1, <2>6 DEF ChangePod
  <2>7. QED
    BY <1>1, <2>2, <2>3, <2>4, <2>5, <2>6 DEF Next, Outside, Reconcile
<1>2. TypeOK /\ Inv /\ [Next]_vars => [\A c \in Configs : OnlyBundles(c)]_vars
  BY <1>1
<1>3. QED
  BY TypeInvariant, Invariant, <1>2, PTL DEF Spec, WritesOnlyBundles
=============================================================================
