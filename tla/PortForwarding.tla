---------------------------- MODULE PortForwarding ----------------------------
(***************************************************************************)
(* The PortForwarding controller, one reconciler on every node, with the   *)
(* API server that holds the objects and their per-node status, the        *)
(* informer cache each node reads, its work queue, and its forwarder: the  *)
(* guard's set of keys and the redirects in force.  A forwarder call is    *)
(* one step here, with what a failure leaves half done; Forwarder.tla      *)
(* takes a call apart.                                                     *)
(*                                                                         *)
(* A reconcile is a sequence of steps: read the object from the cache, add *)
(* the finalizer, plan what to do with the ports, call the forwarder port  *)
(* by port, patch the status of this node; or for an object under deletion *)
(* remove the ports one by one, patch, and release the finalizer.  Users,  *)
(* other nodes and crashes come between any two steps.                     *)
(***************************************************************************)
EXTENDS Naturals, FiniteSets, Sequences, SequencesExt

CONSTANTS Nodes,      \* nodes that run the controller
          PFs,        \* names of PortForwarding objects
          Specs,      \* values of spec.ports: sequences of host ports
          Targets,    \* [hosts, port]: what a Service resolves to
          NoHosts,    \* the empty target list
          Backend,    \* "nftables" or "pure-go"
          CacheLag,   \* TRUE: a reconcile may start from a stale cache, and
                      \* five retries may end before the cache catches up
          MaxEdits,   \* bound on changes made by users
          MaxFaults,  \* bound on calls of the forwarder in which something fails
          MaxCrashes  \* bound on restarts of the controller

ASSUME BackendAssumption == Backend \in {"nftables", "pure-go"}
ASSUME LagAssumption == CacheLag \in BOOLEAN
ASSUME BoundsAssumption == MaxEdits \in Nat /\ MaxFaults \in Nat /\ MaxCrashes \in Nat

HostPort == [proto : STRING, num : Nat \ {0}]
ASSUME SpecsAssumption == Specs \subseteq Seq(HostPort)
\* Every target has an address.
ASSUME TargetsAssumption == \A t \in Targets : t.hosts # NoHosts

\* NamedPort is the source port of an entry whose target the Service does not
\* have: its name, which reads as 0.
NamedPort == [proto |-> "", num |-> 0]
Ports == UNION {{s[i] : i \in 1..Len(s)} : s \in Specs}
Nums == {q.num : q \in Ports}
NoTarget == [hosts |-> NoHosts, port |-> 0]
NoService == [service |-> "missing"]
NoServicePort == [service |-> "port missing"]
Services == Targets \cup {NoService, NoServicePort}

\* Where a redirect is: nftables has a rule for traffic from outside and one
\* for that of the node itself, in the first and the last transaction of a call
\* (those between them masquerade and accept); pure-go has one listener.
Hooks == IF Backend = "nftables" THEN {"PREROUTING", "OUTPUT"} ELSE {"listener"}
Redirects(q, t) == {q} \X {t} \X Hooks
AtHook(hook, redirects) == {r \in redirects : r[3] = hook}

\* The chains that an Add has to find: none, the first of them only, or all.
ChainStates == {"none", "first", "all"}
NoChains == IF Backend = "nftables" THEN "none" ELSE "all"

States == {"Ready", "Conflict", "Rejected", "Residual", "Failed", "NoTarget"}
Entry(q, t, s) == [port |-> q, target |-> t, state |-> s]
Entries == [port : Ports \cup {NamedPort}, target : Targets \cup {NoTarget}, state : States]

\* What a reconcile still has to ask of the forwarder: ports to keep, then
\* those to remove, then those to add; at is the place in the list.
Op(verb, at, e) == [verb |-> verb, at |-> at, entry |-> e]
Ops == [verb : {"remove"}, at : Nat, entry : Entries]
         \cup [verb : {"keep", "add"}, at : Nat, entry : [port : Ports, target : Targets, state : States]]
Rank(o) == CASE o.verb = "keep" -> 1 [] o.verb = "remove" -> 2 [] o.verb = "add" -> 3
Before(x, o) == Rank(x) < Rank(o) \/ (Rank(x) = Rank(o) /\ x.at < o.at)
Foremost(todo) == {o \in todo : \A x \in todo : ~Before(x, o)}

Absent == [exists |-> FALSE]
Object == [exists : {TRUE}, gen : 0..MaxEdits, deleting : BOOLEAN, finalizer : BOOLEAN,
           spec : Specs, status : [Nodes -> Seq(Entries)]]

VARIABLES
  obj,      \* API server: the PortForwarding objects
  svc,      \* API server: what the Service of each object resolves to
  cache,    \* per node: the informer's copy of the objects
  queue,    \* per node: names waiting in the work queue
  work,     \* per node: the reconcile in progress
  listens,  \* per node: the guard's keys
  active,   \* per node: redirects in force, <<port, target, hook>>
  started,  \* per node: once.Do(start) has run
  chains,   \* per node: which of the hooks have their KERTICAL chain
  torn,     \* history, per node: keys with a removal that failed half way
  stray,    \* history, per node: redirects in force when a removal answered
            \* that their port is not forwarded
  edits, faults, crashes,  \* how much of each bound is used
  unguarded, \* history: names ever deleted without the finalizer
  lost,      \* history: names whose status lost track of a redirect
  contested  \* history: ports asked for while another object had an entry of them

api  == <<obj, svc>>
fwd  == <<listens, active, started, chains, torn, stray>>
history == <<unguarded, lost, contested>>
vars == <<obj, svc, cache, queue, work, listens, active, started, chains, torn, stray,
          edits, faults, crashes, unguarded, lost, contested>>

Idle == [pc |-> "idle"]
\* ports: the entries for the new status; freed: what this pass removed.
Task(pc, p, inst) ==
  [pc |-> pc, pf |-> p, inst |-> inst, ports |-> <<>>, todo |-> {}, freed |-> {}]
Tasks == [pc : {"finalizer", "sync", "forward", "remove", "withdraw", "patch", "patch-release", "release"},
          pf : PFs, inst : Object, ports : Seq(Entries), todo : SUBSET Ops, freed : SUBSET Ports]

TypeOK ==
  /\ obj \in [PFs -> Object \cup {Absent}]
  /\ svc \in [PFs -> Services]
  /\ cache \in [Nodes -> [PFs -> Object \cup {Absent}]]
  /\ queue \in [Nodes -> SUBSET PFs]
  /\ DOMAIN work = Nodes /\ \A n \in Nodes : work[n] = Idle \/ work[n] \in Tasks
  /\ listens \in [Nodes -> SUBSET Ports]
  /\ active \in [Nodes -> SUBSET (Ports \X Targets \X Hooks)]
  /\ started \in [Nodes -> BOOLEAN] /\ chains \in [Nodes -> ChainStates]
  /\ torn \in [Nodes -> SUBSET Ports] /\ stray \in [Nodes -> SUBSET (Ports \X Targets \X Hooks)]
  /\ edits \in 0..MaxEdits /\ faults \in 0..MaxFaults /\ crashes \in 0..MaxCrashes
  /\ unguarded \subseteq PFs /\ lost \subseteq PFs /\ contested \subseteq Ports

Init ==
  /\ obj = [p \in PFs |-> Absent] /\ svc \in [PFs -> Targets]
  /\ cache = [n \in Nodes |-> obj]
  /\ queue = [n \in Nodes |-> {}] /\ work = [n \in Nodes |-> Idle]
  /\ listens = [n \in Nodes |-> {}] /\ active = [n \in Nodes |-> {}]
  /\ started = [n \in Nodes |-> FALSE] /\ chains = [n \in Nodes |-> NoChains]
  /\ torn = [n \in Nodes |-> {}] /\ stray = [n \in Nodes |-> {}]
  /\ edits = 0 /\ faults = 0 /\ crashes = 0
  /\ unguarded = {} /\ lost = {} /\ contested = {}

-----------------------------------------------------------------------------
(* SyncForwardingPorts: the ports to add, to delete, and to leave alone.   *)

\* forwardedPorts: entries indexed by port number alone; the last one wins.
Recorded(entries) ==
  {entries[i] : i \in {j \in 1..Len(entries) :
                        \A k \in j + 1..Len(entries) : entries[k].port.num # entries[j].port.num}}

\* The entry that spec element i finds: an earlier element takes it away.
Found(spec, entries, i) ==
  {e \in Recorded(entries) : e.port.num = spec[i].num /\ \A j \in 1..i-1 : spec[j].num # spec[i].num}

Same(e, q, t) == e.port = q /\ e.target.hosts = t.hosts

\* Mutant: the entries that no spec element took are not deleted.
SyncForgettingTheRest(spec, entries, service) ==
  IF service = NoServicePort THEN {Op("remove", 0, e) : e \in Recorded(entries)}
  ELSE LET found(i) == Found(spec, entries, i)
           kept(i)  == {e \in found(i) : Same(e, spec[i], service)}
       IN (UNION {{Op("keep", i, e) : e \in kept(i)} : i \in 1..Len(spec)})
            \cup (UNION {{Op("remove", 0, e) : e \in found(i) \ kept(i)} : i \in 1..Len(spec)})
            \cup {Op("add", i, Entry(spec[i], service, "Ready")) : i \in {j \in 1..Len(spec) : kept(j) = {}}}

\* Deletions come out of a map, in any order.
SyncForwardingPorts(spec, entries, service) ==
  IF service = NoServicePort THEN {Op("remove", 0, e) : e \in Recorded(entries)}
  ELSE LET kept(i) == {e \in Found(spec, entries, i) : Same(e, spec[i], service)}
           rest    == Recorded(entries) \ UNION {kept(i) : i \in 1..Len(spec)}
       IN (UNION {{Op("keep", i, e) : e \in kept(i)} : i \in 1..Len(spec)})
            \cup {Op("remove", 0, e) : e \in rest}
            \cup {Op("add", i, Entry(spec[i], service, "Ready")) : i \in {j \in 1..Len(spec) : kept(j) = {}}}

\* The errors it returns: an entry for every element of the spec.
Unresolved(spec, service) ==
  IF service = NoServicePort THEN [i \in 1..Len(spec) |-> Entry(NamedPort, NoTarget, "Failed")] ELSE <<>>

-----------------------------------------------------------------------------
(* The forwarder of a node, f = [listens, active, started, chains, torn,   *)
(* stray], and the result of a call.  trouble is what goes wrong: the      *)
(* port is found in use, or the call fails before it changes anything      *)
(* ("probe"), or a transaction fails, the first one or a later one, of     *)
(* Close and of structure() in start(), or of the rules.                   *)

\* pure-go has nothing to start.
Started(f) == Backend = "pure-go" \/ f.started

AddTroubles(f) ==
  {"none", "busy", "probe"}
    \cup (IF Backend = "nftables" THEN {"first", "later"} ELSE {})
    \cup (IF Started(f) THEN {} ELSE {"clean", "cleaning", "structure", "structuring"})
RemoveTroubles == IF Backend = "nftables" THEN {"none", "first", "later"} ELSE {"none"}

\* What is left in force after a step that withdraws redirects.
Leaving(f, rest) == [f EXCEPT !.active = rest, !.stray = @ \cap rest]

\* start(): Close takes the chains away, hook by hook, with the rules in them,
\* and structure() makes them anew; once.Do does not run it again if it fails.
Start(f, trouble) ==
  LET g == [f EXCEPT !.started = TRUE, !.result = "failed"]
  IN CASE trouble = "clean"       -> g
       [] trouble = "cleaning"    -> [Leaving(g, AtHook("OUTPUT", f.active)) EXCEPT !.chains = "none"]
       [] trouble = "structure"   -> [Leaving(g, {}) EXCEPT !.chains = "none"]
       [] trouble = "structuring" -> [Leaving(g, {}) EXCEPT !.chains = "first"]
       [] OTHER                   -> [Leaving(g, {}) EXCEPT !.chains = "all", !.result = "ok"]

\* The rules of a forwarding, one transaction for each hook.  Without a chain
\* to put it into the rule is refused.
Present(f, q, t, trouble) ==
  IF f.chains = "none" \/ trouble = "first" THEN [f EXCEPT !.result = "failed"]
  ELSE IF f.chains = "first" \/ trouble = "later"
    THEN [f EXCEPT !.active = @ \cup AtHook("PREROUTING", Redirects(q, t)), !.result = "failed"]
  ELSE [f EXCEPT !.listens = @ \cup {q}, !.active = @ \cup Redirects(q, t),
                 !.stray = @ \ Redirects(q, t), !.result = "ok"]

AddForwarding(f, q, t, trouble) ==
  IF q \in f.listens THEN [f EXCEPT !.result = "AlreadyForwarded"]
  ELSE IF trouble = "busy" THEN [f EXCEPT !.result = "AlreadyInuse"]
  ELSE IF trouble = "probe" THEN [f EXCEPT !.result = "failed"]
  ELSE LET g == IF Started(f) THEN [f EXCEPT !.result = "ok"] ELSE Start(f, trouble)
       IN IF g.result = "ok" THEN Present(g, q, t, trouble) ELSE g

\* Mutant: the guard forgets the port and the redirect stays.
RemoveFromBooks(f, q, t, trouble) ==
  IF q \notin f.listens THEN [f EXCEPT !.result = "NotForwarded"]
  ELSE [f EXCEPT !.listens = @ \ {q}, !.result = "ok"]

\* nftables deletes the rules that match the target, hook by hook; pure-go
\* cancels the listener of the port, whatever its target.
RemoveForwarding(f, q, t, trouble) ==
  IF q \notin f.listens
    THEN [f EXCEPT !.result = "NotForwarded", !.stray = @ \cup (f.active \cap Redirects(q, t))]
  ELSE IF trouble = "first" THEN [f EXCEPT !.result = "failed"]
  ELSE IF trouble = "later"
    THEN [Leaving(f, f.active \ AtHook("PREROUTING", Redirects(q, t)))
            EXCEPT !.torn = @ \cup {q}, !.result = "failed"]
  ELSE [Leaving(f, IF Backend = "nftables" THEN f.active \ Redirects(q, t)
                   ELSE {r \in f.active : r[1] # q})
          EXCEPT !.listens = @ \ {q}, !.torn = @ \ {q}, !.result = "ok"]

Forwarder(n) ==
  [listens |-> listens[n], active |-> active[n], started |-> started[n], chains |-> chains[n],
   torn |-> torn[n], stray |-> stray[n], result |-> "ok"]

\* slices.SortFunc by source port: an entry comes after those of its number.
Inserted(entries, e) ==
  InsertAt(entries, 1 + Cardinality({i \in 1..Len(entries) : entries[i].port.num <= e.port.num}), e)

\* Mutant: a port that is already forwarded is left out of the new status.
SyncUnchangedUnlisted(f, out, e, trouble) ==
  LET g == AddForwarding(f, e.port, e.target, trouble)
  IN [f |-> g, out |-> IF g.result = "ok" THEN Inserted(out, [e EXCEPT !.state = "Ready"]) ELSE out]

\* Mutant: an unchanged entry is taken for granted.
SyncUnchangedTrusted(f, out, e, trouble) == [f |-> f, out |-> Inserted(out, e)]

\* The bodies of the loops of syncPortForwarding: the forwarder after the call
\* for an entry, and the entries for the new status.
SyncUnchanged(f, out, e, trouble) ==
  LET g == AddForwarding(f, e.port, e.target, trouble)
      s == CASE g.result = "ok" -> "Ready"
             [] g.result = "AlreadyForwarded" -> e.state
             [] OTHER -> "Failed"
  IN [f |-> g, out |-> Inserted(out, [e EXCEPT !.state = s])]

SyncDeletion(f, out, e, trouble) ==
  IF e.port.num = 0 THEN [f |-> f, out |-> out]
  ELSE LET g == RemoveForwarding(f, e.port, e.target, trouble)
       IN [f |-> g, out |-> IF g.result = "failed" THEN Inserted(out, [e EXCEPT !.state = "Residual"]) ELSE out]

\* Mutant: an error of the backend is not looked at.
SyncAdditionOptimistic(f, out, e, trouble) ==
  LET g == AddForwarding(f, e.port, e.target, trouble)
      s == CASE g.result = "AlreadyForwarded" -> "Conflict"
             [] g.result = "AlreadyInuse" -> "Rejected"
             [] OTHER -> "Ready"
  IN [f |-> g, out |-> Inserted(out, [e EXCEPT !.state = s])]

SyncAddition(f, out, e, trouble) ==
  LET g == AddForwarding(f, e.port, e.target, trouble)
      s == CASE g.result = "ok" -> "Ready"
             [] g.result = "AlreadyForwarded" -> "Conflict"
             [] g.result = "AlreadyInuse" -> "Rejected"
             [] OTHER -> "Failed"
  IN [f |-> g, out |-> Inserted(out, [e EXCEPT !.state = s])]

\* Mutant: the entries of a missing Service get a state of no other entry.
UnknownEntry(e) == Entry(e.port, NoTarget, "Unknown")

NoTargetEntry(e) == Entry(e.port, NoTarget, "NoTarget")

-----------------------------------------------------------------------------
(* Users and the API server.                                               *)

Edit == edits < MaxEdits /\ edits' = edits + 1
Unedited == UNCHANGED <<cache, work, fwd, faults, crashes>>

Create(p, s) ==
  /\ Edit /\ obj[p] = Absent
  /\ obj' = [obj EXCEPT ![p] = [exists |-> TRUE, gen |-> edits', deleting |-> FALSE,
                                finalizer |-> FALSE, spec |-> s,
                                status |-> [n \in Nodes |-> <<>>]]]
  /\ Unedited /\ UNCHANGED <<svc, queue, history>>

Update(p, s) ==
  /\ Edit /\ obj[p].exists /\ ~obj[p].deleting /\ obj[p].spec # s
  /\ obj' = [obj EXCEPT ![p].spec = s, ![p].gen = edits']
  /\ Unedited /\ UNCHANGED <<svc, queue, history>>

\* With a finalizer the object stays, marked; without one it is gone.
Delete(p) ==
  /\ Edit /\ obj[p].exists /\ ~obj[p].deleting
  /\ IF obj[p].finalizer
       THEN /\ obj' = [obj EXCEPT ![p].deleting = TRUE, ![p].gen = edits']
            /\ UNCHANGED unguarded
       ELSE /\ obj' = [obj EXCEPT ![p] = Absent]
            /\ unguarded' = unguarded \cup {p}
  /\ Unedited /\ UNCHANGED <<svc, queue, lost, contested>>

\* Mutant: the controller does not watch the Services.
ChangeServiceUnwatched(p, v) ==
  /\ Edit /\ svc[p] # v
  /\ svc' = [svc EXCEPT ![p] = v]
  /\ Unedited /\ UNCHANGED <<obj, queue, history>>

\* The Service or its EndpointSlices change; every node gets the event and
\* queues the objects it knows that refer to the Service.
ChangeService(p, v) ==
  /\ Edit /\ svc[p] # v
  /\ svc' = [svc EXCEPT ![p] = v]
  /\ queue' = [n \in Nodes |-> IF cache[n][p].exists THEN queue[n] \cup {p} ELSE queue[n]]
  /\ Unedited /\ UNCHANGED <<obj, history>>

\* The informer of node n sees the latest version of an object; the
\* GenerationChangedPredicate drops events of the same generation.
Refresh(n, p) ==
  /\ cache[n][p] # obj[p]
  /\ cache' = [cache EXCEPT ![n][p] = obj[p]]
  /\ queue' = IF cache[n][p].exists /\ obj[p].exists /\ cache[n][p].gen = obj[p].gen
                THEN queue ELSE [queue EXCEPT ![n] = @ \cup {p}]
  /\ UNCHANGED <<api, work, fwd, edits, faults, crashes, history>>

-----------------------------------------------------------------------------
(* The reconciler of node n.                                               *)

Goto(n, task) == work' = [work EXCEPT ![n] = task]

\* Return an error, or Requeue: the key goes back to the queue.
Requeue(n) == Goto(n, Idle) /\ queue' = [queue EXCEPT ![n] = @ \cup {work[n].pf}]

At_(n, pc) == work[n].pc = pc
Fresh(n) == cache[n][work[n].pf] = obj[work[n].pf]

Begin(n, p) ==
  /\ work[n] = Idle /\ p \in queue[n]
  /\ CacheLag \/ cache[n][p] = obj[p]
  /\ queue' = [queue EXCEPT ![n] = @ \ {p}]
  /\ LET inst == cache[n][p]
     IN CASE ~inst.exists -> Goto(n, Idle)
          [] inst.exists /\ ~inst.deleting -> Goto(n, Task("finalizer", p, inst))
          [] inst.exists /\ inst.deleting ->
               Goto(n, IF inst.finalizer THEN Task("remove", p, inst) ELSE Idle)
  /\ UNCHANGED <<api, cache, fwd, edits, faults, crashes, history>>

\* AddFinalizer: nothing to do, also when the object is gone or is being
\* deleted; or the update succeeds; or it conflicts until the retries end.
AddFinalizer(n) ==
  /\ At_(n, "finalizer")
  /\ LET p == work[n].pf
         latest == cache[n][p]
         needed == latest.exists /\ ~latest.deleting /\ ~latest.finalizer
     IN \/ ~needed /\ Goto(n, [work[n] EXCEPT !.pc = "sync"]) /\ UNCHANGED <<obj, queue>>
        \/ /\ needed /\ Fresh(n)
           /\ obj' = [obj EXCEPT ![p].finalizer = TRUE]
           /\ Goto(n, [work[n] EXCEPT !.pc = "sync"]) /\ UNCHANGED queue
        \/ needed /\ CacheLag /\ ~Fresh(n) /\ Requeue(n) /\ UNCHANGED obj
  /\ UNCHANGED <<svc, cache, fwd, edits, faults, crashes, history>>

\* What may go wrong with a port.  A pure-go listener closes some time after
\* its removal, so a port added again may still be found in use.
Faulty(trouble, lingers) ==
  IF trouble = "none" \/ (trouble = "busy" /\ lingers) THEN UNCHANGED faults
  ELSE faults < MaxFaults /\ faults' = faults + 1

SetForwarder(n, f) ==
  /\ listens' = [listens EXCEPT ![n] = f.listens]
  /\ active' = [active EXCEPT ![n] = f.active]
  /\ started' = [started EXCEPT ![n] = f.started]
  /\ chains' = [chains EXCEPT ![n] = f.chains]
  /\ torn' = [torn EXCEPT ![n] = f.torn]
  /\ stray' = [stray EXCEPT ![n] = f.stray]

EntriesOf(n, p) == IF obj[p].exists THEN Range(obj[p].status[n]) ELSE {}

\* Other objects have an entry of port q on node n.
Shared(n, p, q) == \E o \in PFs \ {p} : \E e \in EntriesOf(n, o) : e.port = q

\* syncPortForwarding, up to the loops.
Sync(n) ==
  /\ At_(n, "sync") /\ svc[work[n].pf] # NoService
  /\ LET inst == work[n].inst
         todo == SyncForwardingPorts(inst.spec, inst.status[n], svc[work[n].pf])
     IN Goto(n, [work[n] EXCEPT !.pc = IF todo = {} THEN "patch" ELSE "forward", !.todo = todo,
                                !.ports = Unresolved(inst.spec, svc[work[n].pf])])
  /\ UNCHANGED <<api, cache, queue, fwd, edits, faults, crashes, history>>

\* One turn of its loops.
Forward(n) ==
  /\ At_(n, "forward")
  /\ \E o \in Foremost(work[n].todo) :
     \E trouble \in IF o.verb = "remove" THEN RemoveTroubles ELSE AddTroubles(Forwarder(n)) :
       LET w    == work[n]
           e    == o.entry
           done == CASE o.verb = "keep"   -> SyncUnchanged(Forwarder(n), w.ports, e, trouble)
                     [] o.verb = "remove" -> SyncDeletion(Forwarder(n), w.ports, e, trouble)
                     [] o.verb = "add"    -> SyncAddition(Forwarder(n), w.ports, e, trouble)
           todo == w.todo \ {o}
       IN /\ Faulty(trouble, e.port \in w.freed)
          /\ SetForwarder(n, done.f)
          /\ Goto(n, [w EXCEPT !.pc = IF todo = {} THEN "patch" ELSE @, !.todo = todo, !.ports = done.out,
                               !.freed = IF todo = {} THEN {}
                                         ELSE IF Backend = "pure-go" /\ o.verb = "remove" /\ e.port \in Ports
                                              THEN @ \cup {e.port} ELSE @])
          /\ contested' = IF Shared(n, w.pf, e.port) THEN contested \cup ({e.port} \cap Ports) ELSE contested
  /\ UNCHANGED <<api, cache, queue, edits, crashes, unguarded, lost>>

\* removePortForwarding: for an object under deletion, or with the reason
\* NoTarget when the Service is gone.  Nothing is patched when this node has
\* no entries.
Withdrawn(deleting) == IF deleting THEN "patch-release" ELSE "patch"

RemovePorts(n) ==
  /\ At_(n, "remove") \/ (At_(n, "sync") /\ svc[work[n].pf] = NoService)
  /\ LET entries == work[n].inst.status[n]
         deleting == work[n].inst.deleting
         todo == {Op("remove", i, entries[i]) : i \in {j \in 1..Len(entries) : entries[j].port.num # 0}}
     IN Goto(n, IF entries = <<>> THEN IF deleting THEN [work[n] EXCEPT !.pc = "release"] ELSE Idle
                ELSE [work[n] EXCEPT !.pc = IF todo = {} THEN Withdrawn(deleting) ELSE "withdraw",
                                     !.todo = todo])
  /\ UNCHANGED <<api, cache, queue, fwd, edits, faults, crashes, history>>

\* One turn of its loop, which a failure ends.
Withdraw(n) ==
  /\ At_(n, "withdraw")
  /\ \E o \in Foremost(work[n].todo), trouble \in RemoveTroubles :
       LET w    == work[n]
           f    == RemoveForwarding(Forwarder(n), o.entry.port, o.entry.target, trouble)
           todo == w.todo \ {o}
       IN /\ Faulty(trouble, FALSE)
          /\ SetForwarder(n, f)
          /\ IF f.result = "failed" THEN Requeue(n)
             ELSE /\ UNCHANGED queue
                  /\ Goto(n, [w EXCEPT !.pc = IF todo = {} THEN Withdrawn(w.inst.deleting) ELSE @,
                                       !.todo = todo,
                                       !.ports = IF w.inst.deleting THEN @ ELSE Append(@, NoTargetEntry(o.entry))])
  /\ UNCHANGED <<api, cache, edits, crashes, history>>

\* The outcome of a sync is not recorded, replaces entries that the sync did
\* not see, or has two entries of one port number.
Forgotten(n) == lost' = IF work[n].pc \in {"forward", "patch"} THEN lost \cup {work[n].pf} ELSE lost
Recording(n, p) ==
  lost' = IF obj[p].status[n] = work[n].inst.status[n] /\ Recorded(work[n].ports) = Range(work[n].ports)
            THEN lost ELSE lost \cup {p}

\* PatchNodeForwardedStatus: the entries of this node are replaced in the
\* latest version; or the object is gone, or the conflicts do not end.
Patch(n) ==
  /\ At_(n, "patch") \/ At_(n, "patch-release")
  /\ LET p == work[n].pf
     IN \/ /\ Fresh(n) /\ obj[p].exists
           /\ obj' = [obj EXCEPT ![p].status[n] = work[n].ports]
           /\ Goto(n, IF At_(n, "patch") THEN Idle ELSE [work[n] EXCEPT !.pc = "release"])
           /\ Recording(n, p) /\ UNCHANGED queue
        \/ /\ (CacheLag /\ ~Fresh(n)) \/ ~cache[n][p].exists
           /\ Requeue(n)
           /\ Forgotten(n) /\ UNCHANGED obj
  /\ UNCHANGED <<svc, cache, fwd, edits, faults, crashes, unguarded, contested>>

\* RemoveFinalizer: the latest version is read again, but the entries that
\* decide are those of the version the reconcile began with.
NodesCleared(inst) == \A m \in Nodes : inst.status[m] = <<>>

\* Mutant: the object is not queued again while other nodes clean up.
ReleaseOnce(n) ==
  /\ At_(n, "release")
  /\ LET p == work[n].pf
         latest == cache[n][p]
         needed == latest.exists /\ latest.deleting /\ latest.finalizer
     IN \/ ~needed /\ Goto(n, Idle) /\ UNCHANGED <<obj, queue, lost>>
        \/ needed /\ ~NodesCleared(work[n].inst) /\ Goto(n, Idle) /\ UNCHANGED <<obj, queue, lost>>
        \/ /\ needed /\ NodesCleared(work[n].inst) /\ Fresh(n)
           /\ obj' = [obj EXCEPT ![p] = Absent]
           /\ lost' = IF NodesCleared(obj[p]) THEN lost ELSE lost \cup {p}
           /\ Goto(n, Idle) /\ UNCHANGED queue
        \/ /\ needed /\ NodesCleared(work[n].inst) /\ CacheLag /\ ~Fresh(n)
           /\ Requeue(n) /\ UNCHANGED <<obj, lost>>
  /\ UNCHANGED <<svc, cache, fwd, edits, faults, crashes, unguarded, contested>>

\* What nodes have entries for then is recorded nowhere.
Release(n) ==
  /\ At_(n, "release")
  /\ LET p == work[n].pf
         latest == cache[n][p]
         needed == latest.exists /\ latest.deleting /\ latest.finalizer
     IN \/ ~needed /\ Goto(n, Idle) /\ UNCHANGED <<obj, queue, lost>>
        \/ needed /\ ~NodesCleared(work[n].inst) /\ Requeue(n) /\ UNCHANGED <<obj, lost>>
        \/ /\ needed /\ NodesCleared(work[n].inst) /\ Fresh(n)
           /\ obj' = [obj EXCEPT ![p] = Absent]
           /\ lost' = IF NodesCleared(obj[p]) THEN lost ELSE lost \cup {p}
           /\ Goto(n, Idle) /\ UNCHANGED queue
        \/ /\ needed /\ NodesCleared(work[n].inst) /\ CacheLag /\ ~Fresh(n)
           /\ Requeue(n) /\ UNCHANGED <<obj, lost>>
  /\ UNCHANGED <<svc, cache, fwd, edits, faults, crashes, unguarded, contested>>

\* The controller of node n restarts: its lists start over with a Create
\* event for every object; kernel rules stay, pure-go listeners do not.
Crash(n) ==
  /\ crashes < MaxCrashes /\ crashes' = crashes + 1
  /\ listens' = [listens EXCEPT ![n] = {}]
  /\ active' = [active EXCEPT ![n] = IF Backend = "nftables" THEN @ ELSE {}]
  /\ stray' = [stray EXCEPT ![n] = IF Backend = "nftables" THEN @ ELSE {}]
  /\ started' = [started EXCEPT ![n] = FALSE] /\ torn' = [torn EXCEPT ![n] = {}]
  /\ Goto(n, Idle) /\ Forgotten(n)
  /\ cache' = [cache EXCEPT ![n] = obj]
  /\ queue' = [queue EXCEPT ![n] = {p \in PFs : obj[p].exists}]
  /\ UNCHANGED <<api, chains, edits, faults, unguarded, contested>>

-----------------------------------------------------------------------------
Reconcile(n) ==
  \/ \E p \in PFs : Begin(n, p)
  \/ AddFinalizer(n) \/ Sync(n) \/ Forward(n) \/ RemovePorts(n) \/ Withdraw(n) \/ Patch(n) \/ Release(n)

User == \/ \E p \in PFs, s \in Specs : Create(p, s) \/ Update(p, s)
        \/ \E p \in PFs : Delete(p)
        \/ \E p \in PFs, v \in Services : ChangeService(p, v)

Next == \/ User
        \/ \E n \in Nodes : Crash(n) \/ Reconcile(n)
        \/ \E n \in Nodes, p \in PFs : Refresh(n, p)

Spec == Init /\ [][Next]_vars

\* The informers deliver, and the workers take what is queued.  WorkerRuns(n)
\* is weak fairness of Reconcile(n) with its ENABLED spelled out, which TLC
\* evaluates faster: the node is idle again and again, or takes a step.
ReconcileStep(n) ==
  /\ work'[n] # work[n] \/ (queue'[n] # queue[n] /\ queue'[n] \subseteq queue[n])
  /\ crashes' = crashes
WorkerRuns(n) == []<>(work[n] = Idle /\ queue[n] = {}) \/ []<><<ReconcileStep(n)>>_vars

FairSpec == /\ Spec
            /\ \A n \in Nodes : WorkerRuns(n)
            /\ \A n \in Nodes, p \in PFs : WF_vars(Refresh(n, p))

-----------------------------------------------------------------------------
(* Properties.                                                             *)

\* Node n has nothing left to do for the object p.
Settled(n, p) == work[n] = Idle /\ p \notin queue[n] /\ cache[n][p] = obj[p]

(* When no object is there, and none ever left without the finalizer, the  *)
(* settled nodes redirect nothing: removePortForwarding finds every        *)
(* redirect through the status entries that the syncs kept.  What a sync   *)
(* did is lost when its patch is given up or replaces entries the sync has *)
(* not seen, when the process ends before the patch, and when two entries  *)
(* have the same port number.  A redirect is stray when the guard answered *)
(* its removal with ErrPortNotForwarded and the entry was dropped all the  *)
(* same: an Add that failed half way or the process before a restart left  *)
(* it in the kernel, or another object, in Conflict for the port, took the *)
(* key from the guard when it left.                                        *)
CleanAfterGuardedDelete ==
  unguarded \cup lost = {} /\ (\A p \in PFs : obj[p] = Absent)
     => \A n \in Nodes : (\A p \in PFs : Settled(n, p)) => active[n] \subseteq stray[n]

(* Every redirect of a settled node has an entry with its port and target  *)
(* in the status, what failing calls left half done included, until a      *)
(* removal of the port is answered with ErrPortNotForwarded (stray): what  *)
(* is not recorded is never removed.                                       *)
ActiveIsRecorded ==
  \A n \in Nodes :
    (\A p \in PFs : Settled(n, p) /\ p \notin unguarded \cup lost)
      => \A r \in active[n] \ stray[n] :
           \E p \in PFs : \E e \in EntriesOf(n, p) : e.port = r[1] /\ e.target = r[2]

(* What a settled node reports as Ready is redirected, at every hook, to   *)
(* the target that the entry names, also after restarts, failed calls, and *)
(* starts of the backend that wipe the table.  A removal that failed half  *)
(* way leaves the port in the guard without its redirects, and a sync that *)
(* finds the entry unchanged keeps it Ready (torn).  A port for which two  *)
(* objects have had entries is withdrawn when either of them gives it up.  *)
(* A stray redirect of the same port may come before it in the chain.      *)
ReadyIsActive ==
  \A n \in Nodes, p \in PFs :
    Settled(n, p) => \A e \in EntriesOf(n, p) :
      e.state = "Ready" /\ e.port \notin contested \cup torn[n]
        => Redirects(e.port, e.target) \subseteq active[n]

\* Node n removes the finalizer of p in this step.
Releases(n, p) == At_(n, "release") /\ work[n].pf = p /\ obj[p].exists /\ obj'[p] = Absent

(* When the finalizer goes, every node without entries in the object has   *)
(* removed its redirects and keeps those of other objects, also after      *)
(* restarts and from stale caches, unless a status lost some, they are     *)
(* stray, or the node is between its sync and its patch.  What nodes with  *)
(* entries keep is another matter: ReleasedWhenAllCleared.                 *)
ReleasedNodesAreClean ==
  [][\A n, m \in Nodes, p \in PFs :
       /\ Releases(n, p) /\ unguarded \cup lost = {} /\ obj[p].status[m] = <<>>
       /\ ~At_(m, "forward") /\ ~At_(m, "patch")
       => \A r \in active[m] \ stray[m] :
            \E o \in PFs \ {p} : \E e \in EntriesOf(m, o) : e.port = r[1] /\ e.target = r[2]]_vars

\* What the objects and their Services ask node n to redirect.
Desired ==
  UNION {UNION {Redirects(obj[p].spec[i], svc[p]) : i \in 1..Len(obj[p].spec)} :
         p \in {x \in PFs : obj[x].exists /\ ~obj[x].deleting /\ svc[x] \in Targets}}

(* Once users stop, every node redirects the ports that the objects ask    *)
(* for to the hosts of their Services and redirects nothing else, unless   *)
(* an object left before the finalizer was added.  A change of the target  *)
(* port alone is not followed, so the redirects are compared by hosts.  It *)
(* is said of processes that neither crash nor meet a failing call: a      *)
(* restart may keep rules that nothing removes.                            *)
HostsOf(redirects) == {<<r[1], r[2].hosts, r[3]>> : r \in redirects}
Converges ==
  \/ <>(unguarded # {} \/ faults + crashes > 0)
  \/ <>[](\A n \in Nodes : /\ HostsOf(active[n]) = HostsOf(Desired)
                          /\ Cardinality(active[n]) = Cardinality(HostsOf(active[n])))

(* A deleted object goes: every node releases what it recorded, also when  *)
(* it restarted or read a stale cache before.                              *)
DeletionCompletes ==
  \A p \in PFs : (obj[p].exists /\ obj[p].deleting) ~> (obj[p] = Absent)

(* What a comment of the code says and the code does not do.               *)

(* finalizer.go:65, "Only remove the finalizer if all forwarded ports are  *)
(* cleaned up by checking if any node still has active forwarded ports".   *)
ReleasedWhenAllCleared ==
  [][\A n, m \in Nodes, p \in PFs : Releases(n, p) => obj[p].status[m] = <<>>]_vars
=============================================================================
