----------------------------- MODULE ExternalProxy -----------------------------
(***************************************************************************)
(* The ExternalProxy controller for one ExternalProxy: it keeps a Service, *)
(* the EndpointSlices of that Service and an Ingress.  Children are listed *)
(* from informer caches that lag behind the API server; expectations keep  *)
(* the controller from acting again before a cache shows its last act.     *)
(*                                                                         *)
(* A reconcile runs check, sync and check, sync and check, sync for the    *)
(* three kinds of child.  A sync is planned from the caches and carried    *)
(* out one call at a time; events are delivered between any two steps.     *)
(***************************************************************************)
EXTENDS Naturals, FiniteSets, Sequences, SequencesExt, Expectations

CONSTANTS Specs,       \* [svc, backends, ing]: values of the proxy's spec
          NoIngress,   \* spec.ingress is nil
          MaxEdits,    \* bound on changes users make to the proxy
          MaxDeletes,  \* how many of them may delete it
          MaxErrors,   \* bound on API calls that fail
          LostReplies, \* TRUE: a call that fails may have taken effect
          MaxCrashes,  \* bound on restarts of the controller
          MaxPending,  \* how many events of a kind may be on their way
          MaxUid       \* how many uids may be given out

ASSUME BoundsAssumption == /\ MaxEdits \in Nat /\ MaxDeletes \in Nat /\ MaxErrors \in Nat
                           /\ MaxCrashes \in Nat /\ MaxPending \in Nat \ {0} /\ MaxUid \in Nat
ASSUME RepliesAssumption == LostReplies \in BOOLEAN
\* A Service has a name, as the defaults see to; an Ingress may be left out.
ASSUME SpecsAssumption == \A s \in Specs : s.backends \in Nat /\ s.svc # NoIngress

Kinds == {"services", "slices", "ingresses"}
SliceName(svc, i) == <<svc, i>>
Names(k) == CASE k = "services" -> {s.svc : s \in Specs}
              [] k = "slices" -> UNION {{SliceName(s.svc, i) : i \in 1..s.backends} : s \in Specs}
              [] k = "ingresses" -> {s.ing : s \in Specs} \ {NoIngress}

\* An object: its name, the uid of its controller, the generation of the
\* proxy it was made from (the revision annotation), and its own uid.
Child(name, owner, rev, uid) == [name |-> name, owner |-> owner, rev |-> rev, uid |-> uid]

Absent == [exists |-> FALSE]
Proxy(uid, gen, spec, ready, observed) ==
  [exists |-> TRUE, uid |-> uid, gen |-> gen, spec |-> spec, ready |-> ready, observed |-> observed]

VARIABLES
  proxy,   \* API server: the ExternalProxy
  api,     \* API server: the children, by kind
  events,  \* by kind: watch events on their way to the informer
  cache,   \* by kind: the informer's objects
  seen,    \* the informer's copy of the proxy
  exp,     \* by kind: the expectations for this proxy
  queued,  \* the key of the proxy waits in the work queue
  work,    \* the reconcile in progress
  uids,    \* the last uid given out
  edits, deletes, errors, crashes  \* how much of each bound is used

children == <<api, events>>
bounds   == <<edits, deletes, errors, crashes>>
vars     == <<proxy, api, events, cache, seen, exp, queued, work, uids, bounds>>

Idle == [pc |-> "idle"]

\* Only a Service has a uid that matters: its EndpointSlices belong to it.
Children(k) == [name : Names(k), owner : 1..MaxUid, rev : 1..MaxEdits,
                uid : IF k = "services" THEN 1..MaxUid ELSE {0}]
Events(k) == [type : {"Create", "Update", "Delete"}, obj : Children(k)]
Proxies == [exists : {TRUE}, uid : 1..MaxUid, gen : 1..MaxEdits, spec : Specs,
            ready : BOOLEAN, observed : 0..MaxEdits] \cup {Absent}
Ops(k) == [verb : {"create"}, obj : [name : Names(k), owner : 1..MaxUid, rev : 1..MaxEdits, uid : {0}]]
            \cup [verb : {"update"}, old : Children(k), obj : Children(k)]
            \cup [verb : {"delete"}, obj : Children(k)]
Reconciles(k) == [pc : {"check", "sync", "intend", "call", "status", "ready"}, kind : {k},
                  inst : Proxies \ {Absent}, todo : Seq(Ops(k))]

TypeOK ==
  /\ proxy \in Proxies /\ seen \in Proxies
  /\ DOMAIN api = Kinds /\ DOMAIN events = Kinds /\ DOMAIN cache = Kinds /\ DOMAIN exp = Kinds
  /\ \A k \in Kinds :
       /\ api[k] \subseteq Children(k) /\ cache[k] \subseteq Children(k)
       /\ events[k] \in Seq(Events(k)) /\ exp[k] \in [Actions -> SUBSET Names(k)]
  /\ queued \in BOOLEAN /\ uids \in 0..MaxUid
  /\ work = Idle \/ \E k \in Kinds : work \in Reconciles(k)
  /\ edits \in 0..MaxEdits /\ deletes \in 0..MaxDeletes
  /\ errors \in 0..MaxErrors /\ crashes \in 0..MaxCrashes

Nothing == [k \in Kinds |-> {}]

Init ==
  /\ proxy = Absent /\ seen = Absent
  /\ api = Nothing /\ cache = Nothing
  /\ events = [k \in Kinds |-> <<>>] /\ exp = [k \in Kinds |-> NoExpectations]
  /\ queued = FALSE /\ work = Idle /\ uids = 0
  /\ edits = 0 /\ deletes = 0 /\ errors = 0 /\ crashes = 0

-----------------------------------------------------------------------------
(* Users and the garbage collector.                                        *)

Edit == edits < MaxEdits /\ edits' = edits + 1
EditOnly == UNCHANGED <<children, cache, seen, exp, queued, work, errors, crashes>>

CreateProxy(s) ==
  /\ Edit /\ proxy = Absent /\ uids < MaxUid
  /\ uids' = uids + 1 /\ proxy' = Proxy(uids', 1, s, FALSE, 0)
  /\ EditOnly /\ UNCHANGED deletes

UpdateProxy(s) ==
  /\ Edit /\ proxy # Absent /\ proxy.spec # s
  /\ proxy' = [proxy EXCEPT !.spec = s, !.gen = @ + 1]
  /\ EditOnly /\ UNCHANGED <<uids, deletes>>

DeleteProxy ==
  /\ Edit /\ proxy # Absent
  /\ deletes < MaxDeletes /\ deletes' = deletes + 1
  /\ proxy' = Absent
  /\ EditOnly /\ UNCHANGED uids

Event(k, type, obj) == events' = [events EXCEPT ![k] = Append(@, [type |-> type, obj |-> obj])]

\* Children whose controller is gone, by uid.
Orphans(k) ==
  {o \in api[k] : IF k = "slices" THEN \A s \in api["services"] : s.uid # o.owner
                  ELSE ~proxy.exists \/ proxy.uid # o.owner}

CollectGarbage(k) ==
  Len(events[k]) < MaxPending /\ \E o \in Orphans(k) :
    /\ api' = [api EXCEPT ![k] = @ \ {o}]
    /\ Event(k, "Delete", o)
    /\ UNCHANGED <<proxy, cache, seen, exp, queued, work, uids, bounds>>

-----------------------------------------------------------------------------
(* Events.                                                                 *)

\* For(): every event of the proxy except an update of the same generation.
RefreshProxy ==
  /\ seen # proxy /\ seen' = proxy
  /\ queued' = (queued \/ ~(seen.exists /\ proxy.exists /\ seen.uid = proxy.uid /\ seen.gen = proxy.gen))
  /\ UNCHANGED <<proxy, children, cache, exp, work, uids, bounds>>

\* The controller of a Service or an Ingress is in its owner reference; that
\* of an EndpointSlice is found through the Service in the cache.
Resolves(k, o) == k = "slices" => \E s \in cache["services"] : s.name = o.name[1]

Folded(objects, e) ==
  {o \in objects : o.name # e.obj.name} \cup (IF e.type = "Delete" THEN {} ELSE {e.obj})

\* Mutant: every event is taken for a creation.
ObservedAsCreation(type) == "creations"

Observed(type) == IF type = "Create" THEN "creations" ELSE "deletions"

\* An object that is marked for deletion is taken for gone, as the handlers and
\* the lists of owned objects take it: that a finalizer may hold it for a while,
\* and that its mark and its end are two deletions to the handlers, is left out.
Deliver(k) ==
  /\ events[k] # <<>>
  /\ LET e == Head(events[k])
         handled == e.type # "Update" /\ Resolves(k, e.obj)
     IN /\ events' = [events EXCEPT ![k] = Tail(@)]
        /\ cache' = [cache EXCEPT ![k] = Folded(@, e)]
        /\ exp' = IF handled THEN [exp EXCEPT ![k] = Observe(@, Observed(e.type), e.obj.name)] ELSE exp
        /\ queued' = (queued \/ handled)
  /\ UNCHANGED <<proxy, api, seen, work, uids, bounds>>

-----------------------------------------------------------------------------
(* Reconcile.                                                              *)

Goto(pc, kind, todo) == work' = [work EXCEPT !.pc = pc, !.kind = kind, !.todo = todo]
Requeue == work' = Idle /\ queued' = TRUE
Finish == work' = Idle /\ UNCHANGED queued

Begin ==
  /\ work = Idle /\ queued /\ queued' = FALSE
  /\ IF seen.exists
       THEN /\ work' = [pc |-> "check", kind |-> "services", inst |-> seen, todo |-> <<>>]
            /\ UNCHANGED exp
       ELSE /\ exp' = [exp EXCEPT !["services"] = NoExpectations]
            /\ UNCHANGED work
  /\ UNCHANGED <<proxy, children, cache, seen, uids, bounds>>

\* Unmet expectations end the reconcile; it comes back when the rest of the
\* timeout has passed, or not at all when none is left.
Check ==
  /\ work # Idle /\ work.pc = "check"
  /\ \/ /\ SatisfiedExpectations(exp[work.kind])
        /\ Goto("sync", work.kind, <<>>) /\ UNCHANGED queued
     \/ ~SatisfiedExpectations(exp[work.kind]) /\ (Requeue \/ Finish)
  /\ UNCHANGED <<proxy, children, cache, seen, exp, uids, bounds>>

Create(o) == [verb |-> "create", obj |-> o]
Update(old, rev) == [verb |-> "update", old |-> old, obj |-> [old EXCEPT !.rev = rev]]
Delete(o) == [verb |-> "delete", obj |-> o]

Owned(k, uid) == {o \in cache[k] : o.owner = uid}
Deletions(objects) == [i \in 1..Cardinality(objects) |-> Delete(SetToSeq(objects)[i])]

\* The object with the desired name is created, or updated when it has
\* another revision.  Contents are left out, and with them the update that is
\* never made: maps.Copy into the labels of a child that has none panics when
\* the new spec gives it some.
Ensure(objects, name, owner) ==
  LET active == {o \in objects : o.name = name}
      gen == work.inst.gen
  IN IF active = {} THEN <<Create(Child(name, owner, gen, 0))>>
     ELSE SetToSeq({Update(o, gen) : o \in {x \in active : x.rev # gen}})

\* Mutant: the owned objects with other names are left behind.
SyncActivatedOnly(k, name) ==
  IF name = NoIngress THEN <<>> ELSE Ensure(Owned(k, work.inst.uid), name, work.inst.uid)

\* SyncService and SyncIngress: of the owned objects the one with the desired
\* name stays and the others are deleted first.
SyncActivated(k, name) ==
  LET objects == Owned(k, work.inst.uid)
  IN Deletions({o \in objects : o.name # name})
       \o (IF name = NoIngress THEN <<>> ELSE Ensure(objects, name, work.inst.uid))

\* Mutant: the EndpointSlices are numbered from one backend later.
SyncEndpointSlicesShifted(service) ==
  LET objects == Owned("slices", service.uid)
      desired == [i \in 1..work.inst.spec.backends |-> SliceName(service.name, i + 1)]
  IN FlattenSeq([i \in 1..Len(desired) |-> Ensure(objects, desired[i], service.uid)])
       \o Deletions({o \in objects : o.name \notin Range(desired)})

\* SyncEndpointSlices, for the Service it got from the cache.
SyncEndpointSlices(service) ==
  LET objects == Owned("slices", service.uid)
      desired == [i \in 1..work.inst.spec.backends |-> SliceName(service.name, i)]
  IN FlattenSeq([i \in 1..Len(desired) |-> Ensure(objects, desired[i], service.uid)])
       \o Deletions({o \in objects : o.name \notin Range(desired)})

Sync ==
  /\ work # Idle /\ work.pc = "sync"
  /\ LET spec == work.inst.spec
         found == {s \in cache["services"] : s.name = spec.svc}
     IN \/ work.kind = "services" /\ Goto("intend", "services", SyncActivated("services", spec.svc))
        \/ work.kind = "ingresses" /\ Goto("intend", "ingresses", SyncActivated("ingresses", spec.ing))
        \/ work.kind = "slices" /\ \E s \in found : Goto("intend", "slices", SyncEndpointSlices(s))
        \/ work.kind = "slices" /\ found = {} /\ work' = Idle
  /\ UNCHANGED <<proxy, children, cache, seen, exp, queued, uids, bounds>>

Intended(verb) == IF verb = "create" THEN "creations" ELSE "deletions"

\* What is expected before the call; when nothing is left the sync is done.
Intend ==
  /\ work # Idle /\ work.pc = "intend"
  /\ \/ /\ work.todo # <<>>
        /\ LET op == Head(work.todo)
           IN exp' = IF op.verb = "update" THEN exp
                     ELSE [exp EXCEPT ![work.kind] = Expect(@, Intended(op.verb), op.obj.name)]
        /\ Goto("call", work.kind, work.todo)
     \/ /\ work.todo = <<>> /\ UNCHANGED exp
        /\ CASE work.kind = "services" -> Goto("status", "services", <<>>)
             [] work.kind = "slices" -> Goto("check", "ingresses", <<>>)
             [] work.kind = "ingresses" -> Goto("ready", "ingresses", <<>>)
  /\ UNCHANGED <<proxy, children, cache, seen, queued, uids, bounds>>

Named(k, name) == {o \in api[k] : o.name = name}

\* Whether the API server can do what op asks for.  A delete is by name; an
\* update carries the resource version of the cached object.
Accepted(k, op) ==
  CASE op.verb = "create" -> Named(k, op.obj.name) = {}
    [] op.verb = "update" -> op.old \in api[k]
    [] op.verb = "delete" -> Named(k, op.obj.name) # {}

Effect(k, op) ==
  LET fresh == op.verb = "create" /\ k = "services"
      obj == IF fresh THEN [op.obj EXCEPT !.uid = uids + 1] ELSE op.obj
  IN CASE op.verb = "create" ->
            /\ api' = [api EXCEPT ![k] = @ \cup {obj}]
            /\ uids' = IF fresh THEN uids + 1 ELSE uids
            /\ Event(k, "Create", obj)
       [] op.verb = "update" ->
            /\ api' = [api EXCEPT ![k] = (@ \ {op.old}) \cup {obj}]
            /\ Event(k, "Update", obj) /\ UNCHANGED uids
       [] op.verb = "delete" ->
            \E o \in Named(k, op.obj.name) :
              /\ api' = [api EXCEPT ![k] = @ \ {o}]
              /\ Event(k, "Delete", o) /\ UNCHANGED uids

\* Mutant: the expectation of a call that fails stays.
KeepExpectation(k, op) == UNCHANGED exp

\* The expectation of a call that fails is taken back.
TakeBack(k, op) ==
  exp' = IF op.verb = "update" THEN exp
         ELSE [exp EXCEPT ![k] = Observe(@, Intended(op.verb), op.obj.name)]

NotFound(k, op) == op.verb # "create" /\ Named(k, op.obj.name) = {}

Call ==
  /\ work # Idle /\ work.pc = "call"
  /\ Len(events[work.kind]) < MaxPending /\ uids < MaxUid
  /\ LET k == work.kind
         op == Head(work.todo)
     IN \/ /\ Accepted(k, op) /\ Effect(k, op)
           /\ Goto("intend", k, Tail(work.todo))
           /\ UNCHANGED <<exp, queued, errors>>
        \/ /\ ~Accepted(k, op) /\ TakeBack(k, op)
           /\ IF NotFound(k, op) /\ k # "services" THEN Finish ELSE Requeue
           /\ UNCHANGED <<children, uids, errors>>
        \/ /\ errors < MaxErrors /\ errors' = errors + 1
           /\ \/ UNCHANGED <<children, uids>>
              \/ LostReplies /\ Accepted(k, op) /\ Effect(k, op)
           /\ TakeBack(k, op) /\ Requeue
  /\ UNCHANGED <<proxy, cache, seen, edits, deletes, crashes>>

\* UpdateStatus: the latest version is read from the cache and written back,
\* or it is gone, or another version is there when the retries end.
UpdateStatus(ready, observed) ==
  \/ /\ proxy.exists /\ seen = proxy
     /\ proxy' = [proxy EXCEPT !.ready = ready, !.observed = observed]
     /\ IF ready THEN Finish ELSE Goto("check", "slices", <<>>) /\ UNCHANGED queued
  \/ ~(proxy.exists /\ seen = proxy) /\ Requeue /\ UNCHANGED proxy

Status ==
  /\ work # Idle
  /\ \/ work.pc = "status" /\ UpdateStatus(FALSE, 0)
     \/ work.pc = "ready" /\ UpdateStatus(TRUE, work.inst.gen)
  /\ UNCHANGED <<children, cache, seen, exp, uids, bounds>>

\* The controller restarts: it lists everything and reconciles what it finds.
Crash ==
  /\ crashes < MaxCrashes /\ crashes' = crashes + 1
  /\ work' = Idle /\ exp' = [k \in Kinds |-> NoExpectations]
  /\ cache' = api /\ seen' = proxy /\ events' = [k \in Kinds |-> <<>>]
  /\ queued' = (proxy.exists \/ \E k \in Kinds : \E o \in api[k] :
                 k = "slices" => \E s \in api["services"] : s.name = o.name[1])
  /\ UNCHANGED <<proxy, api, uids, edits, deletes, errors>>

-----------------------------------------------------------------------------
Reconcile == Begin \/ Check \/ Sync \/ Intend \/ Call \/ Status

User == DeleteProxy \/ \E s \in Specs : CreateProxy(s) \/ UpdateProxy(s)

Next == \/ User \/ Reconcile \/ RefreshProxy \/ Crash
        \/ \E k \in Kinds : Deliver(k) \/ CollectGarbage(k)

Spec == Init /\ [][Next]_vars

\* The worker runs, the informers deliver, the garbage collector collects.
FairSpec == /\ Spec /\ WF_vars(Reconcile) /\ WF_vars(RefreshProxy)
            /\ \A k \in Kinds : WF_vars(Deliver(k)) /\ WF_vars(CollectGarbage(k))

-----------------------------------------------------------------------------
(* Properties.                                                             *)

\* The children that the spec asks for are there, of this generation.
Built(uid, gen, spec) ==
  /\ \E s \in api["services"] :
       /\ {o \in api["services"] : o.owner = uid} = {s}
       /\ s.name = spec.svc /\ s.rev = gen
       /\ {<<o.name, o.rev>> : o \in {x \in api["slices"] : x.owner = s.uid}}
            = {<<SliceName(spec.svc, i), gen>> : i \in 1..spec.backends}
  /\ {<<o.name, o.rev>> : o \in {x \in api["ingresses"] : x.owner = uid}}
       = IF spec.ing = NoIngress THEN {} ELSE {<<spec.ing, gen>>}

\* This step writes Ready to the status.
WritesReady == work # Idle /\ work.pc = "ready" /\ proxy' # proxy /\ edits' = edits

(* Ready is written for a generation only when the API server has exactly  *)
(* the children of that generation, although the reconcile saw only        *)
(* caches.  Where a proxy was deleted and created anew, a reconcile may    *)
(* take what is left of the old one's children for its own.                *)
ReadyMeansBuilt ==
  [][WritesReady /\ deletes = 0 => Built(proxy.uid, work.inst.gen, work.inst.spec)]_vars

(* An expectation is met sooner or later: while it stands the call is      *)
(* about to be made or its event is on its way, and the event will resolve *)
(* to this proxy.                                                          *)
ExpectationsInFlight ==
  \A k \in Kinds, act \in Actions : \A name \in exp[k][act] :
    \/ work # Idle /\ work.pc = "call" /\ work.kind = k /\ Head(work.todo).obj.name = name
    \/ \E i \in 1..Len(events[k]) :
         /\ events[k][i].type # "Update" /\ Observed(events[k][i].type) = act
         /\ events[k][i].obj.name = name /\ Resolves(k, events[k][i].obj)

Solo == {"services", "ingresses"}  \* the kinds of which a proxy has one

(* A proxy never has two Services or two Ingresses at once: the deletion   *)
(* of the old one is asked for before the new one is created, and a cache  *)
(* that does not show the last creation yet does not lead to another one.  *)
(* A Service whose load balancer holds it by a finalizer counts as gone    *)
(* once it is marked, and is there beside the new one for a while.         *)
(* Expectations are kept by name, so where a proxy was deleted and created *)
(* anew an event of the old one's child meets the expectation of the new   *)
(* one's: such histories are excepted.                                     *)
AtMostOneChild ==
  deletes = 0 => \A k \in Solo : \A o, q \in api[k] : o.owner = q.owner => o = q

Converged ==
  IF proxy.exists
    THEN Built(proxy.uid, proxy.gen, proxy.spec) /\ proxy.ready /\ proxy.observed = proxy.gen
    ELSE \A k \in Kinds : api[k] = {}

(* Once users stop, the children are those of the last spec and the proxy  *)
(* is Ready, whatever calls failed and however late the events came.  It   *)
(* is said of updates that the controller can make: it panics on one that  *)
(* gives labels to a Service or an Ingress that has none (maps.Copy into a *)
(* nil map), at every attempt, and the child keeps its revision.           *)
Converges == <>[]Converged
================================================================================
