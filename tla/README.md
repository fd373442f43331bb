# Specifications of kertical

kertical runs three programs in a Kubernetes cluster. `kertical-forwarding` runs on
every node: it watches `PortForwarding` objects and redirects host ports of its node to
Services, with nftables rules or with sockets of its own. `controller-manager` turns an
`ExternalProxy` into a Service, EndpointSlices and an Ingress. `webhook-manager` defaults
and validates both resources and keeps its webhook configurations supplied with a CA
bundle. This directory holds TLA+ models of all three, the TLC configurations that check
them, and proofs that TLAPS checks.

Paths below are relative to `src/internal/` unless they begin with `src/`.

## Inventory

| Component | Source | State it keeps | Operations | What makes it correct |
|---|---|---|---|---|
| Forwarding guard | `portforwarding/portforwarding.go` | set of (protocol, port) in force; mutex | Add, Remove, Close (without the mutex) | its set agrees with the kernel; a port has one target |
| nftables backend | `portforwarding/nftables/nftables.go` | `sync.Once`; rules and chains in the kernel | start, Add, Remove, Close: one netlink transaction per hook | start wipes what an earlier process left; Close wipes everything; failures half way are not forgotten |
| nftables mutations, conditions | `portforwarding/nftables/{mutation,condition,readwrite.go,...}` | a snapshot of tables, chains, rules, sets | Present and CleanUp of tables, chains, rules; match rules by their expressions | Present is idempotent, CleanUp is its inverse, other programs' rules are left alone |
| pure-go backend | `portforwarding/purego/` | cancel functions by port; goroutines, channels, sockets, sessions | Add, Remove, Close | traffic reaches the target and comes back to its client; a removed port is free; no goroutine or process is lost |
| registry, port probe | `portforwarding/registry.go`, `transport/` | list of backends | choose a backend; read `/proc/net` | the preferred available backend is taken |
| PortForwarding controller | `controller/networking/portforwarding_controller.go`, `portforwarding/` | informer cache and queue per node; finalizer and per-node status in the object | reconcile: add finalizer, sync ports, patch status; remove ports, release | status and node agree; ports converge to the spec; a deleted object leaves nothing behind and does go |
| ExternalProxy controller | `controller/networking/externalproxy_controller.go`, `externalproxy/` | caches, work queue | sync Service, EndpointSlices, Ingress; write status | children converge to the spec, no child twice, Ready is true |
| Expectations | `expectations/expectations.go` | per proxy and kind: names of creations and deletions not seen yet | Expect, Observe, Satisfied, Delete | an expectation is met in the end |
| Event handlers | `events/` | rate limiter | map events to reconcile requests, observe expectations | no change that matters is dropped |
| Bootstrap | `bootstrap/` | hooks | start hooks, stop hooks, exit | Close ends before the process does |
| Admission webhooks | `webhook/networking/v1alpha1/`, `webhook/validation/` | none; the spec and an annotation in the object | Default, Validate | what is admitted stays admissible and can be built; defaults follow the manifest |
| Certificate controllers | `webhook/controller/` | informer caches, queue; CA bundles in the webhook configurations | find the Secret that the Pods of the Service mount, copy its CA | every bundle is the CA that the Pods serve with; nothing else in a configuration changes |
| gencert | `src/cmd/gencert/` | certificate Secrets | generate and write each certificate | the Secrets exist, and are renewed as a whole |

How they interact. The PortForwarding controller of each node calls the guard, which calls
one backend; the nodes share nothing but the API object, whose status has one list of
ports for each node and whose finalizer any node may remove. Each controller reads
informer caches that lag behind the API server and writes to the API server with
optimistic concurrency. The ExternalProxy controller also shares the expectations with the
informers' event handlers: a call is expected before it is made and observed when its event
arrives. On shutdown the stop hook calls Close of the guard while the workers drain. Every
spec the two controllers read has passed the webhooks. The webhooks can be called only
while their configurations carry the right CA: gencert writes it to a Secret, Pods mount the
Secret, and the certificate controllers copy it from there.

What is hard here: netlink transactions that fail between two hooks; rules that outlive the
process that knows them; caches that show the past; two nodes that release one object;
events that are handled when the object they are resolved through has gone; channels and
goroutines of the pure-go backend whose lifetimes differ; rules that are recognised by
expressions which the kernel returns changed; a CA that changes under Pods, caches and users'
edits; specs that were defaulted once and are written again by tools that take the defaults
for the user's words. `PROJECT.json` lists each hazard at its line with the properties that
look at it.

## Modules

| Module | Models | State and actions |
|---|---|---|
| `RouteTable` | what the forwarder of a node promises: a partial map from ports to targets that changes by Install, Withdraw, WithdrawAll | abstract |
| `Forwarder` | guard + nftables backend + kernel + process life | `listens`, `once`, `op` (the call holding the mutex and its hook), `closing`, `chains`, `rules`; an action per netlink transaction, per call entry, and for stop, exit, crash, restart |
| `Conditions` | the conditions that rules are built from, and the matching of a rule that the kernel returns | operators on sequences of expressions |
| `NftRules` | one hook of the nftables backend with several tables, chains of other programs, rule handles | `kernel`; per thread `todo`, `snap`; an action per snapshot read, per flush, per call, and for other programs |
| `PortForwarding` | the controller on every node, with the guard and a backend whose calls are single steps with every outcome, half-done ones included | API objects `obj`, Services `svc`; per node `cache`, `queue`, `work`, `listens`, `active`, `started`, `chains`; an action per API call of reconcile (Begin, AddFinalizer, Patch, Release), per plan of its loops (Sync, RemovePorts) and per call they make of the forwarder (Forward, Withdraw) |
| `Expectations` | the expectations' store as operators on sets of names | |
| `ExternalProxy` | the controller of one proxy with its children, caches, events, expectations | `proxy`, `api`, `events`, `cache`, `exp`, `work`; an action per API call, check and event |
| `UdpForward` | one `forwardUDP`: reader, writer, two goroutines per session | channels, session records, table; an action per step between two points where a goroutine can wait |
| `TcpForward` | a TCP port through removals and new additions: acceptor and dispatcher of each `forwardTCP`, handler and two copiers of each connection | `fwd` (the calls of `forwardTCP`), `conn`; an action per step between two points where a goroutine can wait, and the peers' |
| `PureGo` | the backend: its calls at the port of one protocol | `UdpForward` extended, `TcpForward` instantiated, and `proto`, which of them runs |
| `WebhookCerts` | gencert, the Pods, and the controller of each webhook configuration | `secret`, `pods`, `cfg` (API server), `job`, `known` (caches), `queue`, `proc`; an action per webhook that a reconcile visits, per call and per event |
| `ProxyAdmission` | Default and Validate of an ExternalProxy, and the writes that pass them | `stored`, `applied`; an action per kind of write: create, replace, apply, edit in place, delete |
| `MC...` | constants of the runs | |
| `Forwarder_proofs` | theorems about `Forwarder`, the refinement of `RouteTable` among them | |
| `PureGo_proofs` | theorems about `UdpForward`, and from them and about `TcpForward` those about `PureGo` | |
| `NftRules_proofs`, `PortForwarding_proofs`, `ExternalProxy_proofs`, `WebhookCerts_proofs`, `ProxyAdmission_proofs` | theorems about the module of that name | |
| `Lists` | lemmas about folds, concatenations and removal from lists, used by three of these | |

Composition. `Forwarder` instantiates `RouteTable` with the PREROUTING rules as its state.
`PortForwarding` contains the guard and the backend once more, as operators: a call is a
single step there, as only one worker per node calls it, and leaves what its last
transaction left; `Forwarder` adds what comes between two transactions: Close, crashes, and
all four hooks. `PureGo` puts `UdpForward` and
`TcpForward` side by side: they share the root context and no port, so that a behaviour
follows a port of one protocol. `NftRules` looks below one
transaction of `Forwarder`: how the batch comes about, and when it fails; it takes from
`Conditions` which rules a forwarding recognises as its own. `ExternalProxy` uses `Expectations`.

Choices that a reader should know:

* A (protocol, port) pair is a model value (`Forwarder`) or a record of protocol and number
  (`PortForwarding`, where two protocols with one number matter). A target is hosts and
  port; its host list is a model value, of a single host in `Forwarder`.
* In `Forwarder` a hook has one base chain in one table. Rules of other programs are left
  out: they are in `NftRules`, which has one hook only.
* In `Conditions` an expression is a tuple of its kind and the operands that tell it from
  others; registers and encodings are left out. The kernel returns a rule as it was sent, but
  with counters that have counted and with 0 for the random number of a set.
* In `NftRules` no other program deletes or changes what is there, its chains have no name
  of a KERTICAL chain, and a step of it that the kernel refuses is none. A snapshot is read
  at once (the code reads it chain by chain), a rule is known by a name with its conditions
  beside it, and the walk over `rw.rules` is modelled on the backing array that `DeleteRule`
  shifts. The kernel gives out handles per table, to chains, rules and sets alike. It
  refuses a batch that deletes what is not there, that adds a set of a name in use or leaves
  one without a rule (Linux since 6.4; earlier kernels refuse new elements for a set that a
  rule uses). It deletes a chain with its rules unless a jump points to it.
* A rule that `Present` finds is left as it is and counts as installed by this process.
* A failing transaction is all or nothing, as the kernel commits a batch as a whole.
  `IgnoreNotFound` does not apply to the flush's error, which is wrapped.
* In `PortForwarding` a Service is the target that a port of it resolves to, or it is
  missing, or has no such port. Targets have a single host, as in `Forwarder`.
* In `PortForwarding` a redirect is at a hook: nftables has one for traffic from outside, in
  the first transaction of a call, and one for the node's own, in the last; the two
  transactions between them masquerade and accept, and redirect nothing. A call of the
  forwarder fails before it does anything (the probe), in its first transaction, or in a
  later one, which leaves the first hook done. The first `Add` of a process runs `start`,
  which may fail in Close or in `structure` likewise and is not run again: rules of the
  earlier process may stay, or the hooks may lack their chain (`chains`), and every later
  Add then fails, half done if the first hook has its chain. pure-go has one listener, and
  its calls do all or nothing.
* In `PortForwarding` other events may come between any two calls of a loop, a crash among
  them. Entries are put into the new status where the sort by number (`slices.SortFunc`)
  puts them; that it is not stable for more than twelve entries is left out. A headless
  Service without ready addresses, a target with no hosts, is left out
  (`TargetsAssumption`).
* A pure-go port that was removed may stay busy until its listener notices, and an Add then
  finds it in use.
* In `TcpForward` data is counted in reads: a copier takes a segment, in order, and a write
  never waits. A connection that breaks is one whose peer closed. At most `MaxPipes` dials
  succeed; the others fail or hang. A client is heard once its connection has a handler.
* In `WebhookCerts` a CA is the Secret it was written to and the number of that write, and
  the two controllers, which differ in the kind of their object, are one definition. Runs of
  gencert, its failures, changes of Pods, edits, failing calls and restarts share one bound.
  The Service always exists. Where the code takes the first Pod of a list, any may be first.
* In `ProxyAdmission` an optional field is a sequence of at most one value, 0 and "" are an
  absent number and name, syntax is one Boolean, and every protocol is TCP. Between Default
  and Validate the API server checks the schema in `src/api/`; of it the parts that
  matter here are modelled. A nil dereference in a webhook refuses the request, as
  controller-runtime answers the panic with an error.
* `CacheLag` says whether a reconcile may start from a stale copy and five conflict retries
  may end before the copy is fresh. FALSE is the common case where the watch is fast; runs
  with FALSE say what holds even then, or already fails then.
* In `ExternalProxy` an event updates the cache and is handled in one step; the garbage
  collector deletes orphans in any order, in the background. A call that fails may have
  taken effect (`LostReplies`). `AddAfter`'s delay and the time stamps are abstracted: an
  unmet expectation may or may not have timed out.
* In `UdpForward` lastActive is abstracted: a session may be found inactive at any time.
  `cancel` is read by `stop` and written by `serve` without synchronisation: `stop` may or
  may not see it. A read that fails ends in the panic of `addr.String()` on no address.

## Runs

Passing runs:

| Run | Question | Bounds | States |
|---|---|---|---|
| `Forwarder_faults` | type; listed ports stay installed; start wipes; Close leaves nothing unless it overlaps start; no rule is unaccounted for; implements `RouteTable` | 2 ports, 2 targets, 1 failing transaction, 2 crashes, 1 stop, callers that remove with any target | 1 384 000 |
| `PortForwarding_shared` | type; redirected = recorded; Ready = redirected; clean after deletion | nftables, 1 node, 2 objects, port 80 or 443 each, 2 targets, 4 edits, 1 fault in any transaction; objects and targets are interchangeable | 3 137 000 |
| `PortForwarding_restart` | Ready = redirected with a restart and a failing call; convergence without them | nftables, 1 node, 1 object, ports {80}, {443}, {80, 443}, 3 targets (2 host lists, 2 target ports), 3 edits, 1 fault in any transaction, 1 crash | 822 000 |
| `PortForwarding_deletion` | deletion completes; nodes without entries are clean when the object goes | 2 nodes, stale caches, pure-go, 1 crash, 2 edits | 274 000 |
| `NftRules_tables` | type; no rule or jump too often; listed keys redirected; undisturbed transactions commit; CleanUp takes back what Present did and no more; structure steers; other programs' rules stay | FORWARD hook, tables filter and mangle, 3 forwardings (2 of one port number to 2 hosts, 1 to a single host), 3 other programs and 1 rule of theirs, 3 calls, 1 restart; matching of rules in all 4 hooks against 40 forwardings | 671 000 |
| `ExternalProxy_live` | type; every expectation will be met; convergence | 1 Service name, 1 or 2 backends, Ingress or not, 2 edits, 1 error with lost replies, 1 crash | 85 000 |
| `ExternalProxy_rename` | Ready means built; no child twice; both until the proxy is deleted | Service and Ingress renamed, proxy deleted once, 3 edits, 1 error, no lost reply | 2 635 000 |
| `PureGo_serving` | type; UDP: each packet once and with its own client, requests and answers arrive; TCP: connections are served, data arrives, handlers end; a removed port is freed | 2 clients, 2 packets, channels of 1, 1 fault of any kind, 1 expiry, early packets; 3 forwardings of the port and connections together, 1 connection dialed, 1 segment each way, 1 fault | 252 000 |
| `WebhookCerts_rotation` | stale only if an event was dropped; writes only bundles, of mounted Secrets; convergence | 1 configuration of 3 webhooks, 2 of them ours, 2 Pods, 2 Secrets, 4 events | 344 000 |
| `ProxyAdmission_writes` | stored specs can be built, are settled, and agree with their manifest | 141 manifests: 5 lists of backends, 4 of ports, 7 Ingresses and one of bad syntax; any sequence of writes | 12 600 |

Why the bounds are enough. In `NftRules` mangle's three chains and one rule of another
program bring its handles level with those of the jumps in filter, and the second filter
chain gives a table two chains of one hook. Every property relates at most two ports, targets, objects,
nodes or clients; the interesting interleavings need one event between two steps of the
other actor, and one fault or restart is enough to reach each error path. Channels of
capacity 1 are full with the fewest packets: one waits in the channel and the second
blocks the reader. `MaxPending` and `MaxUid` of `ExternalProxy` bound a controller that,
from a stale cache, creates children as fast as the garbage collector removes them.
Deadlock is not checked where users and the environment are bounded
(`CHECK_DEADLOCK FALSE`): those systems come to rest.

Two runs end in a violation, each for a sentence of the repository that the code does not
keep (`findings` in `PROJECT.json` quotes it):

* `PortForwarding_release`: `RemoveFinalizer` loops over the status of its argument, not of
  the object it has just fetched, and removes the finalizer while another node's ports are
  in the object.
* `UdpForward_panic`: after a removal the writer closes the write queue while the sessions
  go on, and the next answer of a target is sent on the closed channel.

### Other disagreements met while modelling

The models contain the steps of these too. No run is devoted to them; the properties
except each by a named case, history variable or constant, given in brackets. Those in the
last list are outside the models.

Forwarding guard and nftables:

* An Add that fails after its first transaction leaves its PREROUTING rule in the kernel and
  its key unlisted; the next Add of the port for another target succeeds and the port is
  redirected to both (`portforwarding/portforwarding.go:51`, "It prevents conflicts"). A
  removal with another target than the port was added with leaves the rules. [`Disturbed`]
* `once.Do` is consumed by a start that fails; the next Add serves beside the residual rules
  (`portforwarding/nftables/nftables.go:84`). [`startOK`]
* A draining worker's first Add runs start() beside Close, which returns nil with a chain
  left behind (`nftables.go:74`). [`overlap`]
* A set's name is made of the port number and the hook (`nftables.go:238`), and Present adds
  it without a look at what is there, though its comment says "ensures the set exists with
  all its elements" (`portforwarding/nftables/mutation/mutation.go:647`). A TCP and a UDP
  forwarding of one port number to several hosts each exclude one another, and an Add that is
  tried again after it failed half way is refused until the process starts anew.
  [`SetTaken`]
* `HookedChains` lists chains of every table and any priority. On a host where iptables-nft
  made mangle's FORWARD chain, the jump goes twice into filter's; where another table has a
  chain of another name, or filter has no FORWARD chain, the transaction fails and with it
  `start` ("If multiple tables with the specified hook exist, it updates all of them",
  `mutation.go:129`). [`Misplaced`]
* `DeleteRule` compares handles across tables; after it has dropped another table's rule from
  the snapshot the same jump is deleted again, the batch fails, and Close and the start of
  the next process fail with it ("from the specified table and chain",
  `portforwarding/nftables/readwrite.go:185`). [`HandleClash`]
* A table chosen by the vote holds no chain of the derived priority, so Close does not visit
  it ("Close removes all chains and rules", `nftables.go:74`), and once another program
  creates such a chain elsewhere every Add fails for want of the KERTICAL chain there.
  [`CleanUpIsExact` speaks of the tables visited; `HasOwn` in `UndisturbedCommits`]

PortForwarding controller:

* `AddFinalizer` returns nil for an object that is gone, and the reconcile forwards its
  ports without a finalizer (`controller/networking/portforwarding/finalizer.go:27`).
  [`unguarded`]
* The Residual entry of a failed deletion is overwritten by the entry of an addition for the
  same port number (`controller/networking/portforwarding_controller.go:177`); a status patch
  that is given up, or replaces entries the sync has not seen, loses what the sync did
  (`portforwarding/status.go:64`). [`lost`]
* Deleting an object in Conflict withdraws the port from the object that owns it
  (`portforwarding_controller.go:217`), which stays Ready. [`contested`] If its target is
  another one, the guard forgets the key while the owner's nftables rule stays, and no later
  removal finds it. [`stray`]
* An Add that fails half way leaves its first redirect in the kernel and a Failed entry. When
  that entry goes, because the object does or asks for something else, the guard answers
  ErrPortNotForwarded, the entry is dropped and the redirect stays
  (`portforwarding_controller.go:175`, 218); it comes before the rule of any later Add of the
  port. [`stray`]
* A Remove that fails half way has taken a redirect away and keeps the port in the guard. If
  the Service was missing and is back with the same hosts, the entry is found unchanged, Add
  answers ErrPortAlreadyForwarded, and Ready stays with traffic from outside not redirected
  (`portforwarding_controller.go:157`, `nftables.go:263`). [`torn`]
* The comparison that finds a port unchanged leaves out the target port
  (`controller/networking/portforwarding/portforwarding.go:129`, "hasn't changed").
  [`HostsOf` in `Converges`]
* After a restart the guard does not know the rule, so the removal for a deleted object is
  a no-op and the rule stays until the next Add wipes the table
  (`portforwarding_controller.go:108`). [`stray`]
* The pure-go backend still holds a port that is removed and added again in one reconcile;
  the port becomes Rejected and nothing requeues it
  (`portforwarding/portforwarding.go:130`). [nftables in `PortForwarding_restart`]
* A reconcile from a stale cache leaves Ready in the status for a port that is no longer
  forwarded (`portforwarding_controller.go:152`). [`CacheLag`]

ExternalProxy controller:

* An expectation that timed out is not dropped and ends every later reconcile; a slice
  created after its Service has left the cache is never observed, and the proxy keeps the
  children of an old spec (`expectations/expectations.go:29`). [one Service name in
  `ExternalProxy_live`]
* A reconcile of a deleted proxy may write Ready to a new proxy of the same name, as
  `UpdateStatus` fetches by name (`controller/networking/externalproxy_controller.go:168`).
  [`deletes = 0` in `ReadyMeansBuilt`]
* Expectations are kept by name. Where a proxy is deleted and created anew, an event of the
  old one's Service meets the expectation of the new one's, and the next reconcile creates a
  second Service from a cache that shows none (`expectations/expectations.go:101`).
  [`deletes = 0` in `AtMostOneChild`]
* A child that is marked for deletion and held by a finalizer, as a Service with a load
  balancer is, counts as gone: its successor is created beside it, and a child of the same
  name fails to be created until the finalizer goes (`externalproxy_controller.go:235`, 319,
  405). [gone when marked: `Deliver`, `AtMostOneChild`]
* An update that gives labels to a Service or an Ingress that has none panics in `maps.Copy`,
  at every attempt, and the child keeps its revision (`externalproxy_controller.go:216`, 382).
  [contents are left out: `Ensure`, `Converges`]
* A creation whose reply is lost is no longer expected, although the Service is there; if
  the spec is renamed before the cache shows it, a second one is created beside it
  (`externalproxy_controller.go:201`). [`LostReplies` in `ExternalProxy_rename`]

Pure-go backend:

* A session whose dial failed stays in the table; its packets fill the channel, the reader
  blocks, and no client is served (`portforwarding/purego/udp.go:105`). [`undialed`, in
  `Broken`]
* The deferred stop cancels the session of a packet that came before `forwardUDP` returned;
  that session is never replaced (`udp.go:51`). [cancelled sessions, in `Broken`]
* Removing a forwarding does not end its sessions, whose contexts come from
  `context.Background` (`udp.go:188`). [`PortFreed` speaks of the port]
* A read that fails has no address, and `addr.String()` panics (`purego/udp.go:73`).
  [`panicked`, in `Broken`]
* `pipe` "will terminate when the context is canceled" (`purego/tcp.go:70`), but a copier looks at
  the context between two reads only: an idle connection outlives its forwarding until both
  ends have closed or sent once more. [`late`, in `HandlersEnd`]
* A passing error of Accept ends the accepting goroutine; the port stays listed, listens,
  and nobody accepts (`tcp.go:28`). [`Failed("accept")`]
* A connection in the acceptor's hand when the dispatcher ends is neither served nor closed
  (`tcp.go:35`). [`Removed` in `ConnectionsServed`]

Webhooks:

* Events of a certificate Secret are dropped: Create and Update look for a deletion only and
  `resolveAssociatedWebhook` is never called, so a rotation reaches the configurations by
  chance or by the resync after ten hours (`webhook/controller/secret_event_handler.go:49`).
  [`missed`]
* The retry of a gencert job that failed half way makes the earlier certificates anew, those
  that Pods already serve included (`src/cmd/gencert/main.go:63`). [`missed`]
* While Pods of the Service mount different Secrets the bundle goes back and forth between
  their CAs (`webhook/controller/utils/utils.go:99`). [`Authorities` is any of them]
* A rule without HTTP gets its catch-all only if it has a host and the Service one port;
  otherwise the defaulter or the validator dereferences nil and the request ends in a panic,
  although the type documents that it "defaults to a http catch-all"
  (`webhook/validation/kubernetes.go:185`). [refused, in `Admitted`]
* A Service port without a target port is refused, although the CRD documents that it
  defaults to the port. [refused, in `ValidService`]
* The default backend that a user gave an Ingress without rules is overwritten when the
  Service has one port (`webhook/networking/v1alpha1/externalproxy_webhook.go:157`).
  [`DefaultIngress`]
* Backends of paths and generated ports that an earlier defaulting wrote are kept by an edit
  in place, and may name what is gone. [`edited`]

Outside the models:

* The probe for listeners masks the TCP state, so that a connection in CLOSING (0x0B) makes
  its port look listened on (`transport/transport_linux.go:55`, "in the listening state").
* `counter.Match` indexes the first expression of a rule without looking at the number of
  expressions (`nftables/condition/condition.go:84`): a rule of another program whose
  expressions the netlink library does not know panics.
* Entries that nothing retries: a port in Conflict or Rejected when the obstacle goes, and
  the entries in the status of a node that has left the cluster, which keep the finalizer.

## Fairness

* `PortForwarding!FairSpec`: each informer delivers (`WF` of Refresh) and each worker takes
  what is queued. controller-runtime's workers block on the queue and nothing else, so a
  node with work takes steps; `WorkerRuns` is weak fairness of the worker with ENABLED
  spelled out, which TLC evaluates faster. Users, Services and crashes are not fair.
* `ExternalProxy!FairSpec`: the worker, the two kinds of delivery, and the garbage collector.
  Errors and crashes are bounded and not fair.
* `UdpForward!Fairness` and `TcpForward!TcpFairness`: Go's scheduler runs every goroutine
  that can take a step. The UDP reader polls for ever and has a weak fairness of its own. All
  other goroutines take finitely many steps, as packets, segments and connections are bounded
  and none of them polls: weak fairness of their disjunction runs them until none can go on,
  which gives each its turn. A read deadline is taken to
  pass only when no packet waits: the deadline is set a second ahead right before the read.
  Clients, targets, the calls of the backend and expiry are not fair.
* `WebhookCerts!FairSpec`: the job's container runs to its end or is stopped by a failure,
  each watch delivers, the informers resync (every ten hours), and each of the two workers
  runs. Rotations, Pods, users, failures and restarts are not fair. `ProxyAdmission` has no
  liveness to state: a request is one step.

## Proofs

Each theorem holds for every value of the constants that the named assumptions allow: any
sets of keys, nodes, objects, specs, targets, clients, webhooks and manifests, and any bounds.
Further hypotheses are stated in the theorem and given here. Each invariant is proved as
Init, step and conclusion; the step has one case per action of Next.

`Forwarder` (`NoneAssumption`, `BoundsAssumption`):

* `TypeInvariant`, `ListedKeysAreInstalled`, `StartWipesOlderRules` (`TypeOK`,
  `ListedIsInstalled`, `StartWipesInherited`). The properties say nothing of a call that has
  done some of its hooks. `Books` adds what each phase has established: a dead process holds
  nothing; no port is listed until start has run, and start never runs again, so that
  wiping cannot hit a listed port (`StartPrecedesListing`); the hooks already wiped hold no
  inherited rule (`WipedSoFar`); those an Add has passed have its rule (`PresentedSoFar`).
* `NoRuleIsOrphaned` (`NoOrphanRule`), from `Accounted`: every rule belongs to a listed key,
  to the inherited ones or to the Add in progress, and a removal has emptied the hooks it
  has passed.
* `CloseLeavesNoRule` (`CloseLeavesNothing`), from `CloseWipes`: a Close that never met start
  has emptied the hooks it passed, and they stay empty because a call beside it finds no
  chain to put a rule into.
* `ForwarderImplementsRouteTable`: the refinement. `RoutesRefined` shows that each step
  installs, withdraws or wipes at most what `RouteTable` allows or leaves the redirects
  alone, with `ChainsStand` and `Accounted`; a step with the books disturbed, or beside Close,
  is one that `RouteTable` promises nothing about.

`NftRules` (`TableAssumption`, `RuleAssumption`, `HookAssumption`, `OtherAssumption`): any
number of tables, of forwardings and of hosts in them, and of other programs, whose chains
do not have the name of a KERTICAL chain.

* `TypeInvariant` and `OthersAreUntouched` (`TypeOK`, `OthersUntouched`). What makes the
  latter hard is that the handles in a batch come from a snapshot that may be old, that
  the walk over the shifting slice may hand any element to the deletion, and that handles
  are unique within a table only. The invariant says of every snapshot that the kernel
  `Continues` it: a rule with a handle that had been given out by then was there already, so
  that a handle is that of the rule it was read with, or of none. `Views` is what the mutations
  may make of a snapshot: however they walk it, the elements of its array are rules of
  that snapshot, and what they queue is among `Commands`. `TakenForOwn` says that a
  deletion names the table and chain of a rule recognised as one of kertical's, and
  `OtherIsNotRecognised` that a rule of another program is not: the first condition of
  every rule fails on it (`FirstFails`, by the fold of `CombineMatch`). `Goes` is what one
  such command does to whatever kernel it meets, `ApplyGoes` a batch of them.

`PortForwarding` (`SpecsAssumption`, `TargetsAssumption`, `BackendAssumption`,
`LagAssumption`, `BoundsAssumption`):

* `TypeInvariant` (`TypeOK`), unconditionally.
* `ReadyRedirects` (`ReadyIsActive`), where reconciles start from an up-to-date cache
  (`~CacheLag`), with either backend and for any restarts and failing calls, half done or
  not. The property speaks of settled nodes, so that the invariant has to follow an entry on
  its way: `Base` says what the reconcile's copy of the status has to do with
  the object (`Steady`), that the loops treat an entry once (`Apart`), and that ports
  claimed twice are known as such (`Disputed`); `ReadyInv` says that a Ready entry whose port
  the guard knows is in force during the reconcile, and in the finished list in any case.
  A restart empties the guard, and the sync of an unchanged entry then adds it anew; start
  wipes only while the guard knows no port.
* `RedirectsAreRecorded`, `GuardedDeleteIsClean`, `ReleaseIsClean` (`ActiveIsRecorded`,
  `CleanAfterGuardedDelete`, `ReleasedNodesAreClean`), under the same hypothesis. `RecordInv`
  names, at each step of a reconcile, the entries that stand for a redirect: those of the
  status before the plan, those kept and those still to be treated in the loops, the new list
  before the patch. The step rests on what each outcome of a call does to the redirects that
  are not stray (`Standing`): an Add, also one that stops half way, leaves at most those of
  its port and target, and lists an entry; an entry leaves the list with `Drops` or `Loses`
  only, after which none of its redirects is left but stray ones; a Remove that failed
  (`Tears`) lists its entry again. Ports that two objects ask for need no exception here.
  `PortForwarding_shared` checks the first two without a restart; TLC finds them to hold
  with one too, at the bounds of `PortForwarding_restart`.

  Without the hypothesis `ReadyIsActive` fails: with stale caches TLC refutes it (two objects,
  nftables). For the record properties a proof from stale caches is open; TLC finds no
  counterexample on one node with two objects, nftables, stale caches, four edits and no
  failures (7 066 000 states, all of them). `ReleasedNodesAreClean` is checked from stale
  caches and with a restart, for one object.

`ExternalProxy` (`BoundsAssumption`, `RepliesAssumption`, `SpecsAssumption`):

* `TypeInvariant` (`TypeOK`). It needs what `SetToSeq` makes of a set (`Listing`) and
  `FlattenSeq` of lists (`Flattening` in `Lists`); the recursion of the latter is reasoned
  about with a least length (`WFMin`), which is first-order.
* `OneOfEach` (`AtMostOneChild`), where a call that fails had no effect (`~LostReplies`). The
  cache may show anything old, so the invariant `Single` ties four things together: the child
  there is shown by the cache or its creation is expected (`Known`); events on their way are
  expected, one of each kind and name (`Awaited`); a plan creates last, after it has deleted
  whatever there was (`Planned`); what a sync has done does not upset the rest of its plan
  (`Undisturbed`, `Announced`). With lost replies two Services can exist (see above).
* `ExpectationsAreMet` (`ExpectationsInFlight`), with lost replies, failures and restarts,
  while the proxy is not deleted and its specs keep the name of the Service, the bounds
  `ExternalProxy_live` has. A slice whose Service has left the cache is never observed
  (see above): `Kept` and `Resolved` say that a Service stays once it is there.
* `ReadyIsBuilt` (`ReadyMeansBuilt`), where a call that fails had no effect, from the
  invariant of `OneOfEach` and an account of what a sync has found up to date: the status is
  written after the children of all kinds were treated, each at a time of its own and from
  caches that lag.
  `Traced` says what is certain of such a cache: a child it shows is there or its deletion is
  on its way, a child it lacks has its creation on its way. `TracedShows`: once no event
  tells of an owner's children, the cache shows them. `Heard` and `Clear` say that the events
  of EndpointSlices are expected, but for the garbage collector's, and that no plan
  repeats what they tell.
  `PlanOf` is what a plan consists of, `Covers` that the rest of it always leads to the goal
  of the spec, and `Stages` that the kinds a sync is through with are as the spec asks, until
  a new generation begins (`Aged`, `Dated`). `SpecsAssumption` says that no Service has
  the name that stands for "no ingress".

`WebhookCerts` (`EntriesAssumption`, `BoundAssumption`, `CertListAssumption`,
`MountAssumption`):

* `TypeInvariant`, `StaleOnlyIfEventsDropped` (`StaleOnlyIfMissed`), `WritesAreBundles`
  (`WritesOnlyBundles`). `Settled` and `Underway` say which webhooks a reconcile has passed
  and what they got; that a copy which is no longer current is repeated; that a current one
  differs from the configuration in its own bundles only. `MountsRecorded` relates the
  caches of Pods to what was ever mounted.

`ProxyAdmission` (`ManifestsAssumption`):

* `StoredIsBuildable`, `StoredPassesUnchanged` (`ChildrenBuildable`, `StoredIsSettled`), from
  `Stored`: what is stored is the defaulted form of something admitted. The lemmas follow the
  structure of an Ingress and show that defaulting is idempotent and keeps validity.
* `DefaultsAlwaysFit` (`DefaultsFit`). The defaulter folds over the backends and over their
  ports, and gives each port the first of its name. `Folding` gives the folds a solution and
  `FoldSteps` goes through it, both by a least counterexample (`WFMin`), which is
  first-order; `Generated` and `DefaultedRefers` then relate a backend to the port it names.

`UdpForward` (`ClientsAssumption`, `CapAssumption`, `FaultsAssumption`, `EarlyAssumption`,
`BoundsAssumption`) and `PureGo` (also `ConnsAssumption`, `TcpFaultsAssumption`,
`TcpBoundsAssumption`):

* `TypeInvariant` of `UdpForward` with `Counted`: sessions are as many as clients in the table
  and expiries, which bounds the session records.
* `PacketsAreNotDoubled` (`EachPacketOnce`), from `Routed` (a session has the packets of its
  client), `Apart` (no two places share a packet) and `Complete` (one packet of each number,
  somewhere or lost).
* `PureGoTypeInvariant` and `PureGoPacketsOnce` (`PureGoTypeOK`, `EachPacketOnce`): the steps
  of `TcpForward` and the calls of the backend keep these invariants; `Copied` relates what a
  copier has read and written to the state of its connection.

Only model-checked:

* Every liveness property (`Converges`, `DeletionCompletes`, `RequestsForwarded`,
  `RepliesDelivered`, `ConnectionsServed`, `SegmentsDelivered`, `HandlersEnd`, `PortFreed`):
  liveness under fairness and ENABLED are out of TLAPS's reach.
* What folds over sequences compute. A theorem can say what such a fold keeps (`FoldSteps`),
  not what it returns for every length, which needs induction over data. So
  `CleanUpIsExact` (which rules a forwarding recognises among those of others, for any hosts),
  `UndisturbedCommits` and `StructureSteers` (that a batch holds every deletion and jump it
  should, and none twice) of `NftRules` stay with TLC.
* `NotRepeated` and `ListedIsRedirected` of `NftRules`. They hold in the instance checked;
  whether they hold for more tables than two is open, because a `DeleteRule` that meets the
  handle of a rule in another table drops that rule from the view, and what is then missing
  there is added again.
* No module here uses a RECURSIVE operator. `ReleasedWhenAllCleared` and `RemovalDoesNotPanic`
  are violated, so that there is nothing to prove.

## Not modelled

* The webhook of PortForwarding: it defaults nothing and refuses an object without a Service
  name or without ports.
* The choice of a backend in `registry.go` and the parsing of `/proc/net` in `transport/`: a
  loop at start that returns the first backend available, and a probe that is an outcome of
  Add in the models.
* `genssl` (what is in a certificate), `options.go` and the `main` packages (flags and the
  order in which managers are built): straight-line code without state.
* Contents of the ExternalProxy's children, foreground deletion (a proxy in it is still
  reconciled, `externalproxy_controller.go:127`), elements of nftables sets, several address
  families, start hooks, the sysctl that nftables needs.
* Generated code, charts and manifests are not program logic.

## Plan

1. The four hooks of a call in one model of `NftRules`, as a refinement of `Forwarder` for
   hosts without other programs.
2. Foreground deletion in `ExternalProxy`.
3. Proofs, or counterexamples: `NotRepeated` and `ListedIsRedirected` of `NftRules` for more
   than two tables; the recorded and clean properties of `PortForwarding` from stale caches
   without restarts.
