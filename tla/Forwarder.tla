------------------------------ MODULE Forwarder ------------------------------
(***************************************************************************)
(* The forwarder of one node: the guard of internal/portforwarding in front *)
(* of the nftables backend, the kernel rules they manage, and the life of  *)
(* the process around them.                                                *)
(*                                                                         *)
(* A call of AddForwarding or RemoveForwarding holds the guard's mutex, so *)
(* one call is in progress at a time; the backend performs it as a series  *)
(* of netlink transactions, one for each of the four hooks it uses, and a  *)
(* transaction that fails ends the call where it is.  The stop hook calls  *)
(* Close without the mutex, while the workers are still draining.  Kernel  *)
(* rules outlive the process; everything the guard knows does not.         *)
(***************************************************************************)
EXTENDS Naturals

CONSTANTS Keys,         \* (protocol, port) pairs
          Targets,      \* (hosts, port) pairs with a single host
          NoKey,        \* not a key
          NoTarget,     \* not a target
          MaxFaults,    \* bound on netlink transactions that fail
          MaxCrashes,   \* bound on crashes of the process
          MaxStops      \* bound on graceful shutdowns

ASSUME NoneAssumption == NoKey \notin Keys /\ NoTarget \notin Targets
ASSUME BoundsAssumption == MaxFaults \in Nat /\ MaxCrashes \in Nat /\ MaxStops \in Nat

\* The hooks in the order structure() and buildForwarding() list them:
\* 1 PREROUTING, 2 POSTROUTING, 3 FORWARD, 4 OUTPUT.
NHooks == 4
Hooks == 1..NHooks
Prerouting == 1

\* The rules one forwarding needs, and one of them.
Rule == [key : Keys, target : Targets, hook : Hooks]
RuleOf(k, t, h) == [key |-> k, target |-> t, hook |-> h]

VARIABLES
  listens,    \* the guard's set of forwarded keys
  once,       \* the backend's sync.Once has run
  op,         \* the call that holds the mutex and how far it is
  result,     \* what the last finished call returned
  closing,    \* 0, the hook Close cleans next, or NHooks + 1 when it returned
  alive,      \* the process runs
  chains,     \* kernel: hooks whose KERTICAL chain and jump rule exist
  rules,      \* kernel: the forwarding rules in those chains
  faults, crashes, stops,   \* how much of each bound is used
  granted,    \* history: target of the last successful Add of each listed key
  torn,       \* history: listed keys with a removal that failed half way
  inherited,  \* history: rules installed by an earlier process
  startOK,    \* history: start() returned nil in this process
  closeOK,    \* history: Close returned nil
  overlap,    \* history: start() and Close ran at the same time
  mistaken    \* history: a key was removed with a target it was not added with

guard   == <<listens, once, op, result>>
kernel  == <<chains, rules>>
bounds  == <<faults, crashes, stops>>
history == <<granted, torn, inherited, startOK, closeOK, overlap, mistaken>>
vars    == <<listens, once, op, result, closing, alive, chains, rules,
             faults, crashes, stops, granted, torn, inherited, startOK, closeOK, overlap, mistaken>>

Call(p, k, t, h) == [phase |-> p, key |-> k, target |-> t, hook |-> h]
Idle == Call("idle", NoKey, NoTarget, 1)
Phases == {"clean", "structure", "present", "cleanup"}
Results == {"none", "ok", "failed", "AlreadyForwarded", "AlreadyInuse", "NotForwarded"}

\* A call in progress has a key and a target.
OpOK ==
  /\ op \in [phase : Phases \cup {"idle"}, key : Keys \cup {NoKey},
            target : Targets \cup {NoTarget}, hook : Hooks]
  /\ op.phase # "idle" => op.key \in Keys /\ op.target \in Targets

TypeOK ==
  /\ OpOK
  /\ listens \subseteq Keys
  /\ once \in BOOLEAN
  /\ result \in Results
  /\ closing \in 0..(NHooks + 1)
  /\ alive \in BOOLEAN
  /\ chains \subseteq Hooks
  /\ rules \subseteq Rule
  /\ faults \in 0..MaxFaults /\ crashes \in 0..MaxCrashes /\ stops \in 0..MaxStops
  /\ granted \in [Keys -> Targets \cup {NoTarget}]
  /\ torn \subseteq Keys
  /\ inherited \subseteq rules
  /\ startOK \in BOOLEAN /\ closeOK \in BOOLEAN /\ overlap \in BOOLEAN
  /\ mistaken \in BOOLEAN

Init ==
  /\ listens = {} /\ once = FALSE /\ op = Idle /\ result = "none"
  /\ closing = 0 /\ alive = TRUE
  /\ chains = {} /\ rules = {}
  /\ faults = 0 /\ crashes = 0 /\ stops = 0
  /\ granted = [k \in Keys |-> NoTarget] /\ torn = {} /\ inherited = {}
  /\ startOK = FALSE /\ closeOK = FALSE /\ overlap = FALSE /\ mistaken = FALSE

-----------------------------------------------------------------------------
(* Entry of the two calls: the checks of the guard.                        *)

\* The call returns without touching the backend.
Return(r) ==
  /\ result' = r
  /\ UNCHANGED <<listens, once, op, closing, alive, kernel, bounds, history>>

\* The backend is entered, through once.Do(start) on the first call.
EnterRestarting(k, t) ==      \* mutant: start runs on every call
  /\ op' = Call("clean", k, t, 1)
  /\ once' = TRUE
  /\ UNCHANGED <<listens, result, closing, alive, kernel, bounds, history>>

Enter(k, t) ==
  /\ op' = Call(IF once THEN "present" ELSE "clean", k, t, 1)
  /\ once' = TRUE
  /\ overlap' = (overlap \/ (~once /\ closing > 0))
  /\ UNCHANGED <<listens, result, closing, alive, kernel, bounds,
                 granted, torn, inherited, startOK, closeOK, mistaken>>

\* AddForwarding: the key is listed; or some program listens on the port;
\* or the backend is entered.
AddUnguarded(k, t) ==         \* mutant: the check of gpf.listens is missing
  alive /\ op.phase = "idle" /\ (Return("AlreadyInuse") \/ Enter(k, t))

AddForwarding(k, t) ==
  /\ alive /\ op.phase = "idle"
  /\ \/ k \in listens /\ Return("AlreadyForwarded")
     \/ k \notin listens /\ Return("AlreadyInuse")
     \/ k \notin listens /\ Enter(k, t)

\* RemoveForwarding: the key is not listed, or the backend is entered.
RemoveForwarding(k, t) ==
  /\ alive /\ op.phase = "idle"
  /\ \/ k \notin listens /\ Return("NotForwarded")
     \/ /\ k \in listens
        /\ op' = Call("cleanup", k, t, 1)
        /\ mistaken' = (mistaken \/ t # granted[k])
        /\ UNCHANGED <<listens, once, result, closing, alive, kernel, bounds,
                       granted, torn, inherited, startOK, closeOK, overlap>>

-----------------------------------------------------------------------------
(* The netlink transactions of the call in progress, one hook each.        *)

\* The next hook, or the next phase after the last hook.
AdvancePastLast(next) ==      \* mutant: one hook too many
  op' = IF op.hook <= NHooks THEN [op EXCEPT !.hook = @ + 1]
        ELSE IF next = "idle" THEN Idle
        ELSE Call(next, op.key, op.target, 1)

Advance(next) ==
  op' = IF op.hook < NHooks THEN [op EXCEPT !.hook = @ + 1]
        ELSE IF next = "idle" THEN Idle
        ELSE Call(next, op.key, op.target, 1)

\* The rules that are left after some are deleted.
Keep(kept) == rules' = kept /\ inherited' = inherited \cap kept

\* start() -> Close() -> cleanUp(structure(true)): the chain of the hook goes,
\* and every rule in it.
CleanHookUnforced ==          \* mutant: structure(false), only an empty chain goes
  /\ op.phase = "clean"
  /\ chains' = IF \E r \in rules : r.hook = op.hook THEN chains ELSE chains \ {op.hook}
  /\ Advance("structure")
  /\ UNCHANGED <<listens, once, result, closing, alive, rules, bounds, history>>

CleanHook ==
  /\ op.phase = "clean"
  /\ chains' = chains \ {op.hook}
  /\ Keep({r \in rules : r.hook # op.hook})
  /\ Advance("structure")
  /\ UNCHANGED <<listens, once, result, closing, alive, bounds,
                 granted, torn, startOK, closeOK, overlap, mistaken>>

\* start() -> present(structure(false)): the chain of the hook is created.
StructureHook ==
  /\ op.phase = "structure"
  /\ chains' = chains \cup {op.hook}
  /\ startOK' = IF op.hook = NHooks THEN TRUE ELSE startOK
  /\ Advance("present")
  /\ UNCHANGED <<listens, once, result, closing, alive, rules, bounds,
                 granted, torn, inherited, closeOK, overlap, mistaken>>

\* present(buildForwarding(...)): the rule of the hook is added, or found to
\* be there already; after the last hook the guard lists the key.
PresentHook ==
  /\ op.phase = "present" /\ op.hook \in chains
  /\ LET r == RuleOf(op.key, op.target, op.hook)
     IN rules' = rules \cup {r} /\ inherited' = inherited \ {r}
  /\ Advance("idle")
  /\ IF op.hook = NHooks
       THEN /\ listens' = listens \cup {op.key}
            /\ granted' = [granted EXCEPT ![op.key] = op.target]
            /\ result' = "ok"
       ELSE UNCHANGED <<listens, granted, result>>
  /\ UNCHANGED <<once, closing, alive, chains, bounds, torn, startOK, closeOK, overlap, mistaken>>

\* cleanUp(buildForwarding(...)): the rule that matches key and target goes;
\* after the last hook the guard forgets the key.
CleanupHook ==
  /\ op.phase = "cleanup"
  /\ Keep(rules \ {RuleOf(op.key, op.target, op.hook)})
  /\ Advance("idle")
  /\ IF op.hook = NHooks
       THEN /\ listens' = listens \ {op.key}
            /\ granted' = [granted EXCEPT ![op.key] = NoTarget]
            /\ torn' = torn \ {op.key}
            /\ result' = "ok"
       ELSE UNCHANGED <<listens, granted, torn, result>>
  /\ UNCHANGED <<once, closing, alive, chains, bounds, startOK, closeOK, overlap, mistaken>>

\* The transaction of this hook fails and the call returns the error: a rule
\* for a chain that does not exist, or a failure of the kernel.
FailHook ==
  /\ op.phase # "idle"
  /\ \/ op.phase = "present" /\ op.hook \notin chains /\ UNCHANGED faults
     \/ faults < MaxFaults /\ faults' = faults + 1
  /\ op' = Idle
  /\ result' = "failed"
  /\ torn' = IF op.phase = "cleanup" THEN torn \cup {op.key} ELSE torn
  /\ UNCHANGED <<listens, once, closing, alive, kernel, crashes, stops,
                 granted, inherited, startOK, closeOK, overlap, mistaken>>

Transaction ==
  /\ alive
  /\ CleanHook \/ StructureHook \/ PresentHook \/ CleanupHook \/ FailHook

-----------------------------------------------------------------------------
(* The process: graceful shutdown, crash, restart.                         *)

\* The manager's context is cancelled; the stop hook enters Close.
Stop ==
  /\ alive /\ closing = 0 /\ stops < MaxStops
  /\ closing' = 1 /\ stops' = stops + 1
  /\ overlap' = (op.phase \in {"clean", "structure"})
  /\ UNCHANGED <<guard, alive, kernel, faults, crashes,
                 granted, torn, inherited, startOK, closeOK, mistaken>>

\* Close cleans one hook, concurrently with the call in progress.
CloseHookUnforced ==          \* mutant: structure(false), only an empty chain goes
  /\ alive /\ closing \in Hooks
  /\ chains' = IF \E r \in rules : r.hook = closing THEN chains ELSE chains \ {closing}
  /\ closing' = closing + 1
  /\ closeOK' = (closing = NHooks)
  /\ UNCHANGED <<guard, alive, rules, bounds, granted, torn, inherited, startOK, overlap, mistaken>>

CloseHook ==
  /\ alive /\ closing \in Hooks
  /\ chains' = chains \ {closing}
  /\ Keep({r \in rules : r.hook # closing})
  /\ closing' = closing + 1
  /\ closeOK' = (closing = NHooks)
  /\ UNCHANGED <<guard, alive, bounds, granted, torn, startOK, overlap, mistaken>>

\* A transaction of Close fails: Close returns the error.
CloseFails ==
  /\ alive /\ closing \in Hooks /\ faults < MaxFaults
  /\ faults' = faults + 1
  /\ closing' = NHooks + 1
  /\ UNCHANGED <<guard, alive, kernel, crashes, stops, history>>

\* What the process knew is gone.
Forget ==
  /\ alive' = FALSE
  /\ listens' = {} /\ once' = FALSE /\ op' = Idle /\ result' = "none" /\ closing' = 0
  /\ granted' = [k \in Keys |-> NoTarget] /\ torn' = {} /\ startOK' = FALSE
  /\ UNCHANGED <<kernel, faults, stops, inherited, closeOK, overlap, mistaken>>

\* Close returned and the workers have ended.
Exit == alive /\ closing = NHooks + 1 /\ op.phase = "idle" /\ Forget /\ UNCHANGED crashes

Crash == alive /\ crashes < MaxCrashes /\ crashes' = crashes + 1 /\ Forget

Restart ==
  /\ ~alive /\ alive' = TRUE
  /\ inherited' = rules
  /\ closeOK' = FALSE /\ overlap' = FALSE
  /\ UNCHANGED <<guard, closing, kernel, bounds, granted, torn, startOK, mistaken>>

-----------------------------------------------------------------------------
Next ==
  \/ \E k \in Keys, t \in Targets : AddForwarding(k, t) \/ RemoveForwarding(k, t)
  \/ Transaction
  \/ Stop \/ CloseHook \/ CloseFails
  \/ Exit \/ Crash \/ Restart

Spec == Init /\ [][Next]_vars

-----------------------------------------------------------------------------
(* Properties.                                                             *)

Installed(k, t) == \A h \in Hooks : RuleOf(k, t, h) \in rules

\* The guard's books agree with the kernel: a key listed in gpf.listens has
\* the rules of all four hooks for the target it was added with, unless its
\* removal is under way or failed half way.  In particular once.Do(start),
\* which deletes every rule, never runs while a key is listed.
ListedIsInstalled ==
  alive /\ closing = 0 =>
    \A k \in listens : \/ k \in torn
                       \/ op.phase = "cleanup" /\ op.key = k
                       \/ Installed(k, granted[k])

\* When start() returned nil no rule of an earlier process is left.  Only a
\* transaction that failed makes start() return an error: once.Do does not run
\* it again, and the process serves beside the rules it found.
StartWipesInherited ==
  /\ alive /\ startOK => inherited = {}
  /\ alive /\ once /\ ~startOK => op.phase \in {"clean", "structure"} \/ faults > 0

\* What the books do not account for: a transaction has failed, or a key was
\* removed with a target it was not added with.
Disturbed == faults > 0 \/ mistaken

\* Between two calls every rule in the kernel is accounted for: it is left
\* from an earlier process, or it belongs to a listed key and to the target
\* that key was added with; also when a graceful shutdown or a crash came in
\* between.
NoOrphanRule ==
  alive /\ closing = 0 /\ op.phase = "idle" /\ ~Disturbed =>
    \A r \in rules \ inherited : r.key \in listens /\ r.target = granted[r.key]

\* A process whose Close returned nil leaves neither rules nor chains behind,
\* whatever calls the draining workers had in progress, provided start() did
\* not run at the same time as Close.
CloseLeavesNothing == ~alive /\ closeOK /\ ~overlap => rules = {} /\ chains = {}

\* The kernel redirects a port to at most one target and never moves it
\* without withdrawing it first, unless the books are wrong or Close is at
\* work: the PREROUTING rules implement RouteTable.
Routes == {<<r.key, r.target>> : r \in {s \in rules : s.hook = Prerouting}}
RT == INSTANCE RouteTable WITH routes <- Routes, disturbed <- Disturbed \/ closing > 0
ImplementsRouteTable == RT!RouteTableSpec
=============================================================================
