--------------------------- MODULE Forwarder_proofs ---------------------------
(***************************************************************************)
(* Proofs about Forwarder for every set of keys and targets and for every  *)
(* bound on faults, crashes and shutdowns: what is listed is installed,    *)
(* rules are accounted for, a Close that never met start leaves nothing,   *)
(* and the redirects implement RouteTable.                                 *)
(***************************************************************************)
EXTENDS Forwarder, TLAPS

\* The record of a call that enters the backend is a call in progress.
LEMMA CallIsOp ==
  ASSUME NEW p \in Phases, NEW k \in Keys, NEW t \in Targets, NEW h \in Hooks,
         op' = Call(p, k, t, h)
  PROVE  OpOK'
BY DEF OpOK, Call, Phases

\* So is the empty one.
LEMMA IdleIsOp == (op = Idle => OpOK) /\ (op' = Idle => OpOK')
BY DEF OpOK, Idle, Call, Hooks, NHooks, Phases

\* No key granted is a granting.
LEMMA NoGrant == [k \in Keys |-> NoTarget] \in [Keys -> Targets \cup {NoTarget}]
OBVIOUS

\* Moving to the next hook, or to the next phase, keeps the call well formed.
LEMMA AdvanceKeepsOp ==
  ASSUME OpOK, op.phase # "idle", NEW next \in {"idle", "structure", "present"},
         Advance(next)
  PROVE  OpOK'
<1>1. CASE op.hook < NHooks
  BY <1>1 DEF Advance, OpOK, Hooks, NHooks, Phases
<1>2. CASE ~(op.hook < NHooks) /\ next = "idle"
  BY <1>2, IdleIsOp DEF Advance
<1>3. CASE ~(op.hook < NHooks) /\ next # "idle"
  <2>1. op' = Call(next, op.key, op.target, 1)
    BY <1>3 DEF Advance
  <2>2. next \in Phases /\ op.key \in Keys /\ op.target \in Targets /\ 1 \in Hooks
    BY <1>3 DEF OpOK, Phases, Hooks, NHooks
  <2>3. QED
    BY <2>1, <2>2, CallIsOp
<1>4. QED
  BY <1>1, <1>2, <1>3

\* The initial state is well typed.
LEMMA TypeInit == Init => TypeOK
<1>1. Init => OpOK
  BY IdleIsOp DEF Init
<1>2. Init => granted \in [Keys -> Targets \cup {NoTarget}]
  BY NoGrant DEF Init
<1>3. Init => /\ listens \subseteq Keys /\ chains \subseteq Hooks /\ rules \subseteq Rule
              /\ torn \subseteq Keys /\ inherited \subseteq rules
  BY DEF Init
<1>4. Init => /\ once \in BOOLEAN /\ alive \in BOOLEAN /\ startOK \in BOOLEAN
              /\ closeOK \in BOOLEAN /\ overlap \in BOOLEAN /\ mistaken \in BOOLEAN /\ result \in Results
  BY DEF Init, Results
<1>5. Init => /\ faults \in 0..MaxFaults /\ crashes \in 0..MaxCrashes
              /\ stops \in 0..MaxStops /\ closing \in 0..(NHooks + 1)
  BY BoundsAssumption DEF Init, NHooks
<1>6. QED
  BY <1>1, <1>2, <1>3, <1>4, <1>5 DEF TypeOK

\* Every step keeps every variable in its set.
LEMMA TypeIsInductive == TypeOK /\ [Next]_vars => TypeOK'
<1> SUFFICES ASSUME TypeOK, [Next]_vars PROVE TypeOK'
  OBVIOUS
<1> USE BoundsAssumption
<1> USE DEF TypeOK, guard, kernel, bounds, history, Results
<1>1. ASSUME NEW k \in Keys, NEW t \in Targets, AddForwarding(k, t) PROVE TypeOK'
  <2>1. CASE UNCHANGED op
    BY <1>1, <2>1 DEF AddForwarding, Return, Enter, OpOK, Call, NHooks
  <2>2. CASE op' = Call(IF once THEN "present" ELSE "clean", k, t, 1)
    <3>1. OpOK'
      BY <2>2, CallIsOp DEF Phases, Hooks, NHooks
    <3>2. QED
      BY <1>1, <3>1 DEF AddForwarding, Return, Enter
  <2>3. QED
    BY <1>1, <2>1, <2>2 DEF AddForwarding, Return, Enter
<1>2. ASSUME NEW k \in Keys, NEW t \in Targets, RemoveForwarding(k, t) PROVE TypeOK'
  <2>1. CASE UNCHANGED op
    BY <1>2, <2>1 DEF RemoveForwarding, Return, OpOK, Call, NHooks
  <2>2. CASE op' = Call("cleanup", k, t, 1)
    <3>1. OpOK'
      BY <2>2, CallIsOp DEF Phases, Hooks, NHooks
    <3>2. QED
      BY <1>2, <3>1 DEF RemoveForwarding, Return
  <2>3. QED
    BY <1>2, <2>1, <2>2 DEF RemoveForwarding, Return
<1>3. CASE alive /\ CleanHook
  <2>1. OpOK'
    BY <1>3, AdvanceKeepsOp DEF CleanHook
  <2>2. QED
    BY <1>3, <2>1 DEF CleanHook, Keep
<1>4. CASE alive /\ StructureHook
  <2>1. OpOK'
    BY <1>4, AdvanceKeepsOp DEF StructureHook
  <2>2. op.hook \in Hooks
    BY DEF OpOK
  <2>3. QED
    BY <1>4, <2>1, <2>2 DEF StructureHook
<1>5. CASE alive /\ PresentHook
  <2>1. OpOK'
    BY <1>5, AdvanceKeepsOp DEF PresentHook
  <2>2. RuleOf(op.key, op.target, op.hook) \in Rule /\ op.key \in Keys /\ op.target \in Targets
    BY <1>5 DEF PresentHook, OpOK, RuleOf, Rule
  <2>3. QED
    BY <1>5, <2>1, <2>2 DEF PresentHook
<1>6. CASE alive /\ CleanupHook
  <2>1. OpOK'
    BY <1>6, AdvanceKeepsOp DEF CleanupHook
  <2>2. QED
    BY <1>6, <2>1 DEF CleanupHook, Keep, OpOK
<1>7. CASE alive /\ FailHook
  <2>1. OpOK'
    BY <1>7, IdleIsOp DEF FailHook
  <2>2. QED
    BY <1>7, <2>1 DEF FailHook, OpOK
<1>8. CASE Stop
  BY <1>8 DEF Stop, OpOK, NHooks
<1>9. CASE CloseHook
  BY <1>9 DEF CloseHook, Keep, OpOK, Hooks, NHooks
<1>10. CASE CloseFails
  BY <1>10 DEF CloseFails, OpOK, NHooks
<1>11. ASSUME Forget, crashes' \in 0..MaxCrashes PROVE TypeOK'
  <2>1. OpOK'
    BY <1>11, IdleIsOp DEF Forget
  <2>2. granted' \in [Keys -> Targets \cup {NoTarget}]
    BY <1>11, NoGrant DEF Forget
  <2>3. /\ listens' \subseteq Keys /\ torn' \subseteq Keys /\ chains' \subseteq Hooks
        /\ rules' \subseteq Rule /\ inherited' \subseteq rules'
    BY <1>11 DEF Forget
  <2>4. /\ once' \in BOOLEAN /\ alive' \in BOOLEAN /\ startOK' \in BOOLEAN
        /\ closeOK' \in BOOLEAN /\ overlap' \in BOOLEAN /\ mistaken' \in BOOLEAN /\ result' \in Results
    BY <1>11 DEF Forget
  <2>5. faults' \in 0..MaxFaults /\ stops' \in 0..MaxStops /\ closing' \in 0..(NHooks + 1)
    BY <1>11 DEF Forget, NHooks
  <2>6. QED
    BY <1>11, <2>1, <2>2, <2>3, <2>4, <2>5 DEF TypeOK
<1>12. CASE Exit
  BY <1>11, <1>12 DEF Exit
<1>13. CASE Crash
  BY <1>11, <1>13 DEF Crash
<1>14. CASE Restart
  BY <1>14 DEF Restart, OpOK
<1>15. CASE UNCHANGED vars
  BY <1>15 DEF vars, OpOK
<1>16. QED
  BY <1>1, <1>2, <1>3, <1>4, <1>5, <1>6, <1>7, <1>8, <1>9, <1>10, <1>12,
     <1>13, <1>14, <1>15 DEF Next, Transaction

\* THEOREM: every variable stays in its set; the history variable inherited
\* stays within the rules the kernel holds.
THEOREM TypeInvariant == Spec => []TypeOK
BY TypeInit, TypeIsInductive, PTL DEF Spec

-----------------------------------------------------------------------------
(* ListedIsInstalled and StartWipesInherited are not inductive: that start *)
(* never deletes the rules of a listed key rests on start running before   *)
(* the first key is listed, and on a call knowing what it has done so far. *)

\* A dead process knows nothing.
DeadIsEmpty == ~alive => listens = {} /\ ~once /\ op.phase = "idle" /\ closing = 0 /\ ~startOK

\* Nothing is listed before once.Do(start) ran, nor while start runs.
StartPrecedesListing ==
  /\ ~once => listens = {} /\ op.phase = "idle" /\ ~startOK
  /\ op.phase \in {"clean", "structure"} => listens = {} /\ ~startOK

\* start has wiped the hooks it has passed.
WipedSoFar ==
  /\ op.phase = "clean" => \A r \in inherited : r.hook >= op.hook
  /\ op.phase = "structure" => inherited = {}

\* A call that presents rules has installed those of the hooks it has passed,
\* for a key that is not listed.
PresentedSoFar ==
  op.phase = "present" /\ closing = 0 =>
    /\ op.key \notin listens
    /\ \A h \in Hooks : h < op.hook => RuleOf(op.key, op.target, h) \in rules

\* The inductive invariant, beside the types.
Books == /\ DeadIsEmpty /\ StartPrecedesListing /\ WipedSoFar /\ PresentedSoFar
         /\ ListedIsInstalled /\ StartWipesInherited

\* The initial state satisfies the invariant.
LEMMA BooksInit == Init => Books
BY DEF Init, Books, DeadIsEmpty, StartPrecedesListing, WipedSoFar, PresentedSoFar,
       ListedIsInstalled, StartWipesInherited, Idle, Call

\* Every step keeps the invariant.
LEMMA BooksStep == TypeOK /\ TypeOK' /\ Books /\ [Next]_vars => Books'
<1> SUFFICES ASSUME TypeOK, TypeOK', Books, [Next]_vars PROVE Books'
  OBVIOUS
<1> USE DEF Books, guard, kernel, bounds, history
<1>0. OpOK /\ OpOK' /\ inherited \subseteq rules /\ rules \subseteq Rule /\ listens \subseteq Keys
  BY DEF TypeOK
<1>1. ASSUME NEW k \in Keys, NEW t \in Targets, AddForwarding(k, t) PROVE Books'
  <2>1. CASE UNCHANGED <<listens, once, op, closing, alive, kernel, bounds, history>>
    BY <2>1 DEF DeadIsEmpty, StartPrecedesListing, WipedSoFar, PresentedSoFar,
       ListedIsInstalled, StartWipesInherited, Installed
  <2>2. CASE k \notin listens /\ op' = Call(IF once THEN "present" ELSE "clean", k, t, 1)
             /\ once' = TRUE
             /\ UNCHANGED <<listens, closing, alive, kernel, faults, granted, torn, inherited, startOK>>
    <3>1. op.phase = "idle" /\ alive
      BY <1>1 DEF AddForwarding
    <3>2. op'.key = k /\ op'.hook = 1 /\ op'.target = t
          /\ op'.phase = IF once THEN "present" ELSE "clean"
      BY <2>2 DEF Call
    <3>3. DeadIsEmpty' /\ StartPrecedesListing' /\ StartWipesInherited'
      BY <2>2, <3>1, <3>2 DEF DeadIsEmpty, StartPrecedesListing, StartWipesInherited
    <3>4. WipedSoFar'
      BY <2>2, <3>2, <1>0 DEF WipedSoFar, Rule, Hooks, NHooks
    <3>5. PresentedSoFar'
      BY <2>2, <3>2 DEF PresentedSoFar, Hooks, NHooks
    <3>6. ListedIsInstalled'
      BY <2>2, <3>1, <3>2 DEF ListedIsInstalled, Installed
    <3>7. QED
      BY <3>3, <3>4, <3>5, <3>6
  <2>3. QED
    BY <1>1, <2>1, <2>2 DEF AddForwarding, Return, Enter
<1>2. ASSUME NEW k \in Keys, NEW t \in Targets, RemoveForwarding(k, t) PROVE Books'
  <2>1. CASE UNCHANGED <<listens, once, op, closing, alive, kernel, bounds, history>>
    BY <2>1 DEF DeadIsEmpty, StartPrecedesListing, WipedSoFar, PresentedSoFar,
       ListedIsInstalled, StartWipesInherited, Installed
  <2>2. CASE k \in listens /\ op' = Call("cleanup", k, t, 1)
             /\ UNCHANGED <<listens, once, closing, alive, kernel, faults,
                            granted, torn, inherited, startOK>>
    <3>1. op.phase = "idle" /\ alive
      BY <1>2 DEF RemoveForwarding
    <3>2. op'.phase = "cleanup" /\ op'.key = k
      BY <2>2 DEF Call
    <3>3. QED
      BY <2>2, <3>1, <3>2 DEF DeadIsEmpty, StartPrecedesListing, WipedSoFar, PresentedSoFar,
         ListedIsInstalled, StartWipesInherited, Installed
  <2>3. QED
    BY <1>2, <2>1, <2>2 DEF RemoveForwarding, Return
<1>3. CASE alive /\ CleanHook
  <2>1. op.phase = "clean" /\ listens = {} /\ ~startOK /\ once /\ op.hook \in 1..4
    BY <1>3, <1>0 DEF CleanHook, StartPrecedesListing, OpOK, Hooks, NHooks
  <2>2. /\ UNCHANGED <<listens, once, closing, alive, faults, startOK>>
        /\ inherited' = {r \in inherited : r.hook # op.hook}
    BY <1>3, <1>0 DEF CleanHook, Keep
  <2>3. \A r \in inherited : r.hook \in 1..4 /\ r.hook >= op.hook
    BY <2>1, <1>0 DEF WipedSoFar, Rule, Hooks, NHooks
  <2>4. CASE op.hook < NHooks
    <3>1. op'.phase = "clean" /\ op'.hook = op.hook + 1
      BY <1>3, <1>0, <2>1, <2>4 DEF CleanHook, Advance, OpOK
    <3>2. WipedSoFar'
      BY <2>1, <2>2, <2>3, <3>1 DEF WipedSoFar
    <3>3. QED
      BY <2>1, <2>2, <3>1, <3>2, <1>3 DEF DeadIsEmpty, StartPrecedesListing, PresentedSoFar,
         ListedIsInstalled, StartWipesInherited
  <2>5. CASE ~(op.hook < NHooks)
    <3>1. op'.phase = "structure"
      BY <1>3, <2>5 DEF CleanHook, Advance, Call
    <3>2. WipedSoFar'
      BY <2>1, <2>2, <2>3, <2>5, <3>1 DEF WipedSoFar, NHooks
    <3>3. QED
      BY <2>1, <2>2, <3>1, <3>2, <1>3 DEF DeadIsEmpty, StartPrecedesListing, PresentedSoFar,
         ListedIsInstalled, StartWipesInherited
  <2>6. QED
    BY <2>4, <2>5
<1>4. CASE alive /\ StructureHook
  <2>1. op.phase = "structure" /\ listens = {} /\ ~startOK /\ once /\ op.hook \in 1..4
        /\ inherited = {}
    BY <1>4, <1>0 DEF StructureHook, StartPrecedesListing, OpOK, Hooks, NHooks, WipedSoFar
  <2>2. UNCHANGED <<listens, once, closing, alive, faults, inherited>>
        /\ startOK' = IF op.hook = NHooks THEN TRUE ELSE startOK
    BY <1>4 DEF StructureHook
  <2>3. CASE op.hook < NHooks
    <3>1. op'.phase = "structure"
      BY <1>4, <1>0, <2>1, <2>3 DEF StructureHook, Advance, OpOK
    <3>2. ~startOK'
      BY <2>1, <2>2, <2>3 DEF NHooks
    <3>3. QED
      BY <2>1, <2>2, <3>1, <3>2, <1>4 DEF DeadIsEmpty, StartPrecedesListing, WipedSoFar,
         PresentedSoFar, ListedIsInstalled, StartWipesInherited
  <2>4. CASE ~(op.hook < NHooks)
    <3>1. op'.phase = "present" /\ op'.hook = 1
      BY <1>4, <2>4 DEF StructureHook, Advance, Call
    <3>2. startOK'
      BY <2>1, <2>2, <2>4 DEF NHooks
    <3>3. StartWipesInherited'
      BY <2>1, <2>2, <3>2 DEF StartWipesInherited
    <3>4. PresentedSoFar'
      BY <2>1, <2>2, <3>1 DEF PresentedSoFar, Hooks, NHooks
    <3>5. QED
      BY <2>1, <2>2, <3>1, <3>3, <3>4, <1>4 DEF DeadIsEmpty, StartPrecedesListing,
         WipedSoFar, ListedIsInstalled
  <2>5. QED
    BY <2>3, <2>4
<1>5. CASE alive /\ PresentHook
  <2> DEFINE r == RuleOf(op.key, op.target, op.hook)
  <2>1. /\ op.phase = "present" /\ once /\ op.hook \in 1..4 /\ op.key \in Keys
        /\ UNCHANGED <<once, closing, alive, faults, torn, startOK>>
        /\ rules' = rules \cup {r} /\ inherited' \subseteq inherited
    BY <1>5, <1>0 DEF PresentHook, StartPrecedesListing, OpOK, Hooks, NHooks
  <2>2. CASE op.hook < NHooks
    <3>1. op'.phase = "present" /\ op'.hook = op.hook + 1 /\ op'.key = op.key
          /\ op'.target = op.target /\ listens' = listens /\ granted' = granted
      BY <1>5, <1>0, <2>1, <2>2 DEF PresentHook, Advance, OpOK, NHooks
    <3>2. PresentedSoFar'
      BY <2>1, <3>1 DEF PresentedSoFar, Hooks, NHooks
    <3>3. ListedIsInstalled'
      BY <2>1, <3>1 DEF ListedIsInstalled, Installed
    <3>4. QED
      BY <1>5, <2>1, <3>1, <3>2, <3>3 DEF DeadIsEmpty, StartPrecedesListing, WipedSoFar,
         StartWipesInherited
  <2>3. CASE ~(op.hook < NHooks)
    <3>1. op'.phase = "idle" /\ listens' = listens \cup {op.key}
          /\ granted' = [granted EXCEPT ![op.key] = op.target]
      BY <1>5, <2>1, <2>3 DEF PresentHook, Advance, Idle, Call, NHooks
    <3>2. ASSUME alive', closing' = 0, NEW k \in listens', k \notin torn'
          PROVE Installed(k, granted[k])'
      <4>1. CASE k = op.key
        <5>1. granted'[k] = op.target
          BY <4>1, <3>1, <2>1 DEF TypeOK
        <5>2. \A h \in Hooks : RuleOf(op.key, op.target, h) \in rules'
          BY <2>1, <2>3, <3>2 DEF PresentedSoFar, Hooks, NHooks
        <5>3. QED
          BY <4>1, <5>1, <5>2 DEF Installed
      <4>2. CASE k # op.key
        <5>1. k \in listens /\ granted'[k] = granted[k] /\ k \notin torn
          BY <4>2, <3>1, <3>2, <2>1, <1>0 DEF TypeOK
        <5>2. Installed(k, granted[k])
          BY <5>1, <2>1, <3>2 DEF ListedIsInstalled
        <5>3. QED
          BY <5>1, <5>2, <2>1 DEF Installed
      <4>3. QED
        BY <4>1, <4>2
    <3>3. ListedIsInstalled'
      BY <3>2 DEF ListedIsInstalled
    <3>4. QED
      BY <1>5, <2>1, <3>1, <3>3 DEF DeadIsEmpty, StartPrecedesListing, WipedSoFar,
         PresentedSoFar, StartWipesInherited
  <2>4. QED
    BY <2>2, <2>3
<1>6. CASE alive /\ CleanupHook
  <2>1. /\ op.phase = "cleanup" /\ once /\ op.hook \in 1..4 /\ op.key \in Keys
        /\ UNCHANGED <<once, closing, alive, faults, startOK>>
        /\ rules' = rules \ {RuleOf(op.key, op.target, op.hook)} /\ inherited' \subseteq inherited
    BY <1>6, <1>0 DEF CleanupHook, Keep, StartPrecedesListing, OpOK, Hooks, NHooks
  <2>2. \A k \in Keys : k # op.key /\ Installed(k, granted[k]) =>
          \A h \in Hooks : RuleOf(k, granted[k], h) \in rules'
    BY <2>1 DEF Installed, RuleOf
  <2>3. CASE op.hook < NHooks
    <3>1. op'.phase = "cleanup" /\ op'.key = op.key
          /\ listens' = listens /\ granted' = granted /\ torn' = torn
      BY <1>6, <1>0, <2>1, <2>3 DEF CleanupHook, Advance, OpOK, NHooks
    <3>2. ListedIsInstalled'
      BY <1>0, <2>1, <2>2, <3>1 DEF ListedIsInstalled, Installed
    <3>3. QED
      BY <1>6, <2>1, <3>1, <3>2 DEF DeadIsEmpty, StartPrecedesListing, WipedSoFar,
         PresentedSoFar, StartWipesInherited
  <2>4. CASE ~(op.hook < NHooks)
    <3>1. op'.phase = "idle" /\ listens' = listens \ {op.key} /\ torn' = torn \ {op.key}
          /\ granted' = [granted EXCEPT ![op.key] = NoTarget]
      BY <1>6, <2>1, <2>4 DEF CleanupHook, Advance, Idle, Call, NHooks
    <3>2. \A k \in listens' : k \in listens /\ k # op.key /\ granted'[k] = granted[k]
                              /\ (k \in torn <=> k \in torn')
      BY <3>1, <1>0 DEF TypeOK
    <3>3. ListedIsInstalled'
      BY <1>0, <2>1, <2>2, <3>2 DEF ListedIsInstalled, Installed
    <3>4. QED
      BY <1>6, <2>1, <3>1, <3>3 DEF DeadIsEmpty, StartPrecedesListing, WipedSoFar,
         PresentedSoFar, StartWipesInherited
  <2>5. QED
    BY <2>3, <2>4
<1>7. CASE alive /\ FailHook
  <2>1. /\ op.phase # "idle" /\ once /\ op'.phase = "idle"
        /\ UNCHANGED <<listens, once, closing, alive, kernel, granted, inherited, startOK>>
        /\ torn' = IF op.phase = "cleanup" THEN torn \cup {op.key} ELSE torn
        /\ \/ op.phase = "present" /\ faults' = faults
           \/ faults' = faults + 1
    BY <1>7 DEF FailHook, StartPrecedesListing, Idle, Call
  <2>2. StartWipesInherited'
    BY <1>7, <2>1 DEF StartWipesInherited, TypeOK
  <2>3. QED
    BY <1>7, <2>1, <2>2 DEF DeadIsEmpty, StartPrecedesListing, WipedSoFar, PresentedSoFar,
       ListedIsInstalled, StartWipesInherited, Installed
<1>8. CASE Stop
  BY <1>8 DEF Stop, DeadIsEmpty, StartPrecedesListing, WipedSoFar, PresentedSoFar,
     ListedIsInstalled, StartWipesInherited
<1>9. CASE CloseHook
  <2>1. closing' # 0
    BY <1>9 DEF CloseHook, Hooks, NHooks
  <2>2. QED
    BY <1>9, <2>1 DEF CloseHook, Keep, DeadIsEmpty, StartPrecedesListing, WipedSoFar,
       PresentedSoFar, ListedIsInstalled, StartWipesInherited
<1>10. CASE CloseFails
  BY <1>10 DEF TypeOK, CloseFails, DeadIsEmpty, StartPrecedesListing, WipedSoFar,
     PresentedSoFar, ListedIsInstalled, StartWipesInherited, NHooks
<1>11. ASSUME Forget PROVE Books'
  <2>1. op'.phase = "idle"
    BY <1>11 DEF Forget, Idle, Call
  <2>2. QED
    BY <1>11, <2>1 DEF Forget, DeadIsEmpty, StartPrecedesListing, WipedSoFar,
       PresentedSoFar, ListedIsInstalled, StartWipesInherited
<1>12. CASE Exit
  BY <1>11, <1>12 DEF Exit
<1>13. CASE Crash
  BY <1>11, <1>13 DEF Crash
<1>14. CASE Restart
  BY <1>14 DEF Restart, DeadIsEmpty, StartPrecedesListing, WipedSoFar,
     PresentedSoFar, ListedIsInstalled, StartWipesInherited
<1>15. CASE UNCHANGED vars
  BY <1>15 DEF vars, DeadIsEmpty, StartPrecedesListing, WipedSoFar,
     PresentedSoFar, ListedIsInstalled, StartWipesInherited, Installed
<1>16. QED
  BY <1>1, <1>2, <1>3, <1>4, <1>5, <1>6, <1>7, <1>8, <1>9, <1>10, <1>12,
     <1>13, <1>14, <1>15 DEF Next, Transaction

\* The books the process keeps hold in every reachable state.
LEMMA BooksInvariant == Spec => []Books
BY TypeInvariant, BooksInit, BooksStep, PTL DEF Spec

\* THEOREM: a key the guard lists is installed in all four hooks for the
\* target it was added with, through faults, crashes and callers that remove
\* keys with the wrong target.
THEOREM ListedKeysAreInstalled == Spec => []ListedIsInstalled
<1>1. Books => ListedIsInstalled
  BY DEF Books
<1>2. QED
  BY BooksInvariant, <1>1, PTL

\* THEOREM: once start() returned nil no rule of an earlier process is left.
THEOREM StartWipesOlderRules == Spec => []StartWipesInherited
<1>1. Books => StartWipesInherited
  BY DEF Books
<1>2. QED
  BY BooksInvariant, <1>1, PTL

-----------------------------------------------------------------------------
(* NoOrphanRule and the refinement of RouteTable rest on an account of     *)
(* every rule in the kernel, by the call in progress where no listed key   *)
(* accounts for it, and on the chains standing once start has run.         *)

\* start has created the chains of the hooks it has passed, and they stand
\* until Close or the next process takes them away.
ChainsStand ==
  alive /\ closing = 0 =>
    /\ op.phase = "structure" => \A h \in Hooks : h < op.hook => h \in chains
    /\ startOK => chains = Hooks

\* While nothing has disturbed the books, a removal names the target of its
\* key, and every rule that is not inherited belongs to a listed key, or to
\* the call that presents it.  A removal has deleted the rules of its key from
\* the hooks it has passed.
Accounted ==
  alive /\ closing = 0 /\ ~Disturbed =>
    /\ op.phase = "cleanup" => /\ op.key \in listens /\ op.target = granted[op.key]
                               /\ \A r \in rules : r.key = op.key => r.hook >= op.hook
    /\ \A r \in rules \ inherited :
         \/ r.key \in listens /\ r.target = granted[r.key]
         \/ op.phase = "present" /\ r.key = op.key /\ r.target = op.target /\ r.hook < op.hook

\* A Close that never met start has emptied the hooks it has passed, and they
\* stay empty: no rule can be added to a chain that is gone.
CloseWipes ==
  /\ alive /\ closeOK => closing = NHooks + 1
  /\ ~overlap =>
       /\ alive /\ closing > 0 => op.phase \notin {"clean", "structure"}
       /\ alive /\ closing \in Hooks =>
            \A h \in Hooks : h < closing => h \notin chains /\ \A r \in rules : r.hook # h
       /\ closeOK => rules = {} /\ chains = {}

-----------------------------------------------------------------------------
(* The chains.                                                             *)

\* The initial state has no chain and needs none.
LEMMA ChainsInit == Init => ChainsStand
BY DEF Init, ChainsStand, Idle, Call

\* Outside start and Close no step touches a chain; start never runs again.
LEMMA ChainsStep == TypeOK /\ TypeOK' /\ Books /\ ChainsStand /\ [Next]_vars => ChainsStand'
<1> SUFFICES ASSUME TypeOK, TypeOK', Books, ChainsStand, [Next]_vars PROVE ChainsStand'
  OBVIOUS
<1> USE DEF guard, kernel, bounds, history
<1>0. OpOK /\ OpOK' /\ chains \subseteq Hooks /\ chains' \subseteq Hooks /\ StartPrecedesListing
  BY DEF TypeOK, Books
<1>1. CASE UNCHANGED <<chains, startOK>> /\ op'.phase # "structure"
           /\ (alive' /\ closing' = 0 /\ startOK' => alive /\ closing = 0)
  BY <1>1 DEF ChainsStand
<1>2. ASSUME NEW k \in Keys, NEW t \in Targets, AddForwarding(k, t) PROVE ChainsStand'
  <2>1. CASE UNCHANGED op
    BY <1>1, <1>2, <2>1 DEF AddForwarding, Return, Enter
  <2>2. CASE op' = Call(IF once THEN "present" ELSE "clean", k, t, 1)
    <3>1. op'.phase # "structure"
      BY <2>2 DEF Call
    <3>2. QED
      BY <1>1, <1>2, <3>1 DEF AddForwarding, Return, Enter
  <2>3. QED
    BY <1>2, <2>1, <2>2 DEF AddForwarding, Return, Enter
<1>3. ASSUME NEW k \in Keys, NEW t \in Targets, RemoveForwarding(k, t) PROVE ChainsStand'
  <2>1. op'.phase # "structure"
    <3>1. op.phase = "idle" /\ (op' = op \/ op' = Call("cleanup", k, t, 1))
      BY <1>3 DEF RemoveForwarding, Return
    <3>2. QED
      BY <3>1 DEF Call
  <2>2. QED
    BY <1>1, <1>3, <2>1 DEF RemoveForwarding, Return
<1>4. CASE alive /\ CleanHook
  <2>1. ~startOK /\ startOK' = startOK /\ op.hook \in 1..4
    BY <1>4, <1>0 DEF CleanHook, StartPrecedesListing, OpOK, Hooks, NHooks
  <2>2. op'.phase = "structure" => op'.hook = 1
    BY <1>4, <1>0, <2>1 DEF CleanHook, Advance, OpOK, Call, NHooks
  <2>3. QED
    BY <2>1, <2>2 DEF ChainsStand, Hooks, NHooks
<1>5. CASE alive /\ StructureHook
  <2>1. /\ op.phase = "structure" /\ ~startOK /\ op.hook \in 1..4 /\ closing' = closing
        /\ chains' = chains \cup {op.hook} /\ (startOK' <=> op.hook = 4)
    BY <1>5, <1>0 DEF StructureHook, StartPrecedesListing, OpOK, Hooks, NHooks
  <2>2. op'.phase = "structure" => op'.hook = op.hook + 1
    BY <1>5, <1>0, <2>1 DEF StructureHook, Advance, OpOK, Call, NHooks
  <2>3. closing = 0 => \A h \in Hooks : h < op.hook + 1 => h \in chains'
    BY <1>5, <2>1 DEF ChainsStand, Hooks, NHooks
  <2>4. closing = 0 /\ startOK' => chains' = Hooks
    BY <2>1, <2>3, <1>0 DEF Hooks, NHooks
  <2>5. QED
    BY <2>1, <2>2, <2>3, <2>4 DEF ChainsStand
<1>6. CASE alive /\ PresentHook
  <2>1. op'.phase # "structure"
    BY <1>6, <1>0 DEF PresentHook, Advance, OpOK, Idle, Call
  <2>2. QED
    BY <1>1, <1>6, <2>1 DEF PresentHook
<1>7. CASE alive /\ CleanupHook
  <2>1. op'.phase # "structure"
    BY <1>7, <1>0 DEF CleanupHook, Advance, OpOK, Idle, Call
  <2>2. QED
    BY <1>1, <1>7, <2>1 DEF CleanupHook
<1>8. CASE alive /\ FailHook
  BY <1>1, <1>8 DEF FailHook, Idle, Call
<1>9. CASE Stop
  BY <1>9 DEF Stop, ChainsStand
<1>10. CASE CloseHook \/ CloseFails
  BY <1>10 DEF CloseHook, CloseFails, ChainsStand, Hooks, NHooks
<1>11. CASE Exit \/ Crash
  BY <1>11 DEF Exit, Crash, Forget, ChainsStand
<1>12. CASE Restart
  BY <1>12, <1>0 DEF Restart, ChainsStand, Books, DeadIsEmpty
<1>13. CASE UNCHANGED vars
  BY <1>13 DEF vars, ChainsStand
<1>14. QED
  BY <1>2, <1>3, <1>4, <1>5, <1>6, <1>7, <1>8, <1>9, <1>10, <1>11, <1>12, <1>13
     DEF Next, Transaction

\* The chains stand in every reachable state.
LEMMA ChainsInvariant == Spec => []ChainsStand
BY TypeInvariant, BooksInvariant, ChainsInit, ChainsStep, PTL DEF Spec

-----------------------------------------------------------------------------
(* The account of the rules.                                               *)

\* A call that is past start, in a process that no transaction has failed,
\* finds every chain and no rule of an earlier process.
LEMMA PastStart ==
  ASSUME TypeOK, Books, ChainsStand, alive, closing = 0, ~Disturbed,
         op.phase \in {"present", "cleanup"}
  PROVE  startOK /\ inherited = {} /\ chains = Hooks
<1>1. once /\ ~(faults > 0)
  BY DEF Books, StartPrecedesListing, Disturbed
<1>2. startOK
  BY <1>1 DEF Books, StartWipesInherited, TypeOK
<1>3. QED
  BY <1>2 DEF Books, StartWipesInherited, ChainsStand

\* Nothing is there to account for in the initial state.
LEMMA AccountedInit == Init => Accounted
BY DEF Init, Accounted, Idle, Call

\* Every step keeps the account.
LEMMA AccountedStep ==
  TypeOK /\ TypeOK' /\ Books /\ ChainsStand /\ Accounted /\ [Next]_vars => Accounted'
<1> SUFFICES ASSUME TypeOK, TypeOK', Books, ChainsStand, Accounted, [Next]_vars PROVE Accounted'
  OBVIOUS
<1> USE DEF guard, kernel, bounds, history
<1>0. /\ OpOK /\ OpOK' /\ inherited \subseteq rules /\ rules \subseteq Rule /\ listens \subseteq Keys
      /\ faults \in Nat /\ granted \in [Keys -> Targets \cup {NoTarget}]
  BY BoundsAssumption DEF TypeOK
<1>1. ASSUME NEW k \in Keys, NEW t \in Targets, AddForwarding(k, t) PROVE Accounted'
  <2>1. CASE UNCHANGED op
    BY <1>1, <2>1 DEF AddForwarding, Return, Enter, Accounted, Disturbed
  <2>2. CASE op' = Call(IF once THEN "present" ELSE "clean", k, t, 1)
    <3>1. op'.phase # "cleanup" /\ op.phase = "idle"
      BY <1>1, <2>2 DEF AddForwarding, Call
    <3>2. QED
      BY <1>1, <3>1 DEF AddForwarding, Return, Enter, Accounted, Disturbed
  <2>3. QED
    BY <1>1, <2>1, <2>2 DEF AddForwarding, Return, Enter
<1>2. ASSUME NEW k \in Keys, NEW t \in Targets, RemoveForwarding(k, t) PROVE Accounted'
  <2>1. CASE UNCHANGED <<op, mistaken>>
    BY <1>2, <2>1 DEF RemoveForwarding, Return, Accounted, Disturbed
  <2>2. CASE /\ k \in listens /\ op' = Call("cleanup", k, t, 1)
             /\ mistaken' = (mistaken \/ t # granted[k])
             /\ UNCHANGED <<listens, closing, alive, kernel, faults, granted, inherited>>
    <3>1. op'.phase = "cleanup" /\ op'.key = k /\ op'.target = t /\ op'.hook = 1 /\ op.phase = "idle"
      BY <1>2, <2>2 DEF RemoveForwarding, Call
    <3>2. \A r \in rules : r.hook >= 1
      BY <1>0 DEF Rule, Hooks, NHooks
    <3>3. QED
      BY <2>2, <3>1, <3>2 DEF Accounted, Disturbed
  <2>3. QED
    BY <1>2, <2>1, <2>2 DEF RemoveForwarding, Return
<1>3. CASE alive /\ CleanHook
  <2>1. /\ op.phase = "clean" /\ UNCHANGED <<listens, closing, alive, faults, granted, mistaken>>
        /\ rules' = {r \in rules : r.hook # op.hook} /\ inherited' = inherited \cap rules'
    BY <1>3 DEF CleanHook, Keep
  <2>2. op'.phase # "cleanup"
    BY <1>3, <1>0 DEF CleanHook, Advance, OpOK, Call
  <2>3. QED
    BY <2>1, <2>2 DEF Accounted, Disturbed
<1>4. CASE alive /\ StructureHook
  <2>1. op'.phase # "cleanup" /\ op.phase = "structure"
    BY <1>4, <1>0 DEF StructureHook, Advance, OpOK, Call
  <2>2. QED
    BY <1>4, <2>1 DEF StructureHook, Accounted, Disturbed
<1>5. CASE alive /\ PresentHook
  <2> DEFINE new == RuleOf(op.key, op.target, op.hook)
  <2> SUFFICES ASSUME closing = 0, ~Disturbed PROVE Accounted'
    BY <1>5 DEF PresentHook, Accounted, Disturbed
  <2>1. /\ op.phase = "present" /\ op.hook \in 1..4 /\ op.key \in Keys /\ op.target \in Targets
        /\ op.key \notin listens /\ inherited = {}
        /\ rules' = rules \cup {new} /\ inherited' = {}
    BY <1>5, <1>0, PastStart DEF PresentHook, OpOK, Hooks, NHooks, Books, PresentedSoFar
  <2>2. new.key = op.key /\ new.target = op.target /\ new.hook = op.hook
    BY DEF RuleOf
  <2>3. \A r \in rules : \/ r.key \in listens /\ r.target = granted[r.key] /\ r.key # op.key
                         \/ r.key = op.key /\ r.target = op.target /\ r.hook < op.hook
    BY <1>5, <2>1 DEF Accounted
  <2>4. CASE op.hook < NHooks
    <3>1. /\ op'.phase = "present" /\ op'.key = op.key /\ op'.target = op.target
          /\ op'.hook = op.hook + 1 /\ UNCHANGED <<listens, granted>>
      BY <1>5, <1>0, <2>1, <2>4 DEF PresentHook, Advance, OpOK, NHooks
    <3>2. \A r \in rules : r.hook \in 1..4
      BY <1>0 DEF Rule, Hooks, NHooks
    <3>3. QED
      BY <2>1, <2>2, <2>3, <3>1, <3>2 DEF Accounted
  <2>5. CASE ~(op.hook < NHooks)
    <3>1. /\ op'.phase = "idle" /\ listens' = listens \cup {op.key}
          /\ granted' = [granted EXCEPT ![op.key] = op.target]
      BY <1>5, <2>1, <2>5 DEF PresentHook, Advance, Idle, Call, NHooks
    <3>2. \A r \in rules' : r.key \in listens' /\ r.target = granted'[r.key]
      BY <1>0, <2>1, <2>2, <2>3, <3>1
    <3>3. QED
      BY <3>1, <3>2 DEF Accounted
  <2>6. QED
    BY <2>4, <2>5
<1>6. CASE alive /\ CleanupHook
  <2> DEFINE old == RuleOf(op.key, op.target, op.hook)
  <2> SUFFICES ASSUME closing = 0, ~Disturbed PROVE Accounted'
    BY <1>6 DEF CleanupHook, Accounted, Disturbed
  <2>1. /\ op.phase = "cleanup" /\ op.hook \in 1..4 /\ op.key \in listens
        /\ op.target = granted[op.key] /\ inherited = {}
        /\ rules' = rules \ {old} /\ inherited' = {}
    BY <1>6, <1>0, PastStart DEF CleanupHook, Keep, OpOK, Hooks, NHooks, Accounted
  <2>2. \A r \in rules : /\ r.key \in listens /\ r.target = granted[r.key] /\ r.hook \in 1..4
                         /\ r.key = op.key => r.hook >= op.hook
    BY <1>6, <1>0, <2>1 DEF Accounted, Rule, Hooks, NHooks
  <2>3. \A r \in rules' : r.key = op.key => r.hook > op.hook
    <3>1. ASSUME NEW r \in rules, r.key = op.key, r.hook = op.hook PROVE r = old
      BY <1>0, <2>1, <2>2, <3>1 DEF Rule, RuleOf
    <3>2. QED
      BY <2>1, <2>2, <3>1
  <2>4. CASE op.hook < NHooks
    <3>1. /\ op'.phase = "cleanup" /\ op'.key = op.key /\ op'.target = op.target
          /\ op'.hook = op.hook + 1 /\ UNCHANGED <<listens, granted>>
      BY <1>6, <1>0, <2>1, <2>4 DEF CleanupHook, Advance, OpOK, NHooks
    <3>2. \A r \in rules' : r.key = op'.key => r.hook >= op'.hook
      BY <2>1, <2>2, <2>3, <3>1
    <3>3. QED
      BY <2>1, <2>2, <3>1, <3>2 DEF Accounted
  <2>5. CASE ~(op.hook < NHooks)
    <3>1. /\ op'.phase = "idle" /\ listens' = listens \ {op.key}
          /\ granted' = [granted EXCEPT ![op.key] = NoTarget]
      BY <1>6, <2>1, <2>5 DEF CleanupHook, Advance, Idle, Call, NHooks
    <3>2. \A r \in rules' : r.key \in listens' /\ r.target = granted'[r.key]
      BY <1>0, <2>1, <2>2, <2>3, <2>5, <3>1 DEF NHooks
    <3>3. QED
      BY <3>1, <3>2 DEF Accounted
  <2>6. QED
    BY <2>4, <2>5
<1>7. CASE alive /\ FailHook
  <2> SUFFICES ASSUME closing = 0, ~Disturbed' PROVE FALSE
    BY <1>7 DEF FailHook, Accounted
  <2>1. faults = 0 /\ ~Disturbed /\ op.phase = "present" /\ op.hook \notin chains
    BY <1>7, <1>0 DEF FailHook, Disturbed
  <2>2. chains = Hooks
    BY <1>7, <2>1, PastStart
  <2>3. QED
    BY <1>0, <2>1, <2>2 DEF OpOK
<1>8. CASE Stop \/ CloseHook \/ CloseFails
  BY <1>8 DEF Stop, CloseHook, CloseFails, Accounted, Hooks, NHooks
<1>9. CASE Exit \/ Crash
  BY <1>9 DEF Exit, Crash, Forget, Accounted
<1>10. CASE Restart
  <2>1. op'.phase = "idle"
    BY <1>10 DEF Restart, Books, DeadIsEmpty
  <2>2. QED
    BY <1>10, <2>1 DEF Restart, Accounted
<1>11. CASE UNCHANGED vars
  BY <1>11 DEF vars, Accounted, Disturbed
<1>12. QED
  BY <1>1, <1>2, <1>3, <1>4, <1>5, <1>6, <1>7, <1>8, <1>9, <1>10, <1>11 DEF Next, Transaction

\* The rules are accounted for in every reachable state.
LEMMA AccountedInvariant == Spec => []Accounted
BY TypeInvariant, BooksInvariant, ChainsInvariant, AccountedInit, AccountedStep, PTL DEF Spec

\* THEOREM: between two calls no rule in the kernel is without an owner, unless
\* a transaction failed or a key was removed with a target it was not added with.
THEOREM NoRuleIsOrphaned == Spec => []NoOrphanRule
<1>1. Accounted => NoOrphanRule
  BY DEF Accounted, NoOrphanRule
<1>2. QED
  BY AccountedInvariant, <1>1, PTL

-----------------------------------------------------------------------------
(* Close.                                                                  *)

\* Close has done nothing in the initial state.
LEMMA CloseInit == Init => CloseWipes
BY DEF Init, CloseWipes

\* Every step keeps what Close has emptied empty, unless start runs beside it.
LEMMA CloseStep == TypeOK /\ TypeOK' /\ Books /\ CloseWipes /\ [Next]_vars => CloseWipes'
<1> SUFFICES ASSUME TypeOK, TypeOK', Books, CloseWipes, [Next]_vars PROVE CloseWipes'
  OBVIOUS
<1> USE DEF guard, kernel, bounds, history
<1>0. /\ OpOK /\ OpOK' /\ rules \subseteq Rule /\ chains \subseteq Hooks
      /\ closing \in 0..5 /\ closeOK \in BOOLEAN /\ overlap \in BOOLEAN
  BY DEF TypeOK, NHooks
<1>1. ASSUME UNCHANGED <<closing, alive, kernel, closeOK>>, overlap => overlap',
             ~overlap' => (op'.phase \in {"clean", "structure"} =>
                             op.phase \in {"clean", "structure"} \/ closing = 0)
      PROVE  CloseWipes'
  BY <1>1, <1>0 DEF CloseWipes
<1>2. ASSUME NEW k \in Keys, NEW t \in Targets, AddForwarding(k, t) PROVE CloseWipes'
  <2>1. CASE UNCHANGED <<op, closing, alive, kernel, closeOK, overlap>>
    BY <1>1, <2>1
  <2>2. CASE /\ op' = Call(IF once THEN "present" ELSE "clean", k, t, 1)
             /\ overlap' = (overlap \/ (~once /\ closing > 0))
             /\ UNCHANGED <<closing, alive, kernel, closeOK>>
    <3>1. op'.phase = IF once THEN "present" ELSE "clean"
      BY <2>2 DEF Call
    <3>2. ~overlap' /\ op'.phase \in {"clean", "structure"} => ~once /\ ~(closing > 0)
      BY <2>2, <3>1
    <3>3. QED
      BY <1>1, <1>0, <2>2, <3>2
  <2>3. QED
    BY <1>2, <2>1, <2>2 DEF AddForwarding, Return, Enter
<1>3. ASSUME NEW k \in Keys, NEW t \in Targets, RemoveForwarding(k, t) PROVE CloseWipes'
  <2>1. op' = op \/ op' = Call("cleanup", k, t, 1)
    BY <1>3 DEF RemoveForwarding, Return
  <2>2. op' = op \/ op'.phase = "cleanup"
    BY <2>1 DEF Call
  <2>3. UNCHANGED <<closing, alive, kernel, closeOK, overlap>>
    BY <1>3 DEF RemoveForwarding, Return
  <2>4. QED
    BY <1>1, <2>2, <2>3
<1>4. ASSUME alive, UNCHANGED <<closing, alive, closeOK, overlap>>, op.phase \in {"clean", "structure"}
      PROVE  CloseWipes'
  <2>1. closeOK => overlap
    BY <1>4, <1>0 DEF CloseWipes, NHooks
  <2>2. ~overlap => closing = 0
    BY <1>4, <1>0 DEF CloseWipes
  <2>3. closeOK' => closing' = NHooks + 1
    BY <1>4 DEF CloseWipes
  <2>4. QED
    BY <1>4, <2>1, <2>2, <2>3 DEF CloseWipes, Hooks, NHooks
<1>5. CASE alive /\ CleanHook
  BY <1>4, <1>5 DEF CleanHook
<1>6. CASE alive /\ StructureHook
  BY <1>4, <1>6 DEF StructureHook
<1>7. CASE alive /\ PresentHook
  <2>1. /\ op.phase = "present" /\ op.hook \in chains /\ UNCHANGED <<closing, alive, chains, closeOK, overlap>>
        /\ rules' = rules \cup {RuleOf(op.key, op.target, op.hook)}
    BY <1>7 DEF PresentHook
  <2>2. op'.phase \notin {"clean", "structure"}
    BY <1>7, <1>0, <2>1 DEF PresentHook, Advance, OpOK, Idle, Call
  <2>3. QED
    BY <2>1, <2>2 DEF CloseWipes, RuleOf
<1>8. CASE alive /\ CleanupHook
  <2>1. /\ op.phase = "cleanup" /\ UNCHANGED <<closing, alive, chains, closeOK, overlap>>
        /\ rules' \subseteq rules
    BY <1>8 DEF CleanupHook, Keep
  <2>2. op'.phase \notin {"clean", "structure"}
    BY <1>8, <1>0, <2>1 DEF CleanupHook, Advance, OpOK, Idle, Call
  <2>3. QED
    BY <2>1, <2>2 DEF CloseWipes
<1>9. CASE alive /\ FailHook
  BY <1>1, <1>9 DEF FailHook, Idle, Call
<1>10. CASE Stop
  <2>1. /\ alive /\ alive' /\ closing = 0 /\ closing' = 1 /\ closeOK' = closeOK /\ op' = op
        /\ overlap' = (op.phase \in {"clean", "structure"})
    BY <1>10 DEF Stop
  <2>2. ~closeOK'
    BY <2>1 DEF CloseWipes, NHooks
  <2>3. ~overlap' => op'.phase \notin {"clean", "structure"}
    BY <2>1
  <2>4. \A h \in Hooks : ~(h < closing')
    BY <2>1 DEF Hooks, NHooks
  <2>5. QED
    BY <2>2, <2>3, <2>4 DEF CloseWipes
<1>11. CASE CloseHook
  <2>1. /\ alive /\ alive' /\ closing \in 1..4 /\ closing' = closing + 1 /\ UNCHANGED <<op, overlap>>
        /\ closeOK' = (closing = 4)
        /\ chains' = chains \ {closing} /\ rules' = {r \in rules : r.hook # closing}
    BY <1>11 DEF CloseHook, Keep, Hooks, NHooks
  <2>2. ~overlap => \A h \in Hooks : h < closing + 1 => h \notin chains' /\ \A r \in rules' : r.hook # h
    BY <2>1 DEF CloseWipes, Hooks, NHooks
  <2>3. ~overlap /\ closing = 4 => rules' = {} /\ chains' = {}
    BY <2>1, <2>2, <1>0 DEF Rule, Hooks, NHooks
  <2>4. ~overlap => op.phase \notin {"clean", "structure"}
    BY <2>1 DEF CloseWipes
  <2>5. QED
    BY <2>1, <2>2, <2>3, <2>4 DEF CloseWipes, NHooks
<1>12. CASE CloseFails
  BY <1>12, <1>0 DEF CloseFails, CloseWipes, Hooks, NHooks
<1>13. CASE Exit \/ Crash
  BY <1>13 DEF Exit, Crash, Forget, CloseWipes
<1>14. CASE Restart
  BY <1>14 DEF Restart, CloseWipes, Books, DeadIsEmpty, Hooks, NHooks
<1>15. CASE UNCHANGED vars
  BY <1>15 DEF vars, CloseWipes
<1>16. QED
  BY <1>2, <1>3, <1>5, <1>6, <1>7, <1>8, <1>9, <1>10, <1>11, <1>12, <1>13, <1>14, <1>15
     DEF Next, Transaction

\* THEOREM: a process whose Close returned nil leaves neither rules nor chains
\* behind, whatever calls were in progress, if start never ran beside Close.
THEOREM CloseLeavesNoRule == Spec => []CloseLeavesNothing
<1>1. CloseWipes => CloseLeavesNothing
  BY DEF CloseWipes, CloseLeavesNothing
<1>2. QED
  BY TypeInvariant, BooksInvariant, CloseInit, CloseStep, <1>1, PTL DEF Spec

-----------------------------------------------------------------------------
(* The refinement.                                                         *)

\* The redirects that do not change and the promise that stays on are a stutter.
RouteStep == [RT!RouteTableNext]_<<Routes, Disturbed \/ closing > 0>>

\* No redirect is in force at the beginning, and nothing has gone wrong.
LEMMA RoutesInit == Init => RT!RouteTableInit
BY BoundsAssumption DEF Init, RT!RouteTableInit, Routes, Disturbed

\* A step that leaves the PREROUTING rules alone, and the promise on or off.
LEMMA RoutesStutter ==
  ASSUME ~Disturbed, ~Disturbed', closing = 0, closing' = 0, Routes' = Routes
  PROVE  RouteStep
BY DEF RouteStep

\* A step from or to a state whose books are disturbed, or in which Close works.
LEMMA RoutesDisturbed ==
  ASSUME Disturbed \/ closing > 0 \/ Disturbed' \/ closing' > 0
  PROVE  RouteStep
BY DEF RouteStep, RT!RouteTableNext

\* Every other step installs a redirect of a port that had none, withdraws one
\* or all, or leaves them.
LEMMA RoutesRefined ==
  TypeOK /\ TypeOK' /\ Books /\ ChainsStand /\ Accounted /\ [Next]_vars => RouteStep
<1> SUFFICES ASSUME TypeOK, TypeOK', Books, ChainsStand, Accounted, [Next]_vars,
                    ~Disturbed, ~Disturbed', closing = 0, closing' = 0
             PROVE  RouteStep
  <2>1. TypeOK /\ TypeOK' => closing \in Nat /\ closing' \in Nat
    BY DEF TypeOK, NHooks
  <2>2. TypeOK /\ TypeOK' => (closing > 0 \/ closing = 0) /\ (closing' > 0 \/ closing' = 0)
    BY <2>1
  <2>3. QED
    BY RoutesDisturbed, <2>2
<1> USE DEF guard, kernel, bounds, history
<1>0. OpOK /\ rules \subseteq Rule /\ rules' \subseteq Rule
  BY DEF TypeOK
<1>1. CASE UNCHANGED rules
  BY <1>1, RoutesStutter DEF Routes
<1>2. ASSUME RT!Change PROVE RouteStep
  BY <1>2 DEF RouteStep, RT!RouteTableNext
<1>3. ASSUME NEW h \in Hooks, rules' = {r \in rules : r.hook # h} PROVE RouteStep
  <2>1. CASE h = Prerouting
    <3>1. Routes' = {}
      BY <1>3, <2>1 DEF Routes
    <3>2. QED
      BY <1>2, <3>1 DEF RT!Change, RT!WithdrawAll
  <2>2. CASE h # Prerouting
    <3>1. Routes' = Routes
      BY <1>3, <2>2 DEF Routes
    <3>2. QED
      BY <3>1, RoutesStutter
  <2>3. QED
    BY <2>1, <2>2
<1>4. CASE alive /\ CleanHook
  BY <1>3, <1>4, <1>0 DEF CleanHook, Keep, OpOK
<1>5. CASE alive /\ PresentHook
  <2> DEFINE new == RuleOf(op.key, op.target, op.hook)
  <2>1. /\ op.phase = "present" /\ op.key \in Keys /\ op.target \in Targets /\ op.hook \in Hooks
        /\ op.key \notin listens /\ inherited = {} /\ rules' = rules \cup {new}
    BY <1>5, <1>0, PastStart DEF PresentHook, OpOK, Books, PresentedSoFar
  <2>2. new.key = op.key /\ new.target = op.target /\ new.hook = op.hook
    BY DEF RuleOf
  <2>3. CASE op.hook = Prerouting
    <3>1. Routes' = Routes \cup {<<op.key, op.target>>}
      BY <2>1, <2>2, <2>3 DEF Routes
    <3>2. \A r \in rules : r.hook = Prerouting => r.key # op.key
      BY <1>5, <1>0, <2>1, <2>3 DEF Accounted, Rule, Prerouting, Hooks, NHooks
    <3>3. \A u \in Targets : <<op.key, u>> \notin Routes
      BY <3>2 DEF Routes
    <3>4. QED
      BY <1>2, <2>1, <3>1, <3>3 DEF RT!Change, RT!Install
  <2>4. CASE op.hook # Prerouting
    <3>1. Routes' = Routes
      BY <2>1, <2>2, <2>4 DEF Routes
    <3>2. QED
      BY <3>1, RoutesStutter
  <2>5. QED
    BY <2>3, <2>4
<1>6. CASE alive /\ CleanupHook
  <2> DEFINE old == RuleOf(op.key, op.target, op.hook)
  <2>1. op.key \in Keys /\ op.target \in Targets /\ rules' = rules \ {old}
    BY <1>6, <1>0 DEF CleanupHook, Keep, OpOK
  <2>2. CASE op.hook = Prerouting
    <3>1. \A r \in rules : r.hook = Prerouting => (r = old <=> r.key = op.key /\ r.target = op.target)
      BY <1>0, <2>2 DEF Rule, RuleOf
    <3>2. Routes' = Routes \ {<<op.key, op.target>>}
      BY <2>1, <3>1 DEF Routes
    <3>3. QED
      BY <1>2, <2>1, <3>2 DEF RT!Change, RT!Withdraw
  <2>3. CASE op.hook # Prerouting
    <3>1. Routes' = Routes
      BY <2>1, <2>3 DEF Routes, RuleOf
    <3>2. QED
      BY <3>1, RoutesStutter
  <2>4. QED
    BY <2>2, <2>3
<1>7. CASE alive /\ (StructureHook \/ FailHook)
  BY <1>1, <1>7 DEF StructureHook, FailHook
<1>8. CASE \E k \in Keys, t \in Targets : AddForwarding(k, t) \/ RemoveForwarding(k, t)
  BY <1>1, <1>8 DEF AddForwarding, RemoveForwarding, Return, Enter
<1>9. CASE Stop \/ CloseFails \/ Exit \/ Crash \/ Restart
  BY <1>1, <1>9 DEF Stop, CloseFails, Exit, Crash, Forget, Restart
<1>10. CASE CloseHook
  BY <1>10 DEF CloseHook, Hooks, NHooks
<1>11. CASE UNCHANGED vars
  BY <1>1, <1>11 DEF vars
<1>12. QED
  BY <1>4, <1>5, <1>6, <1>7, <1>8, <1>9, <1>10, <1>11 DEF Next, Transaction

\* THEOREM: the redirects of a node implement RouteTable: a port goes to at most
\* one target, and a redirect is withdrawn before it moves, through crashes and
\* restarts, until the books are disturbed.
THEOREM ForwarderImplementsRouteTable == Spec => ImplementsRouteTable
BY TypeInvariant, BooksInvariant, ChainsInvariant, AccountedInvariant, RoutesInit, RoutesRefined, PTL
   DEF Spec, ImplementsRouteTable, RT!RouteTableSpec, RouteStep
=============================================================================
