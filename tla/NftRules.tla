------------------------------- MODULE NftRules -------------------------------
(***************************************************************************)
(* One hook of the nftables backend, below what Forwarder shows of it: the *)
(* tables, chains and rules of the kernel, other programs' among them, and *)
(* how a mutation turns a snapshot of them into one netlink batch.         *)
(*                                                                         *)
(* readWriter.refresh reads the snapshot; Present or CleanUp walks it and  *)
(* queues commands; Flush commits them all or none.  Between the two the   *)
(* kernel may change: Close runs beside the caller, and other programs use *)
(* the same tables.  DeleteRule shifts the very slice that the loop around *)
(* it ranges over, so the walk is modelled on the backing array.  A rule   *)
(* goes by a name; Conditions says which rules a forwarding recognises.    *)
(***************************************************************************)
EXTENDS Conditions, FiniteSets, FiniteSetsExt

CONSTANTS Order,           \* the tables of the family, as the kernel lists them
          Fallback,        \* "nat" or "filter", the table named in structure()
          BaseName,        \* PREROUTING, the base chain named in structure()
          Own,             \* KERTICAL-PREROUTING, the regular chain
          OwnRules,        \* rules structure() puts in it, a sequence
          Keys,            \* names of forwardings; also of the rule of each in this hook
          Fwd,             \* the forwarding of each name
          Probes,          \* forwardings whose rules a removal may meet
          OtherPrograms,   \* base chains each other program creates at once, a sequence
          MaxOtherRules,   \* bound on rules other programs add
          MaxCalls,        \* bound on calls of Add, Remove and Close
          MaxRestarts,     \* bound on deaths of the process
          NoSnap,          \* no snapshot
          NoKernel         \* the kernel refused the batch

Tables == ToSet(Order)
Jump == "jump"
Other == "other"
Exprs == {Jump, Other} \cup Keys \cup ToSet(OwnRules)

\* The caller holds the guard's mutex; Close comes from the stop hook.
Threads == {"caller", "closer"}

\* Kinds of chain: a base chain of this hook with the derived priority, one of
\* this hook with another priority, one of another hook, and a regular chain.
\* Apart from its kind a chain may be typed, of the type derived from the hook.
Kinds == {"match", "hook", "elsewhere", "regular"}
Hooked == {"match", "hook"}

ASSUME TableAssumption == Order \in Seq(Tables) /\ IsInjective(Order) /\ Fallback \in Tables
ASSUME RuleAssumption ==
  /\ OwnRules \in Seq({"established"}) /\ IsInjective(OwnRules)
  /\ Keys # {} /\ Keys \cap ({Jump, Other} \cup ToSet(OwnRules)) = {} /\ DOMAIN Fwd = Keys
ASSUME HookAssumption == BaseName \in Hooks \ {Own}

\* The names of chains.
Names == {Own, BaseName} \cup {c.name : c \in UNION {ToSet(q) : q \in OtherPrograms}}
ASSUME OtherAssumption ==
  OtherPrograms \subseteq Seq([table : Tables, name : Names \ {Own}, kind : Kinds \ {"regular"}, typed : BOOLEAN])

\* The conditions that structure() and buildForwarding() put into a rule, and
\* the rules of the kernel in which they are recognised.
ConditionsOf(e) ==
  CASE e \in Keys -> RuleOf(Fwd[e], BaseName)
    [] e = Jump   -> <<Counter, JumpTo(Own)>>
    [] e = Other  -> << << <<"other">> >> >>
    [] OTHER      -> <<TrackingEstablishedRelated, Accept>>
Recognised == [x \in Exprs \X Exprs |-> RuleExpr(ConditionsOf(x[1]), Stored(ConditionsOf(x[2])))]

\* The port and protocol by which the guard knows a forwarding.
Port(k) == <<Fwd[k].proto, Fwd[k].from>>

VARIABLES
  kernel,     \* tables: those that exist; chains, next: of each table, its
              \* chains with their rules, and the last handle given out;
              \* loose: sets that no rule looks up yet, within a batch
  once,       \* the backend's sync.Once has run
  listed,     \* the guard's keys
  closed,     \* Close was called
  todo,       \* of each thread, the transactions of its call still to run
  snap,       \* of each thread, the kernel as it read it
  result,     \* of each thread, how its last transaction ended
  others, calls, restarts   \* how much of each bound is used

process == <<once, listed, closed>>
bounds == <<others, calls, restarts>>
vars == <<kernel, once, listed, closed, todo, snap, result, others, calls, restarts>>

Tr(what, k) == [what |-> what, key |-> k]

-----------------------------------------------------------------------------
(* The snapshot: rw.chains, rw.rules with its backing array, and the queue.  *)

FlatChains(k) ==
  FlattenSeq([i \in DOMAIN Order |->
    [j \in DOMAIN k.chains[Order[i]] |->
      [table |-> Order[i], name |-> k.chains[Order[i]][j].name,
       kind |-> k.chains[Order[i]][j].kind, typed |-> k.chains[Order[i]][j].typed,
       rules |-> k.chains[Order[i]][j].rules]]])

FlatRules(chains) ==
  FlattenSeq([i \in DOMAIN chains |->
    [j \in DOMAIN chains[i].rules |->
      [table |-> chains[i].table, chain |-> chains[i].name,
       expr |-> chains[i].rules[j].expr, handle |-> chains[i].rules[j].handle]]])

\* n is the length of the slice rw.rules; rules is the array behind it.
Refresh(k) ==
  LET cs == FlatChains(k) IN
  [chains |-> cs, rules |-> FlatRules(cs), n |-> Len(FlatRules(cs)), batch |-> <<>>]

Issue(s, cmd) == [s EXCEPT !.batch = Append(@, cmd)]

AddTable(t) == [do |-> "AddTable", table |-> t]
AddChain(t, c, kind, typed) ==
  [do |-> "AddChain", table |-> t, chain |-> c, kind |-> kind, typed |-> typed]
DelChain(t, c) == [do |-> "DelChain", table |-> t, chain |-> c]
AddRule(t, c, e) == [do |-> "AddRule", table |-> t, chain |-> c, expr |-> e]
AddSet(t, name) == [do |-> "AddSet", table |-> t, set |-> name]
DelRule(t, c, h) == [do |-> "DelRule", table |-> t, chain |-> c, handle |-> h]

\* append(rules[:i], rules[i+1:]...): what follows i moves down by one, the
\* last element of the array stays.
Shift(s, i) ==
  [s EXCEPT !.rules = [j \in DOMAIN s.rules |-> IF j \in i..(s.n - 1) THEN s.rules[j + 1] ELSE s.rules[j]],
            !.n = @ - 1]

\* readWriter.DeleteRule drops the first rule with the handle, in any table,
\* and queues the deletion for the table and chain it was asked for.
DeleteRuleElsewhere(s, t, c, h) ==   \* mutant: the deletion names the table and chain of the rule dropped
  LET hits == {i \in 1..s.n : s.rules[i].handle = h}
      at == Min(hits)
  IN IF hits = {} THEN s
     ELSE Issue(Shift(s, at), DelRule(s.rules[at].table, s.rules[at].chain, h))

DeleteRule(s, t, c, h) ==
  LET hits == {i \in 1..s.n : s.rules[i].handle = h}
  IN IF hits = {} THEN s ELSE Issue(Shift(s, Min(hits)), DelRule(t, c, h))

\* readWriter.DeleteChain: nothing when the snapshot has no such chain.
DeleteChain(s, t, c) ==
  LET hits == {i \in DOMAIN s.chains : s.chains[i].table = t /\ s.chains[i].name = c}
  IN IF hits = {} THEN s ELSE Issue([s EXCEPT !.chains = RemoveAt(@, Min(hits))], DelChain(t, c))

-----------------------------------------------------------------------------
(* The mutations.                                                          *)

IsRule(r, t, c, e) == r.table = t /\ r.chain = c /\ Recognised[<<e, r.expr>>]

\* The loop over the rules of a chain that deletes those taken for e.  Its range
\* is fixed when it starts; its elements are read from the array as it goes.
DeleteFrom(s, first, t, c, e) ==
  LET Visit(u, i) == IF i >= first /\ IsRule(u.rules[i], t, c, e)
                       THEN DeleteRule(u, t, c, u.rules[i].handle) ELSE u
  IN FoldLeft(Visit, s, [i \in 1..s.n |-> i])

\* rule.Present: the first match stays and the others go; or the rule is added.
RulePresentBlindly(s, t, c, e) ==    \* mutant: the snapshot is not consulted
  Issue(s, AddRule(t, c, e))

RulePresent(s, t, c, e) ==
  LET hits == {i \in 1..s.n : IsRule(s.rules[i], t, c, e)}
  IN IF hits = {} THEN Issue(s, AddRule(t, c, e)) ELSE DeleteFrom(s, Min(hits) + 1, t, c, e)

RuleCleanUp(s, t, c, e) == DeleteFrom(s, 1, t, c, e)

\* set.Present looks for nothing: the set is added anew.  Its elements come with
\* it; CleanUp leaves it to the kernel, which drops it with its rule.
SetPresent(s, t, k) ==
  IF Pooled(Fwd[k]) THEN Issue(s, AddSet(t, SetName(Fwd[k], BaseName))) ELSE s

HookedChains(s) == {i \in DOMAIN s.chains : s.chains[i].kind \in Hooked}
EachHooked(Visit(_, _), s) ==
  FoldLeft(LAMBDA u, x : IF x.kind \in Hooked THEN Visit(u, x.name) ELSE u, s, s.chains)

\* baseChain: every chain of the hook, of whatever table and priority, by its
\* name in the table t; one is created when the family has none.
BaseChainPresentFirst(s, t) ==       \* mutant: the jump goes to the first chain only
  IF HookedChains(s) = {}
    THEN RulePresent(Issue(s, AddChain(t, BaseName, "match", TRUE)), t, BaseName, Jump)
    ELSE RulePresent(s, t, s.chains[Min(HookedChains(s))].name, Jump)

BaseChainPresent(s, t) ==
  IF HookedChains(s) = {}
    THEN RulePresent(Issue(s, AddChain(t, BaseName, "match", TRUE)), t, BaseName, Jump)
    ELSE EachHooked(LAMBDA u, c : RulePresent(u, t, c, Jump), s)

BaseChainCleanUpOnce(s, t) ==        \* mutant: each name is visited once
  LET Visit(u, c) == RuleCleanUp(u, t, c, Jump)
  IN FoldLeft(Visit, s, SetToSeq({s.chains[i].name : i \in HookedChains(s)}))

BaseChainCleanUp(s, t) == EachHooked(LAMBDA u, c : RuleCleanUp(u, t, c, Jump), s)

RegularChainPresent(s, t) ==
  FoldLeft(LAMBDA u, e : RulePresent(u, t, Own, e), Issue(s, AddChain(t, Own, "regular", FALSE)), OwnRules)

\* Without forceClean a chain that still has rules stays.
RegularChainCleanUp(s, t, forceClean) ==
  LET u == FoldLeft(LAMBDA v, e : RuleCleanUp(v, t, Own, e), s, Reverse(OwnRules))
  IN IF ~forceClean /\ \E i \in 1..u.n : u.rules[i].table = t /\ u.rules[i].chain = Own
       THEN u ELSE DeleteChain(u, t, Own)

\* foundation() and scaffold(): what a transaction does in the table t.
InTable(s, tr, t) ==
  CASE tr.what = "clean"     -> RegularChainCleanUp(BaseChainCleanUp(s, t), t, TRUE)
    [] tr.what = "structure" -> BaseChainPresent(RegularChainPresent(s, t), t)
    [] tr.what = "present"   -> RulePresent(SetPresent(s, t, tr.key), t, Own, tr.key)
    [] tr.what = "cleanup"   -> RuleCleanUp(s, t, Own, tr.key)

\* Tables with a chain of this hook and priority.
Groups(s) == {s.chains[i].table : i \in {j \in DOMAIN s.chains : s.chains[j].kind = "match"}}

\* The vote among the chains of the type, starting with one vote for the fallback.
MostFrequencyTable(s) ==
  LET Vote(v, x) == IF ~x.typed THEN v
                    ELSE IF x.table = v.name THEN [v EXCEPT !.count = @ + 1]
                    ELSE IF v.count = 0 THEN [name |-> x.table, count |-> 1]
                    ELSE [v EXCEPT !.count = @ - 1]
  IN FoldLeft(Vote, [name |-> Fallback, count |-> 1], s.chains).name

\* table.Present and table.CleanUp: the batches they may queue, for the map of
\* groups is walked in any order.
Batches(k, tr) ==
  LET s == Refresh(k)
      Walk(u, order) == FoldLeft(LAMBDA v, t : InTable(v, tr, t), u, order).batch
      name == MostFrequencyTable(s)
  IN IF Groups(s) = {} /\ tr.what \in {"structure", "present"}
       THEN {Walk(Issue(s, AddTable(name)), <<name>>)}
       ELSE {Walk(s, order) : order \in SetToSeqs(Groups(s))}

-----------------------------------------------------------------------------
(* The kernel: a batch is applied as a whole or refused as a whole.        *)

NamedIn(k, t, c) == {i \in DOMAIN k.chains[t] : k.chains[t][i].name = c}

\* The set that a rule looks up, if it does; a table has one set of a name.
SetsOf(e) == IF e \in Keys /\ Pooled(Fwd[e]) THEN {SetName(Fwd[e], BaseName)} ELSE {}
SetsIn(k, t) == UNION {SetsOf(r.expr) : r \in UNION {ToSet(c.rules) : c \in ToSet(k.chains[t])}}

\* The commands on an existing table and, but for AddChain, an existing chain.
InChain(k, cmd, i) ==
  LET t == cmd.table
      rs == k.chains[t][i].rules
      at == {j \in DOMAIN rs : rs[j].handle = cmd.handle}
      jumps == {x \in DOMAIN k.chains[t] : \E r \in ToSet(k.chains[t][x].rules) : r.expr = Jump}
  IN CASE cmd.do = "DelChain" ->
            IF cmd.chain = Own /\ jumps # {} THEN NoKernel
            ELSE [k EXCEPT !.chains[t] = RemoveAt(@, i)]
       [] cmd.do = "AddRule" ->
            IF cmd.expr = Jump /\ NamedIn(k, t, Own) = {} THEN NoKernel
            ELSE [k EXCEPT !.chains[t][i].rules = Append(@, [expr |-> cmd.expr, handle |-> k.next[t] + 1]),
                           !.next[t] = @ + 1, !.loose = @ \ {<<t, n>> : n \in SetsOf(cmd.expr)}]
       [] cmd.do = "DelRule" ->
            IF at = {} THEN NoKernel ELSE [k EXCEPT !.chains[t][i].rules = RemoveAt(@, Min(at))]

Execute(k, cmd) ==
  IF k = NoKernel THEN NoKernel
  ELSE IF cmd.do = "AddTable" THEN [k EXCEPT !.tables = @ \cup {cmd.table}]
  ELSE IF cmd.do = "AddSet"
    THEN IF cmd.set \in SetsIn(k, cmd.table) THEN NoKernel
         ELSE [k EXCEPT !.next[cmd.table] = @ + 1, !.loose = @ \cup {<<cmd.table, cmd.set>>}]
  ELSE LET t == cmd.table
           is == NamedIn(k, t, cmd.chain)
       IN IF cmd.do = "AddChain"
            THEN IF t \notin k.tables \/ \E i \in is : k.chains[t][i].kind # cmd.kind THEN NoKernel
                 ELSE IF is # {} THEN k
                 ELSE [k EXCEPT !.chains[t] = Append(@, [name |-> cmd.chain, kind |-> cmd.kind,
                                                           typed |-> cmd.typed, rules |-> <<>>]),
                                !.next[t] = @ + 1]
            ELSE IF is = {} THEN NoKernel ELSE InChain(k, cmd, Min(is))

\* A set that no rule looks up at the end is refused.
Apply(k, batch) ==
  LET after == FoldLeft(Execute, k, batch)
  IN IF after = NoKernel THEN NoKernel ELSE IF after.loose # {} THEN NoKernel ELSE after

-----------------------------------------------------------------------------
Init ==
  /\ kernel = [tables |-> {}, chains |-> [t \in Tables |-> <<>>], next |-> [t \in Tables |-> 0],
              loose |-> {}]
  /\ once = FALSE /\ listed = {} /\ closed = FALSE
  /\ todo = [p \in Threads |-> <<>>]
  /\ snap = [p \in Threads |-> NoSnap]
  /\ result = [p \in Threads |-> "none"]
  /\ others = 0 /\ calls = 0 /\ restarts = 0

Call(p, trs) ==
  /\ todo[p] = <<>> /\ calls < MaxCalls
  /\ todo' = [todo EXCEPT ![p] = trs]
  /\ calls' = calls + 1
  /\ UNCHANGED <<kernel, listed, snap, result, others, restarts>>

\* AddForwarding of a port the guard does not list; the first one runs start().
AddForwarding(k) ==
  /\ \A j \in listed : Port(j) # Port(k)
  /\ Call("caller", IF once THEN <<Tr("present", k)>>
                    ELSE <<Tr("clean", k), Tr("structure", k), Tr("present", k)>>)
  /\ once' = TRUE /\ UNCHANGED closed

\* RemoveForwarding of a port the guard lists, of whatever target.
RemoveForwarding(k) ==
  (\E j \in listed : Port(j) = Port(k)) /\ Call("caller", <<Tr("cleanup", k)>>) /\ UNCHANGED <<once, closed>>

\* The stop hook; no key plays a part.
Close ==
  /\ ~closed /\ closed' = TRUE
  /\ Call("closer", <<Tr("clean", CHOOSE k \in Keys : TRUE)>>) /\ UNCHANGED once

\* runMutation: newReadWriter.
Read(p) ==
  /\ todo[p] # <<>> /\ snap[p] = NoSnap
  /\ snap' = [snap EXCEPT ![p] = kernel]
  /\ result' = [result EXCEPT ![p] = "none"]
  /\ UNCHANGED <<kernel, todo, process, bounds>>

\* runMutation: the mutation and Flush; an error ends the call.  The tables are
\* all written, or none is.
Committed(tr) ==
  listed' = CASE tr.what = "present" -> listed \cup {tr.key}
              [] tr.what = "cleanup" -> {j \in listed : Port(j) # Port(tr.key)}
              [] OTHER -> listed

FlushReusing(p) ==       \* mutant: the next transaction uses the same readWriter
  /\ snap[p] # NoSnap
  /\ todo' = [todo EXCEPT ![p] = Tail(@)]
  /\ result' = [result EXCEPT ![p] = "ok"]
  /\ \E batch \in Batches(snap[p], Head(todo[p])) : kernel' = Apply(kernel, batch)
  /\ kernel' # NoKernel
  /\ Committed(Head(todo[p]))
  /\ UNCHANGED <<snap, once, closed, bounds>>

FlushAnyway(p) ==        \* mutant: the error of the flush is lost
  /\ snap[p] # NoSnap
  /\ snap' = [snap EXCEPT ![p] = NoSnap]
  /\ todo' = [todo EXCEPT ![p] = Tail(@)]
  /\ result' = [result EXCEPT ![p] = "ok"]
  /\ \E batch \in Batches(snap[p], Head(todo[p])) :
       kernel' = IF Apply(kernel, batch) = NoKernel THEN kernel ELSE Apply(kernel, batch)
  /\ Committed(Head(todo[p]))
  /\ UNCHANGED <<once, closed, bounds>>

Flush(p) ==
  /\ snap[p] # NoSnap
  /\ snap' = [snap EXCEPT ![p] = NoSnap]
  /\ \E batch \in Batches(snap[p], Head(todo[p])) :
       LET after == Apply(kernel, batch) IN
       \/ /\ after = NoKernel
          /\ todo' = [todo EXCEPT ![p] = <<>>]
          /\ result' = [result EXCEPT ![p] = "failed"]
          /\ UNCHANGED <<kernel, listed>>
       \/ /\ after # NoKernel /\ kernel' = after
          /\ todo' = [todo EXCEPT ![p] = Tail(@)]
          /\ result' = [result EXCEPT ![p] = "ok"]
          /\ Committed(Head(todo[p]))
  /\ UNCHANGED <<once, closed, bounds>>

\* The process ends at any point and starts anew; the kernel keeps its rules.
Restart ==
  /\ once /\ restarts < MaxRestarts /\ restarts' = restarts + 1
  /\ once' = FALSE /\ listed' = {} /\ closed' = FALSE
  /\ todo' = [p \in Threads |-> <<>>] /\ snap' = [p \in Threads |-> NoSnap]
  /\ result' = [p \in Threads |-> "none"]
  /\ UNCHANGED <<kernel, others, calls>>

\* Another program creates its tables and chains, or adds a rule to a chain of
\* this hook.
OtherProgram(q) ==
  /\ \A c \in ToSet(q) : NamedIn(kernel, c.table, c.name) = {}
  /\ kernel' = Apply(kernel, [i \in DOMAIN q |-> AddTable(q[i].table)] \o
       [i \in DOMAIN q |-> AddChain(q[i].table, q[i].name, q[i].kind, q[i].typed)])
  /\ kernel' # NoKernel
  /\ UNCHANGED <<process, todo, snap, result, bounds>>

OtherRule(t, i) ==
  /\ others < MaxOtherRules /\ others' = others + 1
  /\ kernel.chains[t][i].kind \in Hooked
  /\ kernel' = Apply(kernel, <<AddRule(t, kernel.chains[t][i].name, Other)>>)
  /\ kernel' # NoKernel
  /\ UNCHANGED <<process, todo, snap, result, calls, restarts>>

Next ==
  \/ \E k \in Keys : AddForwarding(k) \/ RemoveForwarding(k)
  \/ Close \/ Restart
  \/ \E p \in Threads : Read(p) \/ Flush(p)
  \/ \E q \in OtherPrograms : OtherProgram(q)
  \/ \E t \in Tables : \E i \in DOMAIN kernel.chains[t] : OtherRule(t, i)

Spec == Init /\ [][Next]_vars

-----------------------------------------------------------------------------
(* Properties.                                                             *)

RuleSeqOK(rs) == \A i \in DOMAIN rs : rs[i].expr \in Exprs /\ rs[i].handle \in Nat
KernelOK(k) ==
  /\ k.tables \subseteq Tables /\ k.loose = {}
  /\ \A t \in Tables :
       /\ k.chains[t] # <<>> => t \in k.tables
       /\ \A i \in DOMAIN k.chains[t] : k.chains[t][i].kind \in Kinds /\ RuleSeqOK(k.chains[t][i].rules)
       /\ \A i \in DOMAIN k.chains[t] : \A r \in ToSet(k.chains[t][i].rules) : r.handle <= k.next[t]

(* The kernel's data has its shape, handles are among those given out, and *)
(* a thread has a snapshot only within a call.                             *)
TypeOK ==
  /\ KernelOK(kernel)
  /\ once \in BOOLEAN /\ closed \in BOOLEAN /\ listed \subseteq Keys
  /\ \A p \in Threads :
       /\ todo[p] \in Seq([what : {"clean", "structure", "present", "cleanup"}, key : Keys])
       /\ snap[p] # NoSnap => todo[p] # <<>> /\ KernelOK(snap[p])
       /\ result[p] \in {"none", "ok", "failed"}

\* The rules equal to e in chain number i of table t.
Times(k, t, i, e) == Cardinality({j \in DOMAIN k.chains[t][i].rules : k.chains[t][i].rules[j].expr = e})
HasOwn(k, t) == NamedIn(k, t, Own) # {}
GroupTables(k) == {t \in Tables : \E c \in ToSet(k.chains[t]) : c.kind = "match"}
HookedNames(k, t) == {c.name : c \in {x \in ToSet(k.chains[t]) : x.kind \in Hooked}}
HookedAnywhere(k) == UNION {HookedNames(k, t) : t \in Tables}

Ends(p, what, how) ==
  snap[p] # NoSnap /\ snap'[p] = NoSnap /\ Head(todo[p]).what = what /\ result'[p] = how

\* A jump has the handle of a rule in another table.
HandleClash(k) ==
  \E r, q \in ToSet(FlatRules(FlatChains(k))) :
    r.expr = Jump /\ r.handle = q.handle /\ r.table # q.table

\* The tables a Present writes, and a chain of the hook one of them lacks.
Written(k) == IF GroupTables(k) = {} THEN {MostFrequencyTable(Refresh(k))} ELSE GroupTables(k)
Misplaced(k) == \E t \in Written(k) : HookedAnywhere(k) \ HookedNames(k, t) # {}

\* A rule of the same port number, of either protocol, has the set's name.
SetTaken(k, t, key) == SetsOf(key) \cap SetsIn(k, t) # {}

(* A transaction whose kernel has not changed since it was read commits,   *)
(* but for what the code overlooks: handles are unique within a table only *)
(* and DeleteRule looks at no table; a base chain is looked for in every   *)
(* table and of any priority; the KERTICAL chain may be missing.  In       *)
(* particular the walk over the shifting slice, once for each chain of the *)
(* hook, never leaves a jump that would keep the chain from being deleted, *)
(* and never deletes a rule twice.                                         *)
UndisturbedCommits ==
  [][\A p \in Threads :
       kernel = snap[p] =>
         /\ Ends(p, "clean", "failed") => HandleClash(kernel)
         /\ Ends(p, "structure", "failed") => Misplaced(kernel)
         /\ Ends(p, "present", "failed") =>
              \E t \in Written(kernel) : ~HasOwn(kernel, t) \/ SetTaken(kernel, t, Head(todo[p]).key)
         /\ ~Ends(p, "cleanup", "failed")]_vars

\* The rules of one forwarding in a hook: hosts of a pool are not compared,
\* only their number where packets are spread over them.
SameRule(f, g, hook) ==
  /\ f.proto = g.proto /\ f.from = g.from /\ f.to = g.to
  /\ Pooled(f) = Pooled(g)
  /\ IF ~Pooled(f) THEN f.hosts = g.hosts
     ELSE hook \in {"PREROUTING", "OUTPUT"} => Len(f.hosts) = Len(g.hosts)

\* Forwardings that recognise in every hook the rules they may stand for, as
\* the kernel returns them, and no others.
Exact == {k \in Keys : \A g \in Probes, hook \in Hooks :
            RuleExpr(RuleOf(Fwd[k], hook), Stored(RuleOf(g, hook))) <=> SameRule(Fwd[k], g, hook)}

\* The handles in a table of the rules that are among some.
HandlesOf(k, t, Among(_)) ==
  {r.handle : r \in {q \in UNION {ToSet(c.rules) : c \in ToSet(k.chains[t])} : Among(q.expr)}}

(* CleanUp takes back what Present did, and no more.  Close and start()    *)
(* leave no KERTICAL chain they saw, and no jump to it, when they report   *)
(* success.  The removal of a forwarding takes the rules of it that it     *)
(* saw, with counters that have counted and sets by other numbers than     *)
(* they were built with, and none of another forwarding, whichever of      *)
(* port, protocol, hosts and target the two share (condition.go 43-62).    *)
CleanUpIsExact ==
  [][\A p \in Threads :
       /\ Ends(p, "clean", "ok") =>
            \A t \in GroupTables(snap[p]) : HasOwn(snap[p], t) => ~HasOwn(kernel', t)
       /\ Ends(p, "cleanup", "ok") =>
            LET key == Head(todo[p]).key
                Its(e) == e \in Keys /\ SameRule(Fwd[e], Fwd[key], BaseName)
                Foreign(e) == ~Its(e)
            IN /\ key \in Exact
               /\ \A t \in Tables : HandlesOf(kernel', t, Foreign) = HandlesOf(kernel, t, Foreign)
               /\ \A t \in GroupTables(snap[p]) :
                    HandlesOf(kernel', t, Its) \cap HandlesOf(snap[p], t, Its) = {}]_vars

(* When the structure is in place, every chain of the hook in a table that *)
(* was written steers packets to the KERTICAL chain of that table.         *)
StructureSteers ==
  [][\A p \in Threads : Ends(p, "structure", "ok") =>
       \A t \in Written(snap[p]) :
         /\ HasOwn(kernel', t)
         /\ \A c \in HookedNames(snap[p], t) :
              \A i \in NamedIn(kernel', t, c) : Times(kernel', t, i, Jump) > 0]_vars

\* Where the rules of other programs are in chain number i of table t; chain
\* number j has them later, and in the same order.
Others(k, t, i) == {x \in DOMAIN k.chains[t][i].rules : k.chains[t][i].rules[x].expr = Other}
Preserved(k, later, t, i, j) ==
  \A a, b \in Others(k, t, i) : a <= b => \E c, d \in Others(later, t, j) :
    /\ c <= d /\ (c = d <=> a = b)
    /\ later.chains[t][j].rules[c] = k.chains[t][i].rules[a]
    /\ later.chains[t][j].rules[d] = k.chains[t][i].rules[b]

(* The rules of other programs are never deleted or reordered.             *)
OthersUntouched ==
  [][\A t \in Tables : \A i \in DOMAIN kernel.chains[t] :
       kernel.chains[t][i].kind # "regular" =>
         \E j \in NamedIn(kernel', t, kernel.chains[t][i].name) : Preserved(kernel, kernel', t, i, j)]_vars

(* No forwarding rule is installed twice in a chain, and a chain has at    *)
(* most as many jumps as the family has chains of this hook by its name.   *)
NotRepeated ==
  \A t \in Tables : \A i \in DOMAIN kernel.chains[t] :
    /\ \A k \in Keys : Times(kernel, t, i, k) <= 1
    /\ Times(kernel, t, i, Jump) <=
         Cardinality({u \in Tables : kernel.chains[t][i].name \in HookedNames(kernel, u)})

(* A key the guard lists has its rule in a KERTICAL chain that some chain  *)
(* of the hook jumps to, until Close is called.                            *)
ListedIsRedirected ==
  ~closed => \A k \in listed :
    \E t \in Tables : \E i \in NamedIn(kernel, t, Own), j \in DOMAIN kernel.chains[t] :
      Times(kernel, t, i, k) > 0 /\ Times(kernel, t, j, Jump) > 0
=============================================================================
