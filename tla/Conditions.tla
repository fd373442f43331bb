------------------------------ MODULE Conditions ------------------------------
(***************************************************************************)
(* What the rules of a forwarding consist of, and how a rule that the      *)
(* kernel returns is recognised.  A condition is the sequence of nftables  *)
(* expressions it builds, a rule a sequence of conditions.  An expression  *)
(* is a tuple that begins with its kind; registers and encodings are left  *)
(* out, as the code uses the same ones on both sides.                      *)
(*                                                                         *)
(* A forwarding has a protocol, a host port, hosts and a target port.      *)
(***************************************************************************)
EXTENDS Naturals, Sequences, SequencesExt

Hooks == {"PREROUTING", "POSTROUTING", "FORWARD", "OUTPUT"}

\* Conditions that look at a packet.
TransportProtocol(proto)   == << <<"meta", "l4proto">>, <<"cmp", "l4proto", proto>> >>
DestinationPort(port)      == << <<"payload", "dport">>, <<"cmp", "dport", port>> >>
DestinationIp(target)      == << <<"payload", "daddr">> >> \o target
SourceLocalAddr            == << <<"fib", "saddr">>, <<"cmp", "addrtype", "local">> >>
TrackingMark(mark)         == << <<"ct", "mark">>, <<"cmp", "mark", mark>> >>
TrackingEstablishedRelated == << <<"ct", "state">>, <<"bitwise", "established, related">>,
                                 <<"cmp", "state", "nonzero">> >>

\* Conditions that act on it; a counter is built with no packets counted.
Counter                    == << <<"counter", 0>> >>
SetTrackingMark(mark)      == << <<"immediate", "mark", mark>>, <<"ct", "set mark">> >>
DestinationNAT(target, to) == target \o << <<"immediate", "port", to>>, <<"nat">> >>
Masquerade                 == << <<"masq">> >>
Accept                     == << <<"verdict", "accept">> >>
JumpTo(chain)              == << <<"verdict", "jump", chain>> >>

\* Targets: a single host by its address; several by a map from a running
\* number, or a set of addresses.  The identifier is a random number that the
\* kernel knows within the batch only; it returns 0.
RandomId == 1
ImmediateIp(host)             == << <<"immediate", "addr", host>> >>
CompareEqualsIp(host)         == << <<"cmp", "daddr", host>> >>
LoadBalancing(id, name, size) == << <<"numgen", size>>, <<"lookup", "map", id, name>> >>
LookupIp(id, name)            == << <<"lookup", "set", id, name>> >>

Pooled(f) == Len(f.hosts) # 1

\* internalNameOf: the port and the hook, neither protocol nor target.
SetName(f, hook) == <<f.from, hook>>

Outgoing(f, hook) == IF Pooled(f) THEN LoadBalancing(RandomId, SetName(f, hook), Len(f.hosts))
                                  ELSE ImmediateIp(f.hosts[1])
Incoming(f, hook) == IF Pooled(f) THEN LookupIp(RandomId, SetName(f, hook))
                                  ELSE CompareEqualsIp(f.hosts[1])

\* To the target, marked: what comes back, or is let through.
Marked(f, hook) == <<DestinationIp(Incoming(f, hook)), TransportProtocol(f.proto),
                     DestinationPort(f.to), TrackingMark(f.from), Counter>>

\* buildForwarding: the rule of a forwarding in each of the four hooks.
RuleOf(f, hook) ==
  CASE hook = "PREROUTING"  -> <<TransportProtocol(f.proto), DestinationPort(f.from), Counter,
                                 SetTrackingMark(f.from), DestinationNAT(Outgoing(f, hook), f.to)>>
    [] hook = "POSTROUTING" -> Marked(f, hook) \o <<Masquerade>>
    [] hook = "FORWARD"     -> Marked(f, hook) \o <<Accept>>
    [] hook = "OUTPUT"      -> <<SourceLocalAddr, TransportProtocol(f.proto), DestinationPort(f.from),
                                 Counter, DestinationNAT(Outgoing(f, hook), f.to)>>

\* combine.Build, and the rule as the kernel returns it once packets have passed.
Build(conditions) == FlattenSeq(conditions)
Stored(conditions) ==
  LET AsRead(x) == CASE x[1] = "counter" -> <<"counter", 1>>
                     [] x[1] = "lookup"  -> [x EXCEPT ![3] = 0]
                     [] OTHER            -> x
  IN [i \in DOMAIN Build(conditions) |-> AsRead(Build(conditions)[i])]

\* Deep equality, but for lookups: the same set by its number or by its name.
LookupEquals(a, b) == a[2] = b[2] /\ (a[3] = b[3] \/ a[4] = b[4])
ExprEquals(a, b) == a[1] = b[1] /\ IF a[1] = "lookup" THEN LookupEquals(a, b) ELSE a = b

\* The number of expressions matched, 0 if the prefix is another.
PrefixMatch(expected, actual) ==
  IF Len(actual) >= Len(expected) /\ \A i \in DOMAIN expected : ExprEquals(expected[i], actual[i])
    THEN Len(expected) ELSE 0

\* A counter matches any counter; it looks at the first expression unasked.
MatchExactly(condition, in) == PrefixMatch(condition, in)    \* mutant: counters too
Match(condition, in) ==
  IF condition = Counter THEN IF in[1][1] = "counter" THEN 1 ELSE 0
  ELSE PrefixMatch(condition, in)

\* combine.Match: each condition on what those before it have left.
CombineMatch(conditions, in) ==
  LET Step(m, condition) ==
        IF ~m.all THEN m
        ELSE LET n == Match(condition, SubSeq(in, m.count + 1, Len(in)))
             IN [all |-> n # 0, count |-> m.count + n]
      total == FoldLeft(Step, [all |-> TRUE, count |-> 0], conditions)
  IN IF total.all THEN total.count ELSE 0

\* RuleExpr: every expression of the rule is matched.
RuleExpr(conditions, in) == CombineMatch(conditions, in) = Len(in)
=============================================================================
