----------------------------- MODULE MCNftRules -----------------------------
(* Instances of NftRules for TLC: the FORWARD hook.                        *)
EXTENDS NftRules

Base(t, c, kind, typed) == [table |-> t, name |-> c, kind |-> kind, typed |-> typed]

MangleThenFilter == <<"mangle", "filter">>
Established == <<"established">>

F(proto, from, hosts) == [proto |-> proto, from |-> from, hosts |-> hosts, to |-> 8080]

\* Two share a port number and their hosts, two a protocol; one has a single host.
Forwardings == [k \in {"tcp80", "udp80", "tcp81"} |->
  CASE k = "tcp80" -> F("tcp", 80, <<"h1", "h2">>)
    [] k = "udp80" -> F("udp", 80, <<"h1", "h2">>)
    [] k = "tcp81" -> F("tcp", 81, <<"h1">>)]

AllForwardings ==
  [proto : {"tcp", "udp"}, from : {80, 81}, to : {80, 8080},
   hosts : {<<"h1">>, <<"h2">>, <<"h1", "h2">>, <<"h1", "h3">>, <<"h1", "h2", "h3">>}]

\* What iptables-nft creates in the filter and mangle tables, as far as it
\* matters, and the chain of another program in the filter table.
Programs == {<<Base("filter", "FORWARD", "match", TRUE)>>,
             <<Base("mangle", "FORWARD", "hook", TRUE), Base("mangle", "INPUT", "elsewhere", TRUE),
               Base("mangle", "OUTPUT", "elsewhere", FALSE)>>,
             <<Base("filter", "OTHER", "match", TRUE)>>}
=============================================================================
