-------------------------- MODULE MCProxyAdmission --------------------------
(* Instances of ProxyAdmission for TLC: the parts of a manifest vary        *)
(* independently.                                                           *)
EXTENDS ProxyAdmission

http == Port("http", 80)
alt  == Port("http", 8080)
tls  == Port("https", 443)

ServicePort(name, number) == [name |-> name, number |-> number, target |-> Port(name, 0)]
Path(typed, backend)      == [typed |-> typed, backend |-> backend]
Rule(host, paths)         == [host |-> host, http |-> paths]
Ingress(default, rules)   == [default |-> default, rules |-> rules]

MCBackends == {
  << <<http>> >>, << <<alt>> >>, << <<http>>, <<alt, tls>> >>, << <<http, alt>> >>,
  << <<Port("", 80), Port("http", 0)>> >>}

MCPorts == {
  <<>>, <<ServicePort("web", 8080)>>, <<ServicePort("http", 80), ServicePort("https", 443)>>,
  <<[name |-> "", number |-> 80, target |-> Port("", 0)]>>}

MCIngresses == {
  <<>>, <<Ingress(<<>>, <<>>)>>, <<Ingress(<<Port("", 443)>>, <<>>)>>,
  <<Ingress(<<>>, <<Rule(TRUE, <<>>)>>)>>, <<Ingress(<<>>, <<Rule(FALSE, <<>>)>>)>>,
  <<Ingress(<<>>, <<Rule(FALSE, << <<Path(FALSE, <<>>), Path(TRUE, <<Port("https", 0)>>)>> >>)>>)>>,
  <<Ingress(<<>>, <<Rule(FALSE, << <<Path(TRUE, <<>>)>> >>)>>)>>}

MCManifests ==
  {[name |-> "", backends |-> b, ports |-> p, ingress |-> i, proper |-> TRUE] :
     b \in MCBackends, p \in MCPorts, i \in MCIngresses}
  \cup {[name |-> "web", backends |-> << <<http>> >>, ports |-> <<>>, ingress |-> <<>>, proper |-> FALSE]}
=============================================================================
