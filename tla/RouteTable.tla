----------------------------- MODULE RouteTable -----------------------------
(***************************************************************************)
(* What a node's forwarder promises to the packets that reach the node:    *)
(* every port is redirected to at most one target, and a redirect never    *)
(* moves from one target to another without being withdrawn first.         *)
(* internal/portforwarding/portforwarding.go states the promise: the guard *)
(* "prevents conflicts by tracking active port forwards".                  *)
(***************************************************************************)
CONSTANTS Keys,     \* the (protocol, port) pairs a node can forward
          Targets   \* the (hosts, port) pairs a port can be forwarded to

VARIABLES routes,    \* the redirects in force, a set of <<key, target>>
          disturbed  \* the promise is off: what it rests on does not hold

RouteTableInit == routes = {} /\ disturbed = FALSE

\* AddForwarding takes effect: the key had no redirect.
Install(k, t) == /\ \A u \in Targets : <<k, u>> \notin routes
                 /\ routes' = routes \cup {<<k, t>>}

\* RemoveForwarding takes effect.
Withdraw(k, t) == routes' = routes \ {<<k, t>>}

\* Close, or the clean-up that precedes the first rule of a process.
WithdrawAll == routes' = {}

Change == \/ \E k \in Keys, t \in Targets : Install(k, t) \/ Withdraw(k, t)
          \/ WithdrawAll

RouteTableNext == disturbed \/ disturbed' \/ Change

RouteTableSpec == RouteTableInit /\ [][RouteTableNext]_<<routes, disturbed>>
=============================================================================
