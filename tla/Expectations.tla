----------------------------- MODULE Expectations -----------------------------
(***************************************************************************)
(* The expectations that a controller keeps for one controller key and one *)
(* kind of child: the creations and deletions it has asked the API server  *)
(* for and has not yet seen in an event.  A store without a name in it and *)
(* a missing store are the same to every caller.                           *)
(***************************************************************************)
EXTENDS FiniteSets

Actions == {"creations", "deletions"}

NoExpectations == [act \in Actions |-> {}]

\* Mutant: nothing is written down.
ExpectNothing(store, act, name) == store

Expect(store, act, name) == [store EXCEPT ![act] = @ \cup {name}]

Observe(store, act, name) == [store EXCEPT ![act] = @ \ {name}]

SatisfiedExpectations(store) == \A act \in Actions : store[act] = {}
===============================================================================
