---------------------------- MODULE MCExternalProxy ----------------------------
(* Instances of ExternalProxy for TLC.                                     *)
EXTENDS ExternalProxy

CONSTANTS svcA, svcB, ingA, ingB

Shape(s, n, g) == [svc |-> s, backends |-> n, ing |-> g]

\* One Service: backends and the Ingress come and go.
OneService == {Shape(svcA, 1, NoIngress), Shape(svcA, 2, ingA), Shape(svcA, 1, ingA)}
\* The Service and the Ingress change their names.
Renames == {Shape(svcA, 1, ingA), Shape(svcB, 1, ingB)}
================================================================================
