--------------------------- MODULE MCWebhookCerts ---------------------------
(* Instances of WebhookCerts for TLC: the second webhook has its Service in *)
(* another namespace.                                                       *)
EXTENDS WebhookCerts

CONSTANTS v, p1, p2

MCConfigs == {v}
MCOurs == {1, 3}
MCPods == {p1, p2}
MCCertList == <<"webhook-certs", "metrics-certs">>
=============================================================================
