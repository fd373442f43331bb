--------------------------- MODULE ProxyAdmission ---------------------------
(***************************************************************************)
(* The webhooks that an ExternalProxy passes on its way into the API       *)
(* server: every write is defaulted, checked against the schema of the     *)
(* CRD, and validated.  One object, written by kubectl apply and by        *)
(* clients that change the stored object in place.                         *)
(*                                                                         *)
(* An optional field is a sequence of at most one value; a port number 0   *)
(* or a name "" is one that is not given.  Protocols are all TCP.  Syntax  *)
(* (addresses, names, labels, hosts, the form of a path) is one Boolean,   *)
(* and the kind of path is only given or not.                              *)
(***************************************************************************)
EXTENDS Integers, Sequences, SequencesExt

CONSTANTS Manifests,    \* specs that users write
          ProxyName     \* metadata.name of the object

VARIABLES
  stored,    \* the spec in the API server, if the object exists
  applied,   \* the last-applied-configuration annotation, if there is one
  origin,    \* history: the manifest that was last written as a whole
  edited     \* history: whether the object was changed in place since

vars == <<stored, applied, origin, edited>>

\* What users write, well formed or not.
PortRefs     == [name : STRING, number : Int]
ServicePorts == [name : STRING, number : Int, target : PortRefs]
HttpPaths    == [typed : BOOLEAN, backend : Seq(PortRefs)]
HttpRules    == [host : BOOLEAN, http : Seq(Seq(HttpPaths))]
Ingresses    == [default : Seq(PortRefs), rules : Seq(HttpRules)]
ProxySpecs   == [name : STRING, proper : BOOLEAN, backends : Seq(Seq(PortRefs)),
                 ports : Seq(ServicePorts), ingress : Seq(Ingresses)]

ASSUME ManifestsAssumption == Manifests \subseteq ProxySpecs

Port(name, number) == [name |-> name, number |-> number]
Unset(ref)         == ref.name = "" /\ ref.number = 0

\* All ports of the backends, in order: a backend is the sequence of its ports.
AllPorts(backends) == FoldLeft(LAMBDA all, ports : all \o ports, <<>>, backends)
First(ports, i)    == \A j \in 1..(i - 1) : ports[j].name # ports[i].name

(***************************************************************************)
(* Defaulting.                                                             *)
(***************************************************************************)
\* Ports of the Service made from the named backend ports, the first of each name.
GeneratedPorts(backends) ==
  LET Generate(made, p) ==
        IF p.name = "" \/ \E m \in Range(made) : m.name = p.name
        THEN made
        ELSE Append(made, [name |-> p.name, number |-> p.number, target |-> Port(p.name, 0)])
  IN FoldLeft(Generate, <<>>, AllPorts(backends))

DefaultPorts(spec) == IF spec.ports = <<>> THEN GeneratedPorts(spec.backends) ELSE spec.ports

DefaultPath(path, number) ==
  [typed   |-> TRUE,
   backend |-> IF \E ref \in Range(path.backend) : ~Unset(ref) THEN path.backend
               ELSE <<Port("", number)>>]

CatchAll == <<[typed |-> FALSE, backend |-> <<>>]>>

DefaultRule(rule, number) ==
  LET http == IF rule.host /\ rule.http = <<>> THEN <<CatchAll>> ELSE rule.http
  IN [rule EXCEPT !.http =
        [h \in DOMAIN http |-> [i \in DOMAIN http[h] |-> DefaultPath(http[h][i], number)]]]

\* The Ingress is completed only while the Service has a single port.
DefaultIngress(ingress, ports) ==
  IF Len(ports) # 1 THEN ingress
  ELSE IF ingress.rules = <<>> THEN [ingress EXCEPT !.default = <<Port("", ports[1].number)>>]
  ELSE [ingress EXCEPT !.rules = [i \in DOMAIN @ |-> DefaultRule(@[i], ports[1].number)]]

\* Mutant: the Ingress is completed before the Service.
DefaultedIngressFirst(spec) ==
  [spec EXCEPT !.name    = IF @ = "" THEN ProxyName ELSE @,
               !.ports   = DefaultPorts(spec),
               !.ingress = [i \in DOMAIN @ |-> DefaultIngress(@[i], spec.ports)]]
Defaulted(spec) ==
  LET ports == DefaultPorts(spec)
  IN [spec EXCEPT !.name    = IF @ = "" THEN ProxyName ELSE @,
                  !.ports   = ports,
                  !.ingress = [i \in DOMAIN @ |-> DefaultIngress(@[i], ports)]]

\* The defaulter dereferences the number of a port that it generates from, and
\* the HTTP of every rule when the Service has one port.  The nil pointer
\* refuses the request, as the panic of a handler is answered with an error.
DefaulterFails(spec) ==
  \/ spec.ports = <<>> /\ \E p \in Range(GeneratedPorts(spec.backends)) : p.number = 0
  \/ /\ Len(DefaultPorts(spec)) = 1
     /\ \E ingress \in Range(spec.ingress), rule \in UNION {Range(g.rules) : g \in Range(spec.ingress)} :
          ~rule.host /\ rule.http = <<>>

(***************************************************************************)
(* Validation: of the spec's schema by the API server, then by the webhook.*)
(***************************************************************************)
Paths(ingress) == UNION {Range(h) : h \in UNION {Range(r.http) : r \in Range(ingress.rules)}}

\* The list of ports is a map by port and protocol; a path must have a type.
Schema(spec) ==
  /\ spec.backends # <<>>
  /\ \A i, j \in DOMAIN spec.ports : spec.ports[i].number = spec.ports[j].number => i = j
  /\ \A ingress \in Range(spec.ingress) : \A path \in Paths(ingress) : path.typed

UniqueNames(ports) == \A i \in DOMAIN ports : ports[i].name = "" \/ First(ports, i)

ValidBackends(backends) ==
  backends # <<>> /\ \A ports \in Range(backends) : ports # <<>> /\ UniqueNames(ports)

ValidService(ports) ==
  /\ ports # <<>> /\ UniqueNames(ports)
  /\ \A p \in Range(ports) : /\ Len(ports) > 1 => p.name # ""
                             /\ p.number # 0 /\ ~Unset(p.target)

\* ValidateIngressBackend: a name or a number, and not both.
ValidIngressBackend(ref) == (ref.name = "") # (ref.number = 0)

\* A path without a backend is a nil pointer again.
ValidPath(path) == /\ path.typed /\ path.backend # <<>>
                   /\ \A ref \in Range(path.backend) : ValidIngressBackend(ref)

\* Mutant: a rule without HTTP is a catch-all.
ValidRuleOrCatchAll(rule) == \A paths \in Range(rule.http) :
                               paths # <<>> /\ \A path \in Range(paths) : ValidPath(path)

\* So is a rule without HTTP.
ValidRule(rule) == /\ rule.http # <<>>
                   /\ \A paths \in Range(rule.http) :
                        paths # <<>> /\ \A path \in Range(paths) : ValidPath(path)

ValidIngress(ingress) ==
  /\ \A ref \in Range(ingress.default) : ValidIngressBackend(ref)
  /\ ingress.rules # <<>> \/ ingress.default # <<>>
  /\ \A rule \in Range(ingress.rules) : ValidRule(rule)

Valid(spec) == /\ spec.proper /\ ValidBackends(spec.backends) /\ ValidService(spec.ports)
               /\ \A ingress \in Range(spec.ingress) : ValidIngress(ingress)

Admitted(spec) == ~DefaulterFails(spec) /\ Schema(Defaulted(spec)) /\ Valid(Defaulted(spec))

(***************************************************************************)
(* Requests.                                                               *)
(***************************************************************************)
\* Mutant: the defaulter takes the spec as submitted.
RestoredNever(manager, submitted, annotation) == submitted

\* An update whose field manager is that of kubectl apply starts from the
\* manifest in its annotation, whatever the request made of the stored spec.
Restored(manager, submitted, annotation) ==
  IF manager = "kubectl-client-side-apply" /\ annotation # <<>> THEN annotation[1] ELSE submitted

Write(spec, annotation, whole, inPlace) ==
  /\ Admitted(spec)
  /\ stored' = <<Defaulted(spec)>> /\ applied' = annotation
  /\ origin' = whole /\ edited' = inPlace

Init == stored = <<>> /\ applied = <<>> /\ origin = <<>> /\ edited = FALSE

\* kubectl create, or apply of a manifest whose object is not there.
Create(m, annotation) ==
  /\ stored = <<>>
  /\ Write(m, annotation, <<m>>, FALSE)

\* kubectl replace: the object as in the manifest, without the annotation.
Replace(m) ==
  /\ stored # <<>>
  /\ Write(Restored("kubectl-replace", m, <<>>), <<>>, <<m>>, FALSE)

\* The patch that kubectl apply computes: what the manifest leaves out stays
\* as it is stored, unless the manifest applied before had it.
Patched(m) ==
  LET Keep(now, had, live) == IF now = <<>> /\ had \in {<<>>, <<now>>} THEN live ELSE now
      Had(field)           == [i \in DOMAIN applied |-> applied[i][field]]
  IN [m EXCEPT !.ports   = Keep(m.ports, Had("ports"), stored[1].ports),
               !.ingress = Keep(m.ingress, Had("ingress"), stored[1].ingress)]

Apply(m) ==
  /\ stored # <<>>
  /\ Write(Restored("kubectl-client-side-apply", Patched(m), <<m>>), <<m>>, <<m>>, FALSE)

\* Another client changes a part of the stored spec.
Edit(part, value) ==
  /\ stored # <<>>
  /\ Write(Restored("kubectl-edit", [stored[1] EXCEPT ![part] = value], applied), applied, origin, TRUE)

Delete == stored # <<>> /\ stored' = <<>> /\ applied' = <<>> /\ origin' = <<>> /\ edited' = FALSE

Next ==
  \/ \E m \in Manifests : Create(m, <<>>) \/ Create(m, <<m>>) \/ Replace(m) \/ Apply(m)
  \/ \E part \in {"backends", "ports", "ingress"} :
       \E value \in {m[part] : m \in Manifests} : Edit(part, value)
  \/ Delete

Spec == Init /\ [][Next]_vars

(***************************************************************************)
(* Properties.                                                             *)
(***************************************************************************)
\* NewIngress dereferences the HTTP of each rule and the backend of each path.
Buildable(spec) ==
  \A ingress \in Range(spec.ingress) :
    /\ \A rule \in Range(ingress.rules) : rule.http # <<>>
    /\ \A path \in Paths(ingress) : path.backend # <<>>

\* A stored proxy gives the controller, which checks nothing itself, no nil
\* pointer: the reconcile of SyncIngress and NewIngress does not panic, by
\* whichever sequence of writes the spec came about.
ChildrenBuildable == \A spec \in Range(stored) : Buildable(spec)

\* A stored spec that is sent back as it is, by a client that changes only
\* metadata, is neither refused nor changed by Default and ValidateUpdate: an
\* object never becomes one that nobody can label or relieve of a finalizer.
StoredIsSettled == \A spec \in Range(stored) : Admitted(spec) /\ Defaulted(spec) = spec

References(spec) ==
  UNION {Range(ingress.default) \cup UNION {Range(path.backend) : path \in Paths(ingress)} :
           ingress \in Range(spec.ingress)}
Resolves(ref, ports) == \E p \in Range(ports) : ref = Port("", p.number) \/ ref = Port(p.name, 0)

DefaultBackends(spec) == UNION {Range(ingress.default) :
                           ingress \in {g \in Range(spec.ingress) : g.rules = <<>>}}

\* What the manifest leaves to the defaulter fits the rest of the spec, unless
\* a client has changed the object in place since: the Service's ports are the
\* first of each name among the backends, and each Ingress backend that the
\* manifest does not name is a port of the Service.  Default (lines 104-128)
\* restores the manifest of kubectl apply so that no ports generated from
\* earlier backends survive.  After an edit too, the default backend of an
\* Ingress without rules is the Service's port if it is the only one.
DefaultsFit ==
  \A spec \in Range(stored), m \in Range(origin) :
    /\ ~edited /\ m.ports = <<>> =>
         \A p \in Range(spec.ports) :
           \E i \in DOMAIN AllPorts(spec.backends) :
             /\ First(AllPorts(spec.backends), i)
             /\ AllPorts(spec.backends)[i] = Port(p.name, p.number)
    /\ ~edited => \A ref \in References(spec) : ref \in References(m) \/ Resolves(ref, spec.ports)
    /\ Len(spec.ports) = 1 => \A ref \in DefaultBackends(spec) : Resolves(ref, spec.ports)
=============================================================================
