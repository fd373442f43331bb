---------------------------- MODULE WebhookCerts ----------------------------
(***************************************************************************)
(* Certificates of the admission webhooks: the gencert job writes them     *)
(* into Secrets, the Pods behind the webhook Service mount one, and two    *)
(* controllers, alike but for the kind of their object, copy its CA into   *)
(* the webhook configurations, by which the API server trusts the Pods.    *)
(*                                                                         *)
(* A CA is the Secret it was written to and the number of that write.      *)
(* Entries of a configuration are its webhooks, in order; a reconcile      *)
(* looks at one after the other, through caches.  The Service exists.      *)
(***************************************************************************)
EXTENDS Naturals, Sequences, FiniteSets, SequencesExt

CONSTANTS Configs,      \* the validating and the mutating configuration
          Entries,      \* number of webhooks in a configuration
          Ours,         \* those whose Service is in the controllers' namespace
          Pods,         \* Pods that may exist behind the Service
          CertList,     \* the Secrets that gencert writes, in order
          MaxEvents     \* bound on runs of gencert, changes of Pods,
                        \* API calls that fail and restarts, together

ASSUME EntriesAssumption == Entries \in Nat /\ Ours \subseteq 1..Entries
ASSUME BoundAssumption == MaxEvents \in Nat
ASSUME CertListAssumption == CertList \in Seq(Range(CertList))
ASSUME MountAssumption == "absent" \notin Range(CertList) /\ "bare" \notin Range(CertList)

VARIABLES
  secret,   \* API server: per Secret how often it was written, 0: it is not there
  pods,     \* API server: per Pod what it mounts at the certificate directory
  cfg,      \* API server: the webhook configurations
  job,      \* the Secrets that a running gencert still has to write
  known,    \* the manager's caches of the three
  behind,   \* configurations that were written since the cached copy
  queue,    \* configurations that wait for a reconcile
  proc,     \* the reconcile of each configuration
  events,   \* how much of the bound is used
  mounted,  \* history: the Secrets that a Pod has mounted
  missed    \* history: configurations whose Pods or Secrets changed in the
            \* caches after their last reconcile began

server == <<secret, pods, cfg, job>>
cached == <<known, behind>>
vars   == <<server, cached, queue, proc, events, mounted, missed>>

Secrets == Range(CertList)
None    == <<>>
Writes  == Nat \ {0}
Bundle  == {None} \cup (Secrets \X Writes)
Mount   == {"absent", "bare"} \cup Secrets
Config  == [spec : 0..MaxEvents, bundle : [1..Entries -> Bundle]]
Idle    == [pc |-> "idle"]

Run     == [pc : {"entries"}, at : 1..(Entries + 1), inst : Config, dirty : BOOLEAN, current : BOOLEAN]

TypeOK ==
  /\ secret \in [Secrets -> Nat] /\ pods \in [Pods -> Mount]
  /\ cfg \in [Configs -> Config] /\ job \in Seq(Secrets)
  /\ known \in [secret : [Secrets -> Nat], pods : [Pods -> Mount], cfg : [Configs -> Config]]
  /\ behind \subseteq Configs /\ queue \subseteq Configs /\ missed \subseteq Configs /\ mounted \subseteq Secrets
  /\ proc \in [Configs -> {Idle} \cup Run]
  /\ events \in 0..MaxEvents

Init ==
  /\ secret = [s \in Secrets |-> 0] /\ pods = [p \in Pods |-> "absent"]
  /\ cfg = [c \in Configs |-> [spec |-> 0, bundle |-> [e \in 1..Entries |-> None]]]
  /\ job = <<>>
  /\ known = [secret |-> secret, pods |-> pods, cfg |-> cfg] /\ behind = {}
  /\ queue = Configs /\ proc = [c \in Configs |-> Idle]
  /\ events = 0 /\ mounted = {} /\ missed = {}

Event == events < MaxEvents /\ events' = events + 1

\* A write of configuration c: copies of it, cached or in a reconcile, are
\* of an older version now.
Outdate(c, procs) == [procs EXCEPT ![c] = IF @ = Idle THEN Idle ELSE [@ EXCEPT !.current = FALSE]]

-----------------------------------------------------------------------------
(* Outside the controllers: gencert, the Pods and the users.               *)

\* A run of the job, by an installation or upgrade or as its own retry: it
\* makes every certificate anew.
StartJob ==
  /\ Event /\ job = <<>> /\ job' = CertList
  /\ UNCHANGED <<secret, pods, cfg, cached, queue, proc, mounted, missed>>

\* Get, then Create or Update; a write in between would fail the job.
GenCert ==
  /\ job # <<>>
  /\ secret' = [secret EXCEPT ![Head(job)] = @ + 1] /\ job' = Tail(job)
  /\ UNCHANGED <<pods, cfg, cached, queue, proc, events, mounted, missed>>

\* One certificate fails: those after it are not written.
JobFails ==
  /\ Event /\ job # <<>> /\ job' = <<>>
  /\ UNCHANGED <<secret, pods, cfg, cached, queue, proc, mounted, missed>>

ChangePod(p) ==
  /\ Event
  /\ \E m \in Mount \ {pods[p]} : /\ pods' = [pods EXCEPT ![p] = m]
                                  /\ mounted' = mounted \cup ({m} \cap Secrets)
  /\ UNCHANGED <<secret, cfg, job, cached, queue, proc, missed>>

\* A user edits a configuration, or replaces it by one without bundles.
EditConfig(c) ==
  /\ Event
  /\ \E b \in {cfg[c].bundle, [e \in 1..Entries |-> None]} :
       cfg' = [cfg EXCEPT ![c] = [spec |-> events', bundle |-> b]]
  /\ behind' = behind \cup {c} /\ proc' = Outdate(c, proc)
  /\ UNCHANGED <<secret, pods, job, known, queue, mounted, missed>>

-----------------------------------------------------------------------------
(* Caches and events.                                                      *)

\* The configuration's own event: For(...) enqueues it.
HearConfig(c) ==
  /\ c \in behind /\ behind' = behind \ {c}
  /\ known' = [known EXCEPT !.cfg[c] = cfg[c]] /\ queue' = queue \cup {c}
  /\ UNCHANGED <<server, proc, events, mounted, missed>>

\* Create and Update of the handler enqueue nothing: they look for a deletion
\* only, and Delete is Nothing's.  resolveAssociatedWebhook is never called.
HearSecret(s) ==
  /\ known.secret[s] # secret[s]
  /\ known' = [known EXCEPT !.secret[s] = secret[s]] /\ missed' = Configs
  /\ UNCHANGED <<server, behind, queue, proc, events, mounted>>

\* Nothing handles events of Pods.
HearPod(p) ==
  /\ known.pods[p] # pods[p]
  /\ known' = [known EXCEPT !.pods[p] = pods[p]] /\ missed' = Configs
  /\ UNCHANGED <<server, behind, queue, proc, events, mounted>>

\* The informers replay their objects as updates every SyncPeriod (10 hours).
Resync(c) ==
  /\ c \notin queue /\ queue' = queue \cup {c}
  /\ UNCHANGED <<server, cached, proc, events, mounted, missed>>

Restart ==
  /\ Event
  /\ known' = [secret |-> secret, pods |-> pods, cfg |-> cfg] /\ behind' = {}
  /\ queue' = Configs /\ proc' = [c \in Configs |-> Idle]
  /\ UNCHANGED <<server, mounted, missed>>

-----------------------------------------------------------------------------
(* Reconcile, of either controller.                                        *)

\* The next webhook to look at: those of other namespaces are skipped.
NextOurs(e) == Min({f \in Ours : f > e} \cup {Entries + 1})

Start(c) ==
  /\ c \in queue /\ proc[c] = Idle
  /\ queue' = queue \ {c} /\ missed' = missed \ {c}
  /\ proc' = [proc EXCEPT ![c] = [pc |-> "entries", at |-> NextOurs(0), inst |-> known.cfg[c],
                                dirty |-> FALSE, current |-> c \notin behind]]
  /\ UNCHANGED <<server, cached, events, mounted>>

Forget(c) == queue              \* mutant: an error is logged and not returned
\* A returned error, like the request to requeue, puts the object back.
Retry(c) == queue \cup {c}

\* FindMountedVolumeByService: the Secret that the first Pod in the list's
\* arbitrary order mounts there; Pods that mount none are passed over.
MountedVolumes == {known.pods[p] : p \in Pods} \cap Secrets

\* ExtractCaCertFromSecret finds the Secret, and ca.crt in it.
HasCa(s) == known.secret[s] > 0

InjectIfEmpty(inst, e, ca) ==   \* mutant: a bundle that is set is left alone
  IF inst.bundle[e] = None THEN [inst EXCEPT !.bundle[e] = ca] ELSE inst
Inject(inst, e, ca) == [inst EXCEPT !.bundle[e] = ca]

\* One webhook; an error gives up the whole reconcile and what it had changed
\* in its copy.
Entry(c) ==
  /\ proc[c] # Idle /\ proc[c].at <= Entries
  /\ LET r == proc[c]
         e == r.at
         Go(inst) == /\ proc' = [proc EXCEPT ![c] = [r EXCEPT !.at = NextOurs(e), !.inst = inst,
                                                              !.dirty = @ \/ inst # r.inst]]
                     /\ UNCHANGED queue
         Error == proc' = [proc EXCEPT ![c] = Idle] /\ queue' = Retry(c)
     IN \/ MountedVolumes = {} /\ Error
        \/ \E s \in MountedVolumes :
             \/ HasCa(s) /\ Go(Inject(r.inst, e, <<s, known.secret[s]>>))
             \/ ~HasCa(s) /\ Error
  /\ UNCHANGED <<server, cached, events, mounted, missed>>

OverwriteNewer(c) == TRUE       \* mutant: the write ignores the object's version
\* The API server refuses a write based on an older version.
Current(c) == proc[c].current

\* The end of a reconcile; an Update that fails may have taken effect.
Finish(c) ==
  /\ proc[c] # Idle /\ proc[c].at = Entries + 1
  /\ proc' = [proc EXCEPT ![c] = Idle]
  /\ LET Written == cfg' = [cfg EXCEPT ![c] = proc[c].inst] /\ behind' = behind \cup {c}
     IN \/ ~proc[c].dirty /\ UNCHANGED <<cfg, behind, queue, events>>
        \/ proc[c].dirty /\ Current(c) /\ Written /\ UNCHANGED <<queue, events>>
        \/ proc[c].dirty /\ ~Current(c) /\ queue' = Retry(c) /\ UNCHANGED <<cfg, behind, events>>
        \/ /\ proc[c].dirty /\ Event
           /\ (Current(c) /\ Written) \/ UNCHANGED <<cfg, behind>>
           /\ queue' = Retry(c)
  /\ UNCHANGED <<secret, pods, job, known, mounted, missed>>

-----------------------------------------------------------------------------
Reconcile(c) == Start(c) \/ Entry(c) \/ Finish(c)
HearSecrets == \E s \in Secrets : HearSecret(s)
HearPods == \E p \in Pods : HearPod(p)
Outside == StartJob \/ JobFails \/ (\E p \in Pods : ChangePod(p)) \/ (\E c \in Configs : EditConfig(c))

Next == \/ Outside \/ GenCert \/ HearSecrets \/ HearPods \/ Restart
        \/ \E c \in Configs : HearConfig(c) \/ Resync(c) \/ Reconcile(c)

Spec == Init /\ [][Next]_vars

\* The job's container runs, the watch of each kind delivers, informers resync,
\* and each controller's worker runs.
FairSpec ==
  /\ Spec /\ WF_vars(GenCert) /\ WF_vars(HearSecrets) /\ WF_vars(HearPods)
  /\ \A c \in Configs : WF_vars(HearConfig(c)) /\ WF_vars(Resync(c)) /\ WF_vars(Reconcile(c))

-----------------------------------------------------------------------------
(* Properties.                                                             *)

Authorities == {<<pods[p], secret[pods[p]]>> : p \in {q \in Pods : pods[q] \in Secrets}}
UpToDate(c) == \A e \in Ours : cfg[c].bundle[e] \in Authorities

Quiet(c) ==
  /\ c \notin queue /\ c \notin behind /\ proc[c] = Idle
  /\ known.secret = secret /\ known.pods = pods

\* A configuration that nobody works on has the CA of a mounted Secret, unless
\* a Pod or a Secret changed since its last reconcile began: those events are
\* dropped (secret_event_handler.go 49-61).  No error, conflict or lost reply
\* leaves it behind otherwise (validating_webhook_controller.go 55-111).
StaleOnlyIfMissed == \A c \in Configs : Quiet(c) => UpToDate(c) \/ c \in missed

\* The controllers change nothing in a configuration but the bundles of their
\* own webhooks, as it stands: an edit of a user is not undone by a reconcile
\* that began before it (validating_webhook_controller.go 71-108).  A bundle
\* they put there is the CA of a Secret that a Pod of the Service has mounted at
\* the certificate directory, whatever other Secrets there are (utils.go 83-121).
WritesOnlyBundles ==
  [][\A c \in Configs : proc[c] # Idle /\ proc'[c] = Idle =>
        /\ cfg'[c].spec = cfg[c].spec
        /\ \A e \in 1..Entries : cfg'[c].bundle[e] # cfg[c].bundle[e] =>
             e \in Ours /\ cfg'[c].bundle[e] \in mounted \X Writes]_vars

\* In the end every configuration has the CA of a Secret that a Pod mounts, if
\* Pods mount any and their Secrets exist: a rotation is noticed by a resync at
\* the latest (validating_webhook_controller.go 54: "is up-to-date").
Resolvable == Authorities # {} /\ \A a \in Authorities : a[2] > 0
Converges == <>[](Resolvable => \A c \in Configs : UpToDate(c))
=============================================================================
