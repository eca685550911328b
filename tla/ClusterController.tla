-------------------------- MODULE ClusterController --------------------------
(***************************************************************************)
(* The cluster controller: the reconcile loop that gives every Cluster     *)
(* resource with profile "kind" a kind cluster on the Docker host, a load  *)
(* balancer subnet and a MetalLB installation, and takes the kind cluster  *)
(* away again before it lets the resource go.                              *)
(*                                                                         *)
(* The controller acts on three places that change under it: the API       *)
(* server (api), whose objects it reads through an informer cache that     *)
(* lags behind (cache, fed by watch), and the Docker host (kind).  Writes  *)
(* to the API server are guarded by the object's resourceVersion; calls to *)
(* the Docker host are not guarded by anything.                            *)
(***************************************************************************)
EXTENDS KindNetworking, FiniteSets

CONSTANTS
  Clusters,      \* Cluster resources, one member per object (UID)
  NoCluster,     \* the key of an idle worker
  Responsible,   \* the Clusters whose spec.profile is "kind"
  Names,         \* names a kind cluster can have
  KindName,      \* [Clusters -> Names]: kindName, by annotation or name.uid
  Docker,        \* the IPAM configurations of the Docker network "kind"
  SubnetMin,     \* third octet of the first subnet MetalLB may be given (200)
  SubnetMax,     \* third octet of the last one (255)
  Components,    \* MetalLB workloads of metallb-native.yaml that run a pod
  Webhook,       \* the component that serves MetalLB's admission webhooks
  Deletable,     \* Clusters that users delete
  Holdable,      \* Clusters that somebody else puts a finalizer on, once each
  Unannotated,   \* Clusters that users may create without a subnet
  Misannotated,  \* Clusters that users may create with an unreadable one
  Losable,       \* kind clusters that may vanish from the host, once each
  MaxLag,        \* bound: users act only while fewer events are undelivered
  MaxFaults,     \* bound: external calls, or pods, that fail
  MaxCrashes     \* bound: restarts of the controller's process

ASSUME ClustersAssumption == NoCluster \notin Clusters /\ Responsible \subseteq Clusters
                            /\ Holdable \subseteq Clusters /\ Deletable \subseteq Clusters
                            /\ Unannotated \cup Misannotated \subseteq Clusters
ASSUME NamesAssumption == KindName \in [Clusters -> Names] /\ Losable \subseteq Names
ASSUME SubnetAssumption == SubnetMin \in Octets /\ SubnetMax \in Octets
ASSUME DockerAssumption == Docker \in Seq(Configs)
ASSUME ComponentsAssumption == Webhook \in Components
ASSUME BoundsAssumption == MaxLag \in Nat /\ MaxFaults \in Nat /\ MaxCrashes \in Nat

VARIABLES
  api,      \* [Clusters -> Object]: the API server's objects
  watch,    \* events on their way to the informer, oldest first
  cache,    \* [Clusters -> Object]: the informer cache Get and List read
  queue,    \* keys in the work queue
  delayed,  \* keys waiting for RequeueAfter or a retry back-off
  pc,       \* the next external call of the one reconcile worker
  cur,      \* the key it reconciles
  view,     \* its copy of the object, as the API server last returned it
  stat,     \* the status it has built up in memory
  kind,     \* [Names -> KindCluster]: the Docker host
  lost,     \* names whose kind cluster has vanished from the host
  faults,   \* failures so far
  crashes   \* restarts so far

world == <<api, watch, cache>>
worker == <<pc, cur, view, stat>>
budget == <<faults, crashes>>
vars == <<world, queue, delayed, worker, kind, lost, budget>>

-----------------------------------------------------------------------------
(* The data.                                                               *)

(* Clusters are given subnets of the network only if it is an IPv4 network *)
(* of a supported size.                                                    *)
Usable == \E net \in ParseDockerV4Network(Docker) : Supported(net)
KindNetwork == CHOOSE net \in ParseDockerV4Network(Docker) : Supported(net)

(* A subnet is kept by its third octet.  The annotation may be missing, or *)
(* a text that net.ParseCIDR does not accept.                              *)
Subnets == IF Usable THEN SubnetMin..SubnetMax ELSE {}
SubnetOf(s) == CalculateV4Subnet(KindNetwork, s)
NoSubnet == -1
Malformed == -2
Annotations == Subnets \cup {NoSubnet, Malformed}

Conditions == {"KindReady", "MetalLBReady", "Ready"}
Phases == {"none", "Progressing", "Ready", "Terminating"}
Status == [phase : Phases, conds : SUBSET Conditions, obsGen : 0..2]
NoStatus == [phase |-> "none", conds |-> {}, obsGen |-> 0]

(* fin: the controller's own finalizer; foreign: somebody else's.          *)
Object == [st : {"none", "live", "deleting", "gone"}, fin : BOOLEAN,
           foreign : {"none", "held", "released"},
           subnet : Annotations, status : Status, rv : Nat]
NoObject == [st |-> "none", fin |-> FALSE, foreign |-> "none",
             subnet |-> NoSubnet, status |-> NoStatus, rv |-> 0]

Exists(o) == o.st \in {"live", "deleting"}

(* Mutant: the resourceVersion is reported instead of the generation.      *)
GenerationIsVersion(o) == o.rv

(* Setting the deletion timestamp raises metadata.generation.              *)
Generation(o) == IF o.st = "live" THEN 1 ELSE 2

(* comps: "applied" workloads have no pod yet, "starting" ones a pod that  *)
(* is not ready.  pool, adv: the IPAddressPool and the L2Advertisement.    *)
PodStates == {"none", "applied", "starting", "ready"}
KindCluster == [st : {"absent", "partial", "running"},
                comps : [Components -> PodStates],
                pool : Annotations, adv : BOOLEAN]
Bare(s) == [st |-> s, comps |-> [p \in Components |-> "none"],
            pool |-> NoSubnet, adv |-> FALSE]

Events == [c : Clusters, obj : Object]

PCs == {"idle", "addFinalizer", "pickSubnet", "assignSubnet", "exists",
        "creating", "install", "isReady", "configure", "delExists",
        "removeFinalizer", "saveStop", "saveRequeue"}
Saving == {"saveStop", "saveRequeue"}
Writing == {"addFinalizer", "assignSubnet", "removeFinalizer"} \cup Saving

-----------------------------------------------------------------------------
(* The API server.                                                         *)

(* An object that is being deleted goes when its last finalizer goes.      *)
Settled(o) == IF o.st = "deleting" /\ ~o.fin /\ o.foreign # "held"
              THEN [o EXCEPT !.st = "gone"] ELSE o

(* What the API server stores, under a new resourceVersion, and publishes. *)
Stored(c, o) == [Settled(o) EXCEPT !.rv = api[c].rv + 1]
Post(c, o) == /\ api' = [api EXCEPT ![c] = Stored(c, o)]
              /\ watch' = Append(watch, [c |-> c, obj |-> Stored(c, o)])
              /\ UNCHANGED cache

(* Mutant: writes are patches without a resourceVersion.                   *)
CanWriteBlind == Exists(api[cur])

(* Update and Status().Update succeed only on the version that was read.   *)
CanWrite == Exists(api[cur]) /\ api[cur].rv = view.rv

User(c, o) == /\ Len(watch) < MaxLag
              /\ Post(c, o)
              /\ UNCHANGED <<cache, queue, delayed, worker, kind, lost, budget>>

CreateResource(c) == /\ api[c].st = "none"
                     /\ \E s \in {NoSubnet, Malformed} :
                          /\ c \in IF s = NoSubnet THEN Unannotated ELSE Misannotated
                          /\ User(c, [api[c] EXCEPT !.st = "live", !.subnet = s])

DeleteResource(c) == /\ c \in Deletable
                     /\ api[c].st = "live"
                     /\ User(c, [api[c] EXCEPT !.st = "deleting"])

(* No finalizer can be added once the deletion timestamp is set.           *)
HoldForeign(c) == /\ c \in Holdable
                  /\ api[c].st = "live" /\ api[c].foreign = "none"
                  /\ User(c, [api[c] EXCEPT !.foreign = "held"])

ReleaseForeign(c) == /\ Exists(api[c]) /\ api[c].foreign = "held"
                     /\ User(c, [api[c] EXCEPT !.foreign = "released"])

-----------------------------------------------------------------------------
(* The informer and the work queue.                                        *)

Deliver == /\ watch # <<>>
           /\ LET e == Head(watch)
              IN /\ cache' = [cache EXCEPT ![e.c] = e.obj]
                 /\ queue' = queue \cup {e.c}
           /\ watch' = Tail(watch)
           /\ UNCHANGED <<api, delayed, worker, kind, lost, budget>>

TimerFires(c) == /\ c \in delayed
                 /\ delayed' = delayed \ {c}
                 /\ queue' = queue \cup {c}
                 /\ UNCHANGED <<world, worker, kind, lost, budget>>

(* The informer hands out all it has every ten hours.                      *)
Resync(c) == /\ Exists(cache[c])
             /\ queue' = queue \cup {c}
             /\ UNCHANGED <<world, delayed, worker, kind, lost, budget>>

-----------------------------------------------------------------------------
(* The worker: Reconcile.                                                  *)

Idle == /\ pc' = "idle" /\ cur' = NoCluster
        /\ view' = NoObject /\ stat' = NoStatus

(* IsProgressing, IsStable and an error all schedule another reconcile.    *)
Requeue == Idle /\ delayed' = delayed \cup {cur}
Stop == Idle /\ UNCHANGED delayed

Goto(label) == pc' = label /\ UNCHANGED <<cur, view, stat, delayed>>

Fault == faults < MaxFaults /\ faults' = faults + 1 /\ UNCHANGED crashes

Dequeue(c) == pc = "idle" /\ c \in queue /\ queue' = queue \ {c}

(* The object is not in the cache: client.IgnoreNotFound.                  *)
ReconcileMissing(c) ==
  /\ Dequeue(c) /\ ~Exists(cache[c])
  /\ UNCHANGED <<world, delayed, worker, kind, lost, budget>>

(* Another provider's profile is an error, and so retried.                 *)
ReconcileUnsupported(c) ==
  /\ Dequeue(c) /\ Exists(cache[c]) /\ c \notin Responsible
  /\ delayed' = delayed \cup {c}
  /\ UNCHANGED <<world, worker, kind, lost, budget>>

Reconcile(c, label, status) ==
  /\ Dequeue(c) /\ c \in Responsible
  /\ pc' = label /\ cur' = c /\ view' = cache[c] /\ stat' = status
  /\ UNCHANGED <<world, delayed, kind, lost, budget>>

WithPhase(status, phase) == [status EXCEPT !.phase = phase]

(* Mutant: the kind cluster is provisioned before the finalizer is stored. *)
ReconcileLiveUnclaimed(c) ==
  LET o == cache[c]
      status == WithPhase(o.status, "Progressing")
  IN /\ o.st = "live"
     /\ \/ o.subnet = NoSubnet /\ Reconcile(c, "pickSubnet", status)
        \/ o.subnet # NoSubnet /\ Reconcile(c, "exists", status)

(* The first call handleCreateOrUpdate makes.                              *)
ReconcileLive(c) ==
  LET o == cache[c]
  IN /\ o.st = "live"
     /\ \/ ~o.fin /\ Reconcile(c, "addFinalizer", o.status)
        \/ /\ o.fin /\ o.subnet = NoSubnet
           /\ Reconcile(c, "pickSubnet", WithPhase(o.status, "Progressing"))
        \/ /\ o.fin /\ o.subnet # NoSubnet
           /\ Reconcile(c, "exists", WithPhase(o.status, "Progressing"))

(* Mutant: foreign finalizers are not waited for.                          *)
ReconcileDeletingAtOnce(c) ==
  LET o == cache[c]
      status == WithPhase(o.status, "Terminating")
  IN /\ o.st = "deleting"
     /\ \/ ~o.fin /\ Reconcile(c, "saveStop", status)
        \/ o.fin /\ Reconcile(c, "delExists", status)

(* Mutant: a resource others still hold is reported as Terminating first,  *)
(* and kept provisioned from then on.                                      *)
ReconcileDeletingUpkeep(c) ==
  LET o == cache[c]
      status == WithPhase(o.status, "Terminating")
  IN /\ o.st = "deleting"
     /\ \/ ~o.fin /\ Reconcile(c, "saveStop", status)
        \/ /\ o.fin /\ o.foreign = "held"
           /\ Reconcile(c, IF status = o.status THEN "exists" ELSE "saveRequeue",
                        status)
        \/ o.fin /\ o.foreign # "held" /\ Reconcile(c, "delExists", status)

(* The first call handleDelete makes: none without our finalizer, none as  *)
(* long as a foreign finalizer is there.                                   *)
ReconcileDeleting(c) ==
  LET o == cache[c]
      status == WithPhase(o.status, "Terminating")
  IN /\ o.st = "deleting"
     /\ \/ ~o.fin /\ Reconcile(c, "saveStop", status)
        \/ o.fin /\ o.foreign = "held" /\ Reconcile(c, "saveRequeue", status)
        \/ o.fin /\ o.foreign # "held" /\ Reconcile(c, "delExists", status)

Take(c) == \/ ReconcileMissing(c) \/ ReconcileUnsupported(c)
           \/ ReconcileLive(c) \/ ReconcileDeleting(c)

-----------------------------------------------------------------------------
(* Writes of the worker to the API server.                                 *)

(* The object an Update or Status().Update sends at each writing step.     *)
Sent == CASE pc = "addFinalizer"    -> [view EXCEPT !.fin = TRUE]
          [] pc = "removeFinalizer" -> [view EXCEPT !.fin = FALSE]
          [] pc = "assignSubnet"    -> view
          [] pc \in Saving          ->
               [view EXCEPT !.status = [stat EXCEPT !.obsGen = Generation(view)]]

Accepted == /\ CanWrite /\ Post(cur, Sent)
            /\ UNCHANGED <<queue, kind, lost>>

AddFinalizer ==
  /\ pc = "addFinalizer" /\ Accepted
  /\ pc' = "saveStop" /\ view' = Stored(cur, Sent)
  /\ UNCHANGED <<cur, stat, delayed, budget>>

(* Mutant: a resource that is being deleted has lost its subnet already.   *)
TakenByLive == {cache[c].subnet : c \in {d \in Clusters : cache[d].st = "live"}}

(* The first subnet no cached Cluster has; the mutex of                    *)
(* NextAvailableLBNetwork is released before the annotation is written.    *)
Taken == {cache[c].subnet : c \in {d \in Clusters : Exists(cache[d])}}
NextAvailable(s) == s \in Subnets \ Taken /\ \A t \in Subnets \ Taken : s <= t

PickSubnet ==
  /\ pc = "pickSubnet" /\ Malformed \notin Taken
  /\ \E s \in Subnets : NextAvailable(s) /\ view' = [view EXCEPT !.subnet = s]
  /\ pc' = "assignSubnet"
  /\ UNCHANGED <<world, queue, delayed, cur, stat, kind, lost, budget>>

(* Mutant: no retry when every subnet is taken.                            *)
NoSubnetsForGood ==
  /\ pc = "pickSubnet" /\ Subnets \subseteq Taken
  /\ Stop
  /\ UNCHANGED <<world, queue, kind, lost, budget>>

NoSubnetsAvailable ==
  /\ pc = "pickSubnet" /\ Subnets \subseteq Taken
  /\ Requeue
  /\ UNCHANGED <<world, queue, kind, lost, budget>>

(* SubnetFromCluster fails: isIPNetTaken asks it of every Cluster in the   *)
(* cache, whichever provider it belongs to, and of the worker's own before *)
(* MetalLB is installed.                                                   *)
SubnetUnreadable ==
  /\ \/ pc = "pickSubnet" /\ Malformed \in Taken
     \/ pc = "exists" /\ kind[KindName[cur]].st = "running" /\ view.subnet = Malformed
  /\ Requeue
  /\ UNCHANGED <<world, queue, kind, lost, budget>>

(* The response is decoded into the object in memory: the phase set before *)
(* the Update survives or is overwritten by the stored one.                *)
Decoded == {stat, WithPhase(stat, view.status.phase)}

AssignSubnet ==
  /\ pc = "assignSubnet" /\ Accepted
  /\ pc' = "exists" /\ view' = Stored(cur, Sent) /\ stat' \in Decoded
  /\ UNCHANGED <<cur, delayed, budget>>

RemoveFinalizer ==
  /\ pc = "removeFinalizer" /\ Accepted
  /\ pc' = "saveStop" /\ view' = Stored(cur, Sent) /\ stat' \in Decoded
  /\ UNCHANGED <<cur, delayed, budget>>

(* The end of Reconcile: the status is written when it has changed.        *)
Done == IF pc = "saveStop" THEN Stop ELSE Requeue

SaveUnchanged ==
  /\ pc \in Saving /\ Sent.status = view.status /\ Done
  /\ UNCHANGED <<world, queue, kind, lost, budget>>

SaveStatus ==
  /\ pc \in Saving /\ Sent.status # view.status
  /\ Accepted /\ Done
  /\ UNCHANGED budget

(* Mutant: a rejected annotation is not noticed.                           *)
RejectedUnnoticed ==
  /\ pc \in Writing /\ ~CanWrite
  /\ pc \in Saving => Sent.status # view.status
  /\ IF pc = "assignSubnet" THEN Goto("exists") ELSE Requeue
  /\ UNCHANGED <<world, queue, kind, lost, budget>>

(* Conflict or NotFound.                                                   *)
Rejected ==
  /\ pc \in Writing /\ ~CanWrite
  /\ pc \in Saving => Sent.status # view.status
  /\ Requeue
  /\ UNCHANGED <<world, queue, kind, lost, budget>>

(* The write is stored and the answer is lost: the worker sees an error.   *)
AnswerLost ==
  /\ pc \in Writing /\ Fault
  /\ pc \in Saving => Sent.status # view.status
  /\ Accepted /\ Requeue

-----------------------------------------------------------------------------
(* Calls of the worker to the Docker host and to the kind cluster.         *)

name == KindName[cur]
host == kind[name]

Change(k) == /\ kind' = [kind EXCEPT ![name] = k]
             /\ UNCHANGED <<world, queue, lost>>
Call == UNCHANGED <<world, queue, kind, lost>>

(* ClusterExists is false: CreateCluster starts, which takes minutes.      *)
BeginCreate ==
  /\ pc = "exists" /\ host.st = "absent"
  /\ Change(Bare("partial")) /\ Goto("creating")
  /\ UNCHANGED budget

EndCreate ==
  /\ pc = "creating"
  /\ Change(Bare("running")) /\ Goto("saveRequeue")
  /\ UNCHANGED budget

(* kind removes what it has created, and ignores an error of the removal.  *)
CreateFails ==
  /\ pc = "creating" /\ Fault
  /\ \E s \in {"absent", "partial"} : Change(Bare(s))
  /\ Requeue

WithCondition(c) == [stat EXCEPT !.conds = @ \cup {c}]

(* ClusterExists is true; both kubeconfigs and the subnet can be read.     *)
Connect ==
  /\ pc = "exists" /\ host.st = "running" /\ view.subnet # Malformed
  /\ pc' = "install" /\ stat' = WithCondition("KindReady")
  /\ Call /\ UNCHANGED <<cur, view, delayed, budget>>

(* A cluster that was never completed has no kubeconfig; one that has      *)
(* vanished since does not answer.                                         *)
Unreachable ==
  /\ \/ pc = "exists" /\ host.st = "partial"
     \/ pc \in {"install", "isReady", "configure"} /\ host.st # "running"
  /\ Call /\ Requeue /\ UNCHANGED budget

(* createObjects: what exists is left alone.                               *)
Applied(objs) == [host EXCEPT !.comps = [p \in Components |->
                    IF p \in objs /\ @[p] = "none" THEN "applied" ELSE @[p]]]

Install ==
  /\ pc = "install" /\ host.st = "running"
  /\ Change(Applied(Components)) /\ Goto("isReady")
  /\ UNCHANGED budget

(* createObjects stops at the first error.                                 *)
InstallFails ==
  /\ pc = "install" /\ host.st = "running" /\ Fault
  /\ \E objs \in SUBSET Components : Change(Applied(objs))
  /\ Requeue

(* metallb.IsReady lists the pods there are.                               *)
IsReady == \A p \in Components : host.comps[p] # "starting"

(* Mutant: nobody looks again for MetalLB's pods.                          *)
NotReadyOnce ==
  /\ pc = "isReady" /\ host.st = "running" /\ ~IsReady
  /\ Call /\ Goto("saveStop") /\ UNCHANGED budget

NotReady ==
  /\ pc = "isReady" /\ host.st = "running" /\ ~IsReady
  /\ Call /\ Goto("saveRequeue") /\ UNCHANGED budget

MetalLBReady ==
  /\ pc = "isReady" /\ host.st = "running" /\ IsReady
  /\ pc' = "configure" /\ stat' = WithCondition("MetalLBReady")
  /\ Call /\ UNCHANGED <<cur, view, delayed, budget>>

(* Both objects pass the admission webhook.                                *)
Admitted == host.st = "running" /\ host.comps[Webhook] = "ready"

(* Mutant: a stable resource is not looked at again.                       *)
ConfigureSubnetOnce ==
  /\ pc = "configure" /\ Admitted
  /\ Change([host EXCEPT !.pool = view.subnet, !.adv = TRUE])
  /\ pc' = "saveStop"
  /\ stat' = WithPhase(WithCondition("Ready"), "Ready")
  /\ UNCHANGED <<cur, view, delayed, budget>>

ConfigureSubnet ==
  /\ pc = "configure" /\ Admitted
  /\ Change([host EXCEPT !.pool = view.subnet, !.adv = TRUE])
  /\ pc' = "saveRequeue"
  /\ stat' = WithPhase(WithCondition("Ready"), "Ready")
  /\ UNCHANGED <<cur, view, delayed, budget>>

(* Mutant: the second error hides the first.                               *)
ConfigureLastError ==
  /\ pc = "configure" /\ Admitted /\ Fault
  /\ Change([host EXCEPT !.adv = TRUE])
  /\ pc' = "saveRequeue"
  /\ stat' = WithPhase(WithCondition("Ready"), "Ready")
  /\ UNCHANGED <<cur, view, delayed>>

(* errors.Join: one may succeed when the other fails.                      *)
ConfigureFails ==
  /\ pc = "configure" /\ Admitted /\ Fault
  /\ \/ Change([host EXCEPT !.pool = view.subnet])
     \/ Change([host EXCEPT !.adv = TRUE])
  /\ Requeue

NotAdmitted ==
  /\ pc = "configure" /\ host.st = "running" /\ ~Admitted
  /\ Call /\ Requeue /\ UNCHANGED budget

(* handleDelete: the kind cluster first, the finalizer in a later pass.    *)
DeleteCluster ==
  /\ pc = "delExists" /\ host.st # "absent"
  /\ Change(Bare("absent")) /\ Goto("saveRequeue")
  /\ UNCHANGED budget

(* Mutant: an error of DeleteCluster is not returned.                      *)
DeleteErrorIgnored ==
  /\ pc = "delExists" /\ host.st # "absent" /\ Fault
  /\ Change(Bare("partial")) /\ Goto("removeFinalizer")

DeleteFails ==
  /\ pc = "delExists" /\ host.st # "absent" /\ Fault
  /\ Change(Bare("partial")) /\ Requeue

NothingLeft ==
  /\ pc = "delExists" /\ host.st = "absent"
  /\ Call /\ Goto("removeFinalizer") /\ UNCHANGED budget

(* Mutant: an error is logged and dropped.                                 *)
CallFailsUnseen ==
  /\ pc \notin {"idle", "creating"} /\ Fault
  /\ pc \in Saving => Sent.status # view.status
  /\ Call /\ Stop

(* Any call may fail without effect.                                       *)
CallFails ==
  /\ pc \notin {"idle", "creating"} /\ Fault
  /\ pc \in Saving => Sent.status # view.status
  /\ Call /\ Requeue

(* The process is restarted: cache, queue and timers start from a list of  *)
(* the objects; the containers stay as they are, those of an interrupted   *)
(* CreateCluster complete or not.                                          *)
Crash ==
  /\ crashes < MaxCrashes /\ crashes' = crashes + 1
  /\ Idle /\ delayed' = {}
  /\ cache' = api /\ watch' = <<>> /\ queue' = {c \in Clusters : Exists(api[c])}
  /\ \/ UNCHANGED kind
     \/ pc = "creating" /\ kind' = [kind EXCEPT ![name] = Bare("running")]
  /\ UNCHANGED <<api, lost, faults>>

-----------------------------------------------------------------------------
(* The Docker host and the kind clusters on it.                            *)

Host == UNCHANGED <<world, queue, delayed, worker, budget>>

ClusterVanishes(n) ==
  /\ n \in Losable \ lost /\ kind[n].st = "running"
  /\ kind' = [kind EXCEPT ![n] = Bare("absent")] /\ lost' = lost \cup {n}
  /\ Host

Pod(n, p, from, to) ==
  /\ kind[n].comps[p] = from
  /\ kind' = [kind EXCEPT ![n].comps[p] = to]

PodProgresses(n, p) ==
  /\ \/ Pod(n, p, "applied", "starting")
     \/ Pod(n, p, "starting", "ready")
  /\ Host /\ UNCHANGED lost

PodFails(n, p) ==
  /\ Pod(n, p, "ready", "starting") /\ Fault
  /\ UNCHANGED <<world, queue, delayed, worker, lost>>

-----------------------------------------------------------------------------
(* The specification.                                                      *)

Init ==
  /\ api = [c \in Clusters |-> NoObject] /\ cache = api /\ watch = <<>>
  /\ queue = {} /\ delayed = {}
  /\ pc = "idle" /\ cur = NoCluster /\ view = NoObject /\ stat = NoStatus
  /\ kind = [n \in Names |-> Bare("absent")] /\ lost = {}
  /\ faults = 0 /\ crashes = 0

Step ==
  \/ AddFinalizer \/ PickSubnet \/ NoSubnetsAvailable \/ AssignSubnet
  \/ SubnetUnreadable
  \/ RemoveFinalizer \/ SaveUnchanged \/ SaveStatus \/ Rejected
  \/ BeginCreate \/ EndCreate \/ Connect \/ Unreachable \/ Install
  \/ NotReady \/ MetalLBReady \/ ConfigureSubnet \/ NotAdmitted
  \/ DeleteCluster \/ NothingLeft

Failure ==
  \/ AnswerLost \/ CreateFails \/ InstallFails \/ ConfigureFails
  \/ DeleteFails \/ CallFails \/ Crash

Next ==
  \/ \E c \in Clusters : \/ CreateResource(c) \/ DeleteResource(c)
                         \/ HoldForeign(c) \/ ReleaseForeign(c)
                         \/ TimerFires(c) \/ Resync(c) \/ Take(c)
  \/ Deliver \/ Step \/ Failure
  \/ \E n \in Names : \/ ClusterVanishes(n)
                      \/ \E p \in Components : PodProgresses(n, p) \/ PodFails(n, p)

Spec == Init /\ [][Next]_vars

(* The queue serves its keys in turn, timers fire, watches deliver, calls  *)
(* return and pods start; faults and restarts are bounded, and whoever     *)
(* holds a foreign finalizer releases it.  Nothing waits for a resync.     *)
Fairness ==
  /\ WF_vars(Deliver) /\ WF_vars(Step)
  /\ \A c \in Clusters : /\ WF_vars(TimerFires(c)) /\ SF_vars(Take(c))
                         /\ WF_vars(ReleaseForeign(c))
  /\ \A n \in Names, p \in Components : WF_vars(PodProgresses(n, p))

FairSpec == Spec /\ Fairness

-----------------------------------------------------------------------------
(* Properties.                                                             *)

(* Every variable holds values of the kind the code gives it.              *)
TypeOK ==
  /\ api \in [Clusters -> Object] /\ cache \in [Clusters -> Object]
  /\ watch \in Seq(Events)
  /\ queue \subseteq Clusters /\ delayed \subseteq Clusters
  /\ pc \in PCs /\ cur \in Clusters \cup {NoCluster}
  /\ (pc = "idle") = (cur = NoCluster)
  /\ view \in Object /\ stat \in Status
  /\ kind \in [Names -> KindCluster] /\ lost \subseteq Names
  /\ faults \in 0..MaxFaults /\ crashes \in 0..MaxCrashes

(* A kind cluster on the host, complete or not, always has a Cluster       *)
(* resource that holds the controller's finalizer: neither a stale cache,  *)
(* a crash in CreateCluster nor a deletion that overtakes it leaves one    *)
(* that no reconcile will ever remove.                                     *)
NoOrphanKind ==
  \A n \in Names : kind[n].st # "absent" =>
    \E c \in Clusters : KindName[c] = n /\ Exists(api[c]) /\ api[c].fin

(* A Cluster resource that is the only one with its kind cluster's name.   *)
Exclusive(c) == \A d \in Clusters : KindName[d] = KindName[c] => d = c

(* MetalLB never hands out addresses of a subnet other than the one that   *)
(* is annotated, even when the annotation was written with an old view.    *)
PoolMatchesSubnet ==
  \A c \in Clusters :
    Exclusive(c) /\ kind[KindName[c]].pool # NoSubnet =>
      kind[KindName[c]].pool = api[c].subnet

(* MetalLB hands out addresses of the Docker network only, for any network *)
(* that Docker may have configured: others do not reach the kind cluster.  *)
(* The worker never configures what it could not read.                     *)
PoolInNetwork ==
  \A n \in Names :
    kind[n].pool # NoSubnet => /\ kind[n].pool \in Subnets
                               /\ Inside(SubnetOf(kind[n].pool), KindNetwork)

(* Phase Ready on a resource that nobody deletes means a complete kind     *)
(* cluster with MetalLB applied and configured for the resource's subnet,  *)
(* whatever was interrupted on the way, as long as the kind cluster was    *)
(* not taken from under the controller.                                    *)
ReadyBacked ==
  \A c \in Clusters :
    LET k == kind[KindName[c]]
    IN Exclusive(c) /\ KindName[c] \notin lost
       /\ api[c].st = "live" /\ api[c].status.phase = "Ready" =>
         /\ k.st = "running" /\ k.adv
         /\ k.pool = api[c].subnet /\ k.pool # NoSubnet
         /\ \A p \in Components : k.comps[p] # "none"

(* No resource that still needs a reconcile drops out of the controller:   *)
(* its key is queued, on a timer, in the worker's hands or in an event     *)
(* that is still to come.  StopRequeue relies on the last.                 *)
NeverForgotten ==
  \A c \in Responsible :
    api[c].st = "live" \/ (api[c].st = "deleting" /\ api[c].fin) =>
      \/ c \in queue \cup delayed \cup {cur}
      \/ \E i \in 1..Len(watch) : watch[i].c = c

(* The subnet of a resource is never changed once it is stored.            *)
SubnetSticky ==
  [][\A c \in Clusters : api[c].subnet # NoSubnet =>
       api'[c].subnet = api[c].subnet]_vars

(* Once a resource is reported as Terminating its kind cluster is not      *)
(* created again, though reconciles that took the resource for live may    *)
(* still have been under way.                                              *)
NoRecreation ==
  [][\A c \in Clusters :
       /\ Exclusive(c)
       /\ kind[KindName[c]].st = "absent" /\ kind'[KindName[c]].st # "absent"
       => api[c].status.phase # "Terminating"]_vars

(* The controller takes a kind cluster that runs away only from a resource *)
(* that is being deleted and that no foreign finalizer holds any more.     *)
DeletedOnRelease ==
  [][\A c \in Clusters :
       Exclusive(c) /\ lost' = lost
       /\ kind[KindName[c]].st = "running" /\ kind'[KindName[c]].st # "running"
       => api[c].st = "deleting" /\ api[c].foreign # "held"]_vars

(* Every subnet belongs to another resource.                               *)
Assigned == {api[d].subnet : d \in {e \in Clusters : Exists(api[e])}}
Exhausted(c) == api[c].subnet = NoSubnet /\ Subnets \subseteq Assigned

(* The annotation of the resource is unreadable, or it needs a subnet and  *)
(* another one's is.                                                       *)
Unreadable(c) == \/ api[c].subnet = Malformed
                 \/ api[c].subnet = NoSubnet /\ Malformed \in Assigned

(* NextAvailableLBNetwork gives out a subnet that a resource already has   *)
(* only while the event of that resource's assignment is undelivered: the  *)
(* informer's lag is the one way two resources come to share a subnet.     *)
SharedOnlyByLag ==
  [][\A d \in Clusters :
       /\ pc = "pickSubnet" /\ pc' = "assignSubnet"
       /\ Exists(api[d]) /\ api[d].subnet = view'.subnet
       => \E i \in 1..Len(watch) :
            watch[i].c = d /\ watch[i].obj.subnet = view'.subnet]_vars

(* A resource with a supported profile that nobody deletes becomes Ready,  *)
(* unless and as long as every subnet is taken, a subnet annotation in the *)
(* cluster cannot be read, or a creation that was interrupted leaves half  *)
(* a kind cluster.                                                         *)
BecomesReady ==
  \A c \in Responsible :
    api[c].st = "live" ~>
      \/ api[c].st # "live" \/ api[c].status.phase = "Ready"
      \/ Exhausted(c) \/ Unreadable(c) \/ kind[KindName[c]].st = "partial"

(* A resource that is deleted goes, and its kind cluster with it.          *)
DeletionCompletes ==
  \A c \in Responsible :
    api[c].st = "deleting" ~>
      api[c].st = "gone" /\ kind[KindName[c]].st = "absent"

(* A kind cluster that vanishes is created and configured again.           *)
LossRepaired ==
  \A c \in Responsible :
    KindName[c] \in lost /\ api[c].st = "live" ~>
      \/ api[c].st # "live" \/ kind[KindName[c]].st = "partial"
      \/ kind[KindName[c]].pool = api[c].subnet

(* What the code says of itself and the model refutes.                     *)

(* "NextAvailableLBNetwork finds the next available subnet for MetalLB in  *)
(* the Docker network": no two resources have the same one.                *)
UniqueSubnets ==
  \A c, d \in Clusters :
    c # d /\ Exists(api[c]) /\ Exists(api[d]) /\ api[c].subnet \in Subnets =>
      api[c].subnet # api[d].subnet

(* Reconcile "aims to move the current state of the cluster closer to the  *)
(* desired state": a live resource with a supported profile gets a kind    *)
(* cluster that runs, also after a restart of the controller.              *)
EventuallyRunning ==
  \A c \in Responsible :
    api[c].st = "live" ~>
      \/ api[c].st # "live" \/ kind[KindName[c]].st = "running"
      \/ Exhausted(c) \/ Unreadable(c)

=============================================================================
