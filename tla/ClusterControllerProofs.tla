----------------------- MODULE ClusterControllerProofs -----------------------
(***************************************************************************)
(* Type correctness of the cluster controller, and that no kind cluster is *)
(* ever orphaned, for any number of resources, any assignment of kind      *)
(* cluster names (shared ones included) and any bounds.                    *)
(***************************************************************************)
EXTENDS ClusterInvariant, TLAPS

-----------------------------------------------------------------------------
(* Type correctness.                                                       *)

(* Taking away the last finalizer leaves an object.                        *)
LEMMA SettledType ==
  ASSUME NEW o \in Object PROVE Settled(o) \in Object
BY DEF Settled, Object

(* What is there before a resource is created is of the right type.        *)
LEMMA NoObjectType == NoObject \in Object /\ NoStatus \in Status
<1>1. NoStatus \in Status
  BY DEF NoStatus, Status, Phases
<1> QED
  BY <1>1 DEF NoObject, Object, Annotations

(* A kind cluster on which nothing is installed.                           *)
LEMMA BareType ==
  ASSUME NEW s \in {"absent", "partial", "running"} PROVE Bare(s) \in KindCluster
BY DEF Bare, KindCluster, PodStates, Annotations

(* What the API server stores is an object with a version.                 *)
LEMMA StoredType ==
  ASSUME TypeOK, NEW c \in Clusters, NEW o \in Object PROVE Stored(c, o) \in Object
<1>1. Settled(o) \in Object
  BY SettledType
<1>2. api[c].rv + 1 \in Nat
  BY DEF TypeOK, Object
<1> QED
  BY <1>1, <1>2 DEF Stored, Object

(* A write keeps the API server, its events and the cache typed.           *)
LEMMA PostType ==
  ASSUME TypeOK, NEW c \in Clusters, NEW o \in Object, Post(c, o)
  PROVE  /\ api' \in [Clusters -> Object] /\ cache' \in [Clusters -> Object]
         /\ watch' \in Seq(Events)
<1>1. Stored(c, o) \in Object
  BY StoredType
<1>2. [c |-> c, obj |-> Stored(c, o)] \in Events
  BY <1>1 DEF Events
<1> QED
  BY <1>1, <1>2 DEF Post, TypeOK

(* Setting a phase keeps a status a status.                                *)
LEMMA PhaseType ==
  ASSUME NEW s \in Status, NEW p \in Phases PROVE WithPhase(s, p) \in Status
BY DEF Status, WithPhase

(* Setting a condition keeps a status a status.                            *)
LEMMA ConditionType ==
  ASSUME NEW s \in Status, NEW x \in Conditions
  PROVE  [s EXCEPT !.conds = @ \cup {x}] \in Status
BY DEF Status

(* Every Update and Status().Update sends an object.                       *)
LEMMA SentType ==
  ASSUME TypeOK, pc \in Writing PROVE Sent \in Object
<1>1. [stat EXCEPT !.obsGen = Generation(view)] \in Status
  BY DEF TypeOK, Generation, Status
<1>2. [view EXCEPT !.status = [stat EXCEPT !.obsGen = Generation(view)]] \in Object
  BY <1>1 DEF TypeOK, Object
<1>3. /\ [view EXCEPT !.fin = TRUE] \in Object
      /\ [view EXCEPT !.fin = FALSE] \in Object
  BY DEF TypeOK, Object
<1> QED
  BY <1>2, <1>3 DEF Sent, Writing, Saving, TypeOK

(* The steps of the worker, by what they change.                           *)

(* A worker that is not idle has a resource and its kind cluster.          *)
LEMMA WorkerTyped ==
  ASSUME TypeOK, pc # "idle" PROVE cur \in Clusters /\ KindName[cur] \in Names
BY NamesAssumption DEF TypeOK

(* The end of a reconcile, with or without another one to come.            *)
LEMMA FinishType ==
  ASSUME TypeOK, Requeue \/ Stop, pc # "idle"
  PROVE  /\ pc' \in PCs /\ cur' \in Clusters \cup {NoCluster}
         /\ (pc' = "idle") = (cur' = NoCluster)
         /\ view' \in Object /\ stat' \in Status /\ delayed' \subseteq Clusters
BY NoObjectType, WorkerTyped DEF Requeue, Stop, Idle, TypeOK, PCs

(* A call that changes the kind cluster of the reconcile.                  *)
LEMMA ChangeType ==
  ASSUME TypeOK, pc # "idle", NEW k \in KindCluster, Change(k)
  PROVE  /\ kind' \in [Names -> KindCluster]
         /\ UNCHANGED <<world, queue, lost>>
BY WorkerTyped DEF Change, TypeOK, name

(* createObjects, also when it stops half way.                             *)
LEMMA AppliedType ==
  ASSUME TypeOK, pc # "idle", NEW objs PROVE Applied(objs) \in KindCluster
<1>1. host \in KindCluster
  BY WorkerTyped DEF host, name, TypeOK
<1> QED
  BY <1>1 DEF Applied, KindCluster, PodStates

(* ConfigureSubnet, also when one of its two calls fails.                  *)
LEMMA PoolType ==
  ASSUME TypeOK, pc # "idle"
  PROVE  /\ [host EXCEPT !.pool = view.subnet, !.adv = TRUE] \in KindCluster
         /\ [host EXCEPT !.pool = view.subnet] \in KindCluster
         /\ [host EXCEPT !.adv = TRUE] \in KindCluster
<1>1. host \in KindCluster
  BY WorkerTyped DEF host, name, TypeOK
<1>2. view.subnet \in Annotations
  BY DEF TypeOK, Object
<1> QED
  BY <1>1, <1>2 DEF KindCluster

(* A failure is counted within its bound.                                  *)
LEMMA FaultType ==
  ASSUME TypeOK, Fault PROVE faults' \in 0..MaxFaults /\ UNCHANGED crashes
BY BoundsAssumption DEF Fault, TypeOK

(* A write of the worker that the API server accepts.                      *)
LEMMA AcceptedType ==
  ASSUME TypeOK, pc \in Writing, Accepted
  PROVE  /\ api' \in [Clusters -> Object] /\ cache' \in [Clusters -> Object]
         /\ watch' \in Seq(Events) /\ UNCHANGED <<queue, kind, lost>>
         /\ Stored(cur, Sent) \in Object
<1>1. Sent \in Object /\ cur \in Clusters
  BY SentType, WorkerTyped DEF Writing, Saving
<1> QED
  BY <1>1, PostType, StoredType DEF Accepted

(* The steps of the worker.                                                *)
LEMMA StepType ==
  ASSUME TypeOK, Step PROVE TypeOK'
<1>1. CASE AddFinalizer
  BY <1>1, AcceptedType, WorkerTyped
  DEF AddFinalizer, Writing, Saving, TypeOK, PCs, budget
<1>2. CASE PickSubnet
  <2>1. view' \in Object
    BY <1>2 DEF PickSubnet, TypeOK, Object, Annotations
  <2> QED
    BY <1>2, <2>1 DEF PickSubnet, TypeOK, PCs, world, budget
<1>3. CASE AssignSubnet \/ RemoveFinalizer
  <2>1. view.status \in Status /\ view.status.phase \in Phases /\ stat \in Status
    BY DEF TypeOK, Object, Status
  <2>2. stat' \in Status
    BY <1>3, <2>1, PhaseType DEF AssignSubnet, RemoveFinalizer, Decoded
  <2> QED
    BY <1>3, <2>2, AcceptedType
    DEF AssignSubnet, RemoveFinalizer, Writing, Saving, TypeOK, PCs, budget
<1>4. CASE NoSubnetsAvailable \/ SubnetUnreadable \/ Rejected \/ Unreachable \/ NotAdmitted
  <2>1. /\ pc # "idle" /\ Requeue
        /\ UNCHANGED <<world, queue, kind, lost, budget>>
    BY <1>4 DEF NoSubnetsAvailable, SubnetUnreadable, Rejected, Unreachable, NotAdmitted,
                Writing, Saving, Call
  <2> QED
    BY <2>1, FinishType DEF TypeOK, world, budget
<1>5. CASE SaveUnchanged
  BY <1>5, FinishType DEF SaveUnchanged, Saving, Done, TypeOK, world, budget
<1>6. CASE SaveStatus
  BY <1>6, FinishType, AcceptedType DEF SaveStatus, Saving, Writing, Done, TypeOK, budget
<1>7. CASE BeginCreate \/ EndCreate \/ DeleteCluster \/ NothingLeft \/ NotReady
  <2>1. /\ pc # "idle" /\ UNCHANGED <<cur, view, stat, delayed, budget>>
        /\ pc' \in PCs \ {"idle"}
    BY <1>7 DEF BeginCreate, EndCreate, DeleteCluster, NothingLeft, NotReady, Goto, PCs
  <2>2. (\E k \in KindCluster : Change(k)) \/ Call
    BY <1>7, BareType DEF BeginCreate, EndCreate, DeleteCluster, NothingLeft, NotReady
  <2>3. kind' \in [Names -> KindCluster] /\ UNCHANGED <<world, queue, lost>>
    BY <2>1, <2>2, ChangeType DEF Call, TypeOK
  <2> QED
    BY <2>1, <2>3 DEF TypeOK, world, budget
<1>8. CASE Connect \/ MetalLBReady
  <2>1. stat' \in Status
    BY <1>8, ConditionType DEF Connect, MetalLBReady, WithCondition, Conditions, TypeOK
  <2> QED
    BY <1>8, <2>1 DEF Connect, MetalLBReady, Call, TypeOK, PCs, world, budget
<1>9. CASE Install
  <2>1. Applied(Components) \in KindCluster
    BY <1>9, AppliedType DEF Install
  <2> QED
    BY <1>9, <2>1, ChangeType DEF Install, Goto, TypeOK, PCs, world, budget
<1>10. CASE ConfigureSubnet
  <2>1. [host EXCEPT !.pool = view.subnet, !.adv = TRUE] \in KindCluster
    BY <1>10, PoolType DEF ConfigureSubnet
  <2>2. stat' \in Status
    <3>1. WithCondition("Ready") \in Status
      BY ConditionType DEF WithCondition, Conditions, TypeOK
    <3> QED
      BY <1>10, <3>1, PhaseType DEF ConfigureSubnet, Phases
  <2> QED
    BY <1>10, <2>1, <2>2, ChangeType DEF ConfigureSubnet, TypeOK, PCs, world, budget
<1> QED
  BY <1>1, <1>2, <1>3, <1>4, <1>5, <1>6, <1>7, <1>8, <1>9, <1>10 DEF Step

(* The failures, and a restart.                                            *)
LEMMA FailureType ==
  ASSUME TypeOK, Failure PROVE TypeOK'
<1>1. CASE AnswerLost
  BY <1>1, FinishType, AcceptedType, FaultType DEF AnswerLost, Writing, Saving, TypeOK
<1>2. CASE CallFails
  BY <1>2, FinishType, FaultType DEF CallFails, Call, TypeOK, world
<1>3. CASE CreateFails \/ InstallFails \/ ConfigureFails \/ DeleteFails
  <2>1. pc # "idle" /\ Requeue /\ Fault
    BY <1>3 DEF CreateFails, InstallFails, ConfigureFails, DeleteFails
  <2>2. \E k \in KindCluster : Change(k)
    BY <1>3, BareType, AppliedType, PoolType
    DEF CreateFails, InstallFails, ConfigureFails, DeleteFails
  <2> QED
    BY <2>1, <2>2, ChangeType, FinishType, FaultType DEF TypeOK, world
<1>4. CASE Crash
  <2>1. kind' \in [Names -> KindCluster]
    BY <1>4, BareType, WorkerTyped DEF Crash, TypeOK, name
  <2>2. crashes' \in 0..MaxCrashes
    BY <1>4, BoundsAssumption DEF Crash, TypeOK
  <2> QED
    BY <1>4, <2>1, <2>2, NoObjectType DEF Crash, Idle, TypeOK, PCs
<1> QED
  BY <1>1, <1>2, <1>3, <1>4 DEF Failure

(* Every variable keeps to its type, whatever is interrupted or fails.     *)
THEOREM TypeCorrect == Spec => []TypeOK
<1>1. Init => TypeOK
  <2> SUFFICES ASSUME Init PROVE TypeOK
    OBVIOUS
  <2>1. \A c \in Clusters : NoObject \in Object
    BY NoObjectType
  <2>2. Bare("absent") \in KindCluster
    BY BareType
  <2> QED
    BY <2>1, <2>2, NoObjectType, ClustersAssumption, BoundsAssumption
    DEF Init, TypeOK, PCs
<1>2. TypeOK /\ [Next]_vars => TypeOK'
  <2> SUFFICES ASSUME TypeOK, [Next]_vars PROVE TypeOK'
    OBVIOUS
  <2>1. ASSUME NEW c \in Clusters,
               CreateResource(c) \/ DeleteResource(c) \/ HoldForeign(c) \/ ReleaseForeign(c)
        PROVE  TypeOK'
    <3>1. PICK o \in Object : User(c, o)
      <4>1. /\ \A s \in Annotations : [api[c] EXCEPT !.st = "live", !.subnet = s] \in Object
            /\ [api[c] EXCEPT !.st = "deleting"] \in Object
            /\ [api[c] EXCEPT !.foreign = "held"] \in Object
            /\ [api[c] EXCEPT !.foreign = "released"] \in Object
        BY DEF TypeOK, Object
      <4> QED
        BY <2>1, <4>1 DEF CreateResource, DeleteResource, HoldForeign, ReleaseForeign, Annotations
    <3> QED
      BY <3>1, PostType DEF User, TypeOK, worker, budget
  <2>2. ASSUME Deliver PROVE TypeOK'
    <3>1. Head(watch) \in Events /\ Tail(watch) \in Seq(Events)
      BY <2>2 DEF Deliver, TypeOK
    <3> QED
      BY <2>2, <3>1 DEF Deliver, TypeOK, Events, worker, budget
  <2>3. ASSUME NEW c \in Clusters, TimerFires(c) \/ Resync(c) PROVE TypeOK'
    BY <2>3 DEF TimerFires, Resync, TypeOK, world, worker, budget
  <2>4. ASSUME NEW c \in Clusters, Take(c) PROVE TypeOK'
    <3>1. CASE ReconcileMissing(c) \/ ReconcileUnsupported(c)
      BY <3>1 DEF ReconcileMissing, ReconcileUnsupported, Dequeue, TypeOK,
                  world, worker, budget
    <3>2. CASE ReconcileLive(c) \/ ReconcileDeleting(c)
      <4>1. /\ cache[c].status \in Status
            /\ WithPhase(cache[c].status, "Progressing") \in Status
            /\ WithPhase(cache[c].status, "Terminating") \in Status
        <5>1. cache[c].status \in Status
          BY DEF TypeOK, Object
        <5> QED
          BY <5>1, PhaseType DEF Phases
      <4>2. PICK label \in PCs \ {"idle"}, s \in Status : Reconcile(c, label, s)
        BY <3>2, <4>1 DEF ReconcileLive, ReconcileDeleting, PCs
      <4> QED
        BY <4>2, ClustersAssumption DEF Reconcile, Dequeue, TypeOK, world, budget
    <3> QED
      BY <2>4, <3>1, <3>2 DEF Take
  <2>5. ASSUME Step PROVE TypeOK'
    BY <2>5, StepType
  <2>6. ASSUME Failure PROVE TypeOK'
    BY <2>6, FailureType
  <2>7. ASSUME NEW n \in Names, ClusterVanishes(n) PROVE TypeOK'
    <3>1. Bare("absent") \in KindCluster
      BY BareType
    <3> QED
      BY <2>7, <3>1 DEF ClusterVanishes, Host, TypeOK, world, worker, budget
  <2>8. ASSUME NEW n \in Names, NEW p \in Components,
               PodProgresses(n, p) \/ PodFails(n, p)
        PROVE  TypeOK'
    <3>1. ASSUME NEW s \in PodStates PROVE [kind[n] EXCEPT !.comps[p] = s] \in KindCluster
      BY DEF TypeOK, KindCluster
    <3>2. kind' \in [Names -> KindCluster]
      BY <2>8, <3>1 DEF PodProgresses, PodFails, Pod, TypeOK, PodStates
    <3> QED
      BY <2>8, <3>2, FaultType DEF PodProgresses, PodFails, Host, TypeOK, world, worker, budget
  <2>9. CASE UNCHANGED vars
    BY <2>9 DEF TypeOK, vars, world, worker, budget
  <2> QED
    BY <2>1, <2>2, <2>3, <2>4, <2>5, <2>6, <2>7, <2>8, <2>9 DEF Next
<1> QED
  BY <1>1, <1>2, PTL DEF Spec

-----------------------------------------------------------------------------
(* No kind cluster is orphaned.                                            *)

(* Storing an object changes its version, and its state at the end only.   *)
LEMMA StoredFields ==
  ASSUME TypeOK, NEW c \in Clusters, NEW o \in Object
  PROVE  /\ Stored(c, o).rv = api[c].rv + 1 /\ api[c].rv \in Nat
         /\ Stored(c, o).fin = o.fin
         /\ Past(o) => Past(Stored(c, o))
         /\ Exists(o) /\ o.fin => Exists(Stored(c, o))
BY DEF Stored, Settled, Object, TypeOK, Past, Exists

(* A write keeps a claim that it does not give up.                         *)
LEMMA ClaimsKept ==
  ASSUME TypeOK, NEW c \in Clusters, NEW o \in Object, Post(c, o),
         NEW d \in Clusters, Claimed(d), d = c => Exists(o) /\ o.fin
  PROVE  Claimed(d)'
<1>1. CASE d = c
  BY <1>1, StoredFields DEF Post, Claimed, TypeOK
<1>2. CASE d # c
  BY <1>2 DEF Post, Claimed, TypeOK
<1> QED
  BY <1>1, <1>2

(* A write preserves what is known of the copies, unless it gives up a     *)
(* claim while live copies are around.                                     *)
LEMMA PostCopies ==
  ASSUME TypeOK, CopiesFaithful, CopiesInOrder,
         NEW c \in Clusters, NEW o \in Object, Post(c, o),
         Past(api[c]) => Past(o),
         Past(cache[c]) \/ (Claimed(c) => Exists(o) /\ o.fin)
  PROVE  CopiesFaithful' /\ CopiesInOrder'
<1>0. PICK s \in Object : s = Stored(c, o)
  BY StoredType
<1> DEFINE e == [c |-> c, obj |-> s]
           n == Len(watch)
<1>1. /\ n \in Nat /\ e \in Events
      /\ \A i \in 1..n : watch[i] \in Events
  <2>1. watch \in Seq(Events)
    BY DEF TypeOK
  <2>2. e \in Events
    BY <1>0 DEF Events
  <2> HIDE DEF e
  <2> QED
    BY <2>1, <2>2
<1>2. /\ Len(watch') = n + 1 /\ watch'[n + 1] = e
      /\ \A i \in 1..n : watch'[i] = watch[i]
  <2>1. watch \in Seq(Events) /\ e \in Events /\ watch' = Append(watch, e)
    BY <1>0, <1>1 DEF Post, TypeOK
  <2> HIDE DEF e
  <2> QED
    BY <2>1
<1>3. \A d \in Clusters : cache'[d] = cache[d] /\ (d # c => api'[d] = api[d])
  BY DEF Post, TypeOK
<1>4. api'[c] = s /\ api[c].rv \in Nat /\ s.rv = api[c].rv + 1
  BY <1>0, StoredFields DEF Post, TypeOK
<1>5. Past(api[c]) => Past(s)
  BY <1>0, StoredFields
<1>6. ASSUME NEW d \in Clusters, NEW v \in Object, Faithful(d, v),
             Past(cache[d]) => ~(v.st = "live")
      PROVE  Faithful(d, v)'
  <2>1. CASE d # c
    BY <1>3, <1>6, <2>1 DEF Faithful, Claimed
  <2>2. CASE d = c
    <3>1. v.rv <= api'[c].rv /\ v.rv # api'[c].rv
      BY <1>4, <1>6, <2>2 DEF Faithful, Object
    <3>2. v.st = "live" /\ v.fin => Claimed(c)'
      BY <1>6, <2>2, ClaimsKept DEF Faithful
    <3> QED
      BY <1>4, <1>5, <1>6, <2>2, <3>1, <3>2 DEF Faithful
  <2> QED
    BY <2>1, <2>2
<1>7. CopiesFaithful'
  <2>1. \A d \in Clusters : Faithful(d, cache[d])'
    <3> TAKE d \in Clusters
    <3>1. cache[d] \in Object /\ Faithful(d, cache[d])
      BY DEF TypeOK, CopiesFaithful
    <3>2. Past(cache[d]) => ~(cache[d].st = "live")
      BY DEF Past
    <3> QED
      BY <1>3, <1>6, <3>1, <3>2 DEF Faithful
  <2>2. \A i \in 1..n : Faithful(watch[i].c, watch[i].obj)'
    <3> TAKE i \in 1..n
    <3>1. /\ watch[i].c \in Clusters /\ watch[i].obj \in Object
          /\ Faithful(watch[i].c, watch[i].obj)
      BY <1>1 DEF CopiesFaithful, Events
    <3>2. Past(cache[watch[i].c]) => ~(watch[i].obj.st = "live")
      BY DEF CopiesInOrder, Past
    <3> QED
      BY <1>2, <1>6, <3>1, <3>2 DEF Faithful
  <2>3. Faithful(c, s)'
    BY <1>4 DEF Faithful, Claimed, Exists
  <2> QED
    BY <1>1, <1>2, <2>1, <2>2, <2>3 DEF CopiesFaithful
<1>8. CopiesInOrder'
  <2>1. ASSUME NEW v, Faithful(c, v), Past(v) PROVE Past(s)
    BY <1>4, <1>5, <2>1 DEF Faithful
  <2>2. \A i \in 1..Len(watch') : Past(cache'[watch'[i].c]) => Past(watch'[i].obj)
    BY <1>1, <1>2, <1>3, <2>1 DEF CopiesInOrder, CopiesFaithful, Events
  <2>3. ASSUME NEW i \in 1..Len(watch'), NEW j \in 1..Len(watch'), i < j,
               watch'[i].c = watch'[j].c, Past(watch'[i].obj)
        PROVE  Past(watch'[j].obj)
    <3>1. CASE j \in 1..n
      BY <1>1, <1>2, <2>3, <3>1 DEF CopiesInOrder
    <3>2. CASE j = n + 1
      <4>1. i \in 1..n /\ watch[i].c = c /\ Past(watch[i].obj)
        BY <1>1, <1>2, <2>3, <3>2
      <4> QED
        BY <1>2, <2>1, <3>2, <4>1 DEF CopiesFaithful
    <3> QED
      BY <1>1, <1>2, <3>1, <3>2
  <2> QED
    BY <2>2, <2>3 DEF CopiesInOrder
<1> QED
  BY <1>7, <1>8

(* A write that keeps the claims leaves no kind cluster orphaned.          *)
LEMMA PostOrphans ==
  ASSUME TypeOK, NoOrphanKind, NEW c \in Clusters, NEW o \in Object,
         Post(c, o), UNCHANGED kind,
         Claimed(c) => (Exists(o) /\ o.fin) \/ kind[KindName[c]].st = "absent"
  PROVE  NoOrphanKind'
<1> SUFFICES ASSUME NEW n \in Names, kind[n].st # "absent"
             PROVE  \E d \in Clusters : KindName[d] = n /\ Claimed(d)'
  BY DEF NoOrphanKind, Claimed, Exists
<1>1. PICK d \in Clusters : KindName[d] = n /\ Claimed(d)
  BY DEF NoOrphanKind, Claimed
<1>2. Claimed(d)'
  BY <1>1, ClaimsKept
<1> QED
  BY <1>1, <1>2

(* The copies depend on the API server and the cache alone.                *)
LEMMA SameWorld ==
  ASSUME CopiesFaithful, CopiesInOrder, UNCHANGED world
  PROVE  CopiesFaithful' /\ CopiesInOrder' /\ \A c \in Clusters : Claimed(c)' = Claimed(c)
BY DEF CopiesFaithful, CopiesInOrder, Faithful, Claimed, world

(* A kind cluster that changes without coming into being.                  *)
LEMMA KindOrphans ==
  ASSUME NoOrphanKind, UNCHANGED api,
         \A n \in Names : kind'[n].st # "absent" =>
           \/ kind[n].st # "absent"
           \/ \E c \in Clusters : KindName[c] = n /\ Claimed(c)
  PROVE  NoOrphanKind'
BY DEF NoOrphanKind, Claimed

(* What an accepted write of the worker stores.                            *)
LEMMA AcceptedPost ==
  ASSUME TypeOK, ViewCurrent, pc \in Writing, Accepted
  PROVE  /\ cur \in Clusters /\ Sent \in Object /\ Post(cur, Sent)
         /\ Sent.st = api[cur].st /\ Exists(api[cur])
         /\ pc # "removeFinalizer" /\ api[cur].fin => Sent.fin
         /\ UNCHANGED <<queue, kind, lost>>
<1>1. cur \in Clusters /\ Sent \in Object
  BY SentType, WorkerTyped DEF Writing, Saving
<1>2. Post(cur, Sent) /\ Exists(api[cur]) /\ view.rv = api[cur].rv
  BY DEF Accepted, CanWrite
<1>3. view.st = api[cur].st /\ view.fin = api[cur].fin
  <2>1. view = IF pc = "assignSubnet" THEN [api[cur] EXCEPT !.subnet = view.subnet]
                                      ELSE api[cur]
    BY <1>2 DEF ViewCurrent, Writing, Saving
  <2>2. api[cur] \in Object
    BY <1>1 DEF TypeOK
  <2> QED
    BY <2>1, <2>2 DEF Object
<1>4. view \in Object
  BY DEF TypeOK
<1>5. Sent.st = view.st /\ (pc # "removeFinalizer" /\ view.fin => Sent.fin)
  BY <1>4 DEF Sent, Writing, Saving, Object
<1> QED
  BY <1>1, <1>2, <1>3, <1>5 DEF Accepted

(* A write of the worker keeps what is known of the copies.                *)
LEMMA AcceptedInvariant ==
  ASSUME TypeOK, ClaimInvariant, pc \in Writing, Accepted
  PROVE  CopiesFaithful' /\ CopiesInOrder' /\ NoOrphanKind'
<1> USE DEF ClaimInvariant
<1>1. Past(api[cur]) => Past(Sent)
  BY AcceptedPost DEF Past
<1>2. Past(cache[cur]) \/ (Claimed(cur) => Exists(Sent) /\ Sent.fin)
  BY AcceptedPost DEF WorkJustified, Removing, Claimed, Exists
<1>3. Claimed(cur) => (Exists(Sent) /\ Sent.fin) \/ kind[KindName[cur]].st = "absent"
  BY AcceptedPost DEF WorkJustified, Claimed, Exists
<1> QED
  BY <1>1, <1>2, <1>3, AcceptedPost, PostCopies, PostOrphans

(* Between reconciles nothing is claimed of the worker.                    *)
LEMMA IdleInvariant ==
  ASSUME pc' = "idle" PROVE ViewCurrent' /\ WorkJustified'
BY DEF ViewCurrent, WorkJustified, Providing, Removing

(* Writes of users and of the holders of foreign finalizers.               *)
LEMMA UserInvariant ==
  ASSUME TypeOK, ClaimInvariant, NEW c \in Clusters,
         CreateResource(c) \/ DeleteResource(c) \/ HoldForeign(c) \/ ReleaseForeign(c)
  PROVE  ClaimInvariant'
<1> USE DEF ClaimInvariant
<1>1. PICK o \in Object : /\ User(c, o)
                          /\ Past(api[c]) => Past(o)
                          /\ Claimed(c) => Exists(o) /\ o.fin
  <2>1. api[c] \in Object
    BY DEF TypeOK
  <2>2. CASE CreateResource(c)
    <3>1. PICK s \in Annotations : User(c, [api[c] EXCEPT !.st = "live", !.subnet = s])
      BY <2>2 DEF CreateResource, Annotations
    <3>2. [api[c] EXCEPT !.st = "live", !.subnet = s] \in Object
      BY <2>1 DEF Object
    <3> QED
      BY <2>1, <2>2, <3>1, <3>2 DEF CreateResource, Object, Past, Claimed, Exists
  <2>3. CASE DeleteResource(c)
    <3>1. [api[c] EXCEPT !.st = "deleting"] \in Object
      BY <2>1 DEF Object
    <3> QED
      BY <2>1, <2>3, <3>1 DEF DeleteResource, Object, Past, Claimed, Exists
  <2>4. CASE HoldForeign(c)
    <3>1. [api[c] EXCEPT !.foreign = "held"] \in Object
      BY <2>1 DEF Object
    <3> QED
      BY <2>1, <2>4, <3>1 DEF HoldForeign, Object, Past, Claimed, Exists
  <2>5. CASE ReleaseForeign(c)
    <3>1. [api[c] EXCEPT !.foreign = "released"] \in Object
      BY <2>1 DEF Object
    <3> QED
      BY <2>1, <2>5, <3>1 DEF ReleaseForeign, Object, Past, Claimed, Exists
  <2> QED
    BY <2>2, <2>3, <2>4, <2>5
<1>2. Post(c, o) /\ UNCHANGED <<cache, queue, delayed, worker, kind, lost, budget>>
  BY <1>1 DEF User
<1>3. CopiesFaithful' /\ CopiesInOrder'
  BY <1>1, <1>2, PostCopies
<1>4. NoOrphanKind'
  BY <1>1, <1>2, PostOrphans
<1>5. ViewCurrent'
  <2>1. ASSUME pc # "idle" PROVE ViewCurrent'
    <3>1. cur \in Clusters /\ view.rv \in Nat /\ view.rv <= api[cur].rv
      BY <2>1, WorkerTyped DEF ViewCurrent, TypeOK, Object
    <3>2. CASE cur = c
      <4>1. api'[c].rv = api[c].rv + 1 /\ api[c].rv \in Nat
        BY <1>2, StoredFields DEF Post, TypeOK
      <4> QED
        BY <1>2, <3>1, <3>2, <4>1 DEF ViewCurrent, worker
    <3>3. CASE cur # c
      <4>1. api'[cur] = api[cur]
        BY <1>2, <3>1, <3>3 DEF Post, TypeOK
      <4> QED
        BY <1>2, <4>1 DEF ViewCurrent, worker
    <3> QED
      BY <3>2, <3>3
  <2> QED
    BY <1>2, <2>1 DEF ViewCurrent, worker
<1>6. WorkJustified'
  <2>1. ASSUME pc \in Providing PROVE Claimed(cur)'
    <3>1. cur \in Clusters /\ Claimed(cur)
      BY <2>1, WorkerTyped DEF WorkJustified, Providing
    <3>2. cur' = cur
      BY <1>2 DEF worker
    <3>3. \A d \in Clusters : Claimed(d) => Claimed(d)'
      BY <1>1, <1>2, ClaimsKept
    <3>4. Exists(api'[cur]) /\ api'[cur].fin
      BY <3>1, <3>3 DEF Claimed, Exists
    <3> QED
      BY <3>2, <3>4 DEF Claimed, Exists
  <2> QED
    BY <1>2, <2>1 DEF WorkJustified, worker
<1> QED
  BY <1>3, <1>4, <1>5, <1>6

(* The informer delivers the oldest event.                                 *)
LEMMA DeliverInvariant ==
  ASSUME TypeOK, ClaimInvariant, Deliver PROVE ClaimInvariant'
<1> USE DEF ClaimInvariant
<1> DEFINE n == Len(watch)
<1>1. /\ n \in Nat /\ n > 0 /\ Len(watch') = n - 1
      /\ \A i \in 1..(n - 1) : watch'[i] = watch[i + 1]
      /\ \A i \in 1..n : watch[i] \in Events
      /\ Head(watch) = watch[1]
  BY DEF Deliver, TypeOK
<1>2. PICK e \in Events : e = watch[1]
  BY <1>1
<1>3. /\ e.c \in Clusters /\ e.obj \in Object
      /\ cache' = [cache EXCEPT ![e.c] = e.obj]
      /\ UNCHANGED <<api, worker, kind>>
  BY <1>1, <1>2 DEF Deliver, Events
<1>4. \A d, v : Faithful(d, v)' = Faithful(d, v)
  BY <1>3 DEF Faithful, Claimed
<1>5. CopiesFaithful'
  <2>1. \A c \in Clusters : Faithful(c, cache'[c])
    BY <1>1, <1>2, <1>3 DEF CopiesFaithful, TypeOK
  <2>2. \A i \in 1..(n - 1) : Faithful(watch'[i].c, watch'[i].obj)
    BY <1>1 DEF CopiesFaithful
  <2> QED
    BY <1>1, <1>3, <2>1, <2>2 DEF CopiesFaithful, Faithful, Claimed
<1>6. CopiesInOrder'
  <2>1. ASSUME NEW i \in 1..(n - 1), Past(cache'[watch'[i].c])
        PROVE  Past(watch'[i].obj)
    <3>1. i + 1 \in 1..n /\ watch'[i] = watch[i + 1] /\ watch[i + 1].c \in Clusters
      BY <1>1 DEF Events
    <3>2. CASE watch[i + 1].c = e.c
      <4>1. cache'[watch'[i].c] = watch[1].obj
        BY <1>2, <1>3, <3>1, <3>2 DEF TypeOK
      <4>2. 1 \in 1..n /\ 1 < i + 1 /\ watch[1].c = watch[i + 1].c
        BY <1>1, <1>2, <3>2
      <4>3. Past(watch[i + 1].obj)
        BY <2>1, <3>1, <4>1, <4>2 DEF CopiesInOrder
      <4> QED
        BY <3>1, <4>3
    <3>3. CASE watch[i + 1].c # e.c
      BY <1>3, <2>1, <3>1, <3>3 DEF CopiesInOrder, TypeOK
    <3> QED
      BY <3>2, <3>3
  <2>2. ASSUME NEW i \in 1..(n - 1), NEW j \in 1..(n - 1), i < j,
               watch'[i].c = watch'[j].c, Past(watch'[i].obj)
        PROVE  Past(watch'[j].obj)
    <3>1. /\ i + 1 \in 1..n /\ j + 1 \in 1..n /\ i + 1 < j + 1
          /\ watch'[i] = watch[i + 1] /\ watch'[j] = watch[j + 1]
      BY <1>1, <2>2
    <3> QED
      BY <2>2, <3>1 DEF CopiesInOrder
  <2> QED
    BY <1>1, <2>1, <2>2 DEF CopiesInOrder
<1>7. WorkJustified'
  <2>1. ASSUME cur \in Clusters, Past(cache[cur]) PROVE Past(cache'[cur])
    <3>1. CASE cur = e.c
      BY <1>1, <1>2, <1>3, <2>1, <3>1 DEF CopiesInOrder, TypeOK
    <3>2. CASE cur # e.c
      BY <1>3, <2>1, <3>2 DEF TypeOK
    <3> QED
      BY <3>1, <3>2
  <2> QED
    BY <1>3, <2>1, WorkerTyped DEF WorkJustified, Claimed, worker, Removing
<1> QED
  BY <1>3, <1>5, <1>6, <1>7 DEF ViewCurrent, NoOrphanKind, worker

(* The worker takes a key and makes its first decision.                    *)
LEMMA TakeInvariant ==
  ASSUME TypeOK, ClaimInvariant, NEW c \in Clusters, Take(c)
  PROVE  ClaimInvariant'
<1> USE DEF ClaimInvariant
<1>1. UNCHANGED world /\ UNCHANGED kind
  BY DEF Take, ReconcileMissing, ReconcileUnsupported, ReconcileLive,
         ReconcileDeleting, Reconcile
<1>2. CopiesFaithful' /\ CopiesInOrder' /\ NoOrphanKind'
  BY <1>1, SameWorld, KindOrphans DEF world
<1>3. CASE ReconcileMissing(c) \/ ReconcileUnsupported(c)
  BY <1>1, <1>2, <1>3 DEF ReconcileMissing, ReconcileUnsupported, Dequeue,
     ViewCurrent, WorkJustified, Claimed, Providing, Removing, world, worker
<1>4. CASE ReconcileLive(c) \/ ReconcileDeleting(c)
  <2>1. /\ cur' = c /\ view' = cache[c]
        /\ pc' \in {"pickSubnet", "exists"} => cache[c].st = "live" /\ cache[c].fin
        /\ pc' \in {"delExists"} => cache[c].st = "deleting"
        /\ pc' \in {"addFinalizer", "pickSubnet", "exists", "delExists"} \cup Saving
    BY <1>4 DEF ReconcileLive, ReconcileDeleting, Reconcile, Saving
  <2>2. Faithful(c, cache[c])
    BY DEF CopiesFaithful
  <2>3. ViewCurrent'
    BY <1>1, <2>1, <2>2 DEF ViewCurrent, Faithful, Saving, world
  <2>4. WorkJustified'
    BY <1>1, <2>1, <2>2 DEF WorkJustified, Faithful, Claimed, Providing, Removing,
       Saving, Past, world
  <2> QED
    BY <1>2, <2>3, <2>4
<1> QED
  BY <1>3, <1>4 DEF Take

(* A step of the worker that leaves the API server and the cache alone.    *)
LEMMA LocalInvariant ==
  ASSUME TypeOK, ClaimInvariant, pc # "idle", UNCHANGED world,
         \/ pc' = "idle"
         \/ /\ UNCHANGED <<cur, view>> /\ pc \notin Saving \cup {"assignSubnet"}
            /\ pc' \notin {"assignSubnet"}
            /\ pc' \in Providing => pc \in Providing
            /\ pc' \in Removing => pc \in Removing
            /\ pc' = "removeFinalizer" => kind'[KindName[cur]].st = "absent",
         \A n \in Names : kind'[n].st # "absent" =>
           kind[n].st # "absent" \/ (n = KindName[cur] /\ pc \in Providing)
  PROVE  ClaimInvariant'
<1> USE DEF ClaimInvariant
<1>1. CopiesFaithful' /\ CopiesInOrder'
  BY SameWorld
<1>2. NoOrphanKind'
  <2>1. pc \in Providing => cur \in Clusters /\ Claimed(cur)
    BY WorkerTyped DEF WorkJustified
  <2> QED
    BY <2>1, KindOrphans DEF world
<1>3. ViewCurrent' /\ WorkJustified'
  BY IdleInvariant DEF ViewCurrent, WorkJustified, Claimed, world
<1> QED
  BY <1>1, <1>2, <1>3

(* A write of the worker that is followed by another step of the pass.     *)
LEMMA WriteInvariant ==
  ASSUME TypeOK, ClaimInvariant, AddFinalizer \/ AssignSubnet \/ RemoveFinalizer
  PROVE  ClaimInvariant'
<1>1. /\ pc \in {"addFinalizer", "assignSubnet", "removeFinalizer"} /\ Accepted
      /\ pc' \in {"saveStop", "exists"} /\ (pc' = "exists" => pc = "assignSubnet")
      /\ cur' = cur /\ view' = Stored(cur, Sent)
  BY DEF AddFinalizer, AssignSubnet, RemoveFinalizer
<1>2. CopiesFaithful' /\ CopiesInOrder' /\ NoOrphanKind'
  BY <1>1, AcceptedInvariant DEF Writing
<1>3. /\ cur \in Clusters /\ Sent \in Object /\ Post(cur, Sent)
      /\ Sent.st = api[cur].st /\ (pc # "removeFinalizer" /\ api[cur].fin => Sent.fin)
  BY <1>1, AcceptedPost DEF Writing, ClaimInvariant
<1>4. view' = api'[cur] /\ api'[cur].rv \in Nat
  BY <1>1, <1>3, StoredFields DEF Post, TypeOK
<1>5. ViewCurrent'
  BY <1>1, <1>4 DEF ViewCurrent
<1>6. WorkJustified'
  <2>1. ASSUME pc = "assignSubnet" PROVE Claimed(cur)'
    <3>1. Claimed(cur)
      BY <2>1 DEF ClaimInvariant, WorkJustified, Providing
    <3>2. PICK d \in Clusters : d = cur
      BY <1>3
    <3>3. Claimed(d)'
      BY <1>3, <2>1, <3>1, <3>2, ClaimsKept DEF Claimed, Exists
    <3> QED
      BY <1>1, <3>2, <3>3 DEF Claimed
  <2> QED
    BY <1>1, <2>1 DEF WorkJustified, Claimed, Providing, Removing
<1> QED
  BY <1>2, <1>5, <1>6 DEF ClaimInvariant

(* The choice of a subnet, in memory.                                      *)
LEMMA PickInvariant ==
  ASSUME TypeOK, ClaimInvariant, PickSubnet PROVE ClaimInvariant'
<1> USE DEF ClaimInvariant
<1>1. UNCHANGED world /\ UNCHANGED kind /\ cur' = cur
  BY DEF PickSubnet
<1>2. ViewCurrent'
  <2>1. PICK s \in Subnets : view' = [view EXCEPT !.subnet = s]
    BY DEF PickSubnet
  <2>2. view \in Object /\ pc = "pickSubnet" /\ pc' = "assignSubnet"
    BY DEF PickSubnet, TypeOK
  <2>3. /\ view'.rv = view.rv /\ view'.subnet = s
        /\ view.rv <= api[cur].rv /\ (view.rv = api[cur].rv => view = api[cur])
    BY <2>1, <2>2 DEF ViewCurrent, Object
  <2> QED
    BY <1>1, <2>1, <2>2, <2>3 DEF ViewCurrent, world
<1>3. WorkJustified'
  BY <1>1 DEF PickSubnet, WorkJustified, Claimed, Providing, Removing, world
<1> QED
  BY <1>1, <1>2, <1>3, SameWorld, KindOrphans DEF world

(* The end of Reconcile.                                                   *)
LEMMA SaveInvariant ==
  ASSUME TypeOK, ClaimInvariant, SaveStatus \/ AnswerLost PROVE ClaimInvariant'
<1>1. pc \in Writing /\ Accepted /\ pc' = "idle"
  BY DEF SaveStatus, AnswerLost, Writing, Done, Stop, Requeue, Idle
<1> QED
  BY <1>1, AcceptedInvariant, IdleInvariant DEF ClaimInvariant

(* The steps of the worker keep the claim invariant.                       *)
LEMMA StepInvariant ==
  ASSUME TypeOK, ClaimInvariant, Step PROVE ClaimInvariant'
<1>1. CASE AddFinalizer \/ AssignSubnet \/ RemoveFinalizer
  BY <1>1, WriteInvariant
<1>2. CASE PickSubnet
  BY <1>2, PickInvariant
<1>3. CASE SaveStatus
  BY <1>3, SaveInvariant
<1>4. CASE \/ NoSubnetsAvailable \/ SubnetUnreadable \/ SaveUnchanged
           \/ Rejected \/ Unreachable \/ NotAdmitted
  <2>1. pc # "idle" /\ pc' = "idle" /\ UNCHANGED world /\ UNCHANGED kind
    BY <1>4 DEF NoSubnetsAvailable, SubnetUnreadable, SaveUnchanged, Rejected, Unreachable,
                NotAdmitted, Writing, Saving, Done, Stop, Requeue, Idle, Call
  <2> QED
    BY <2>1, LocalInvariant
<1>5. CASE BeginCreate \/ EndCreate \/ DeleteCluster \/ NothingLeft \/ NotReady
  <2>1. /\ UNCHANGED world /\ UNCHANGED <<cur, view>>
        /\ pc \in {"exists", "creating", "delExists", "isReady"}
        /\ pc' \in {"creating", "saveRequeue", "removeFinalizer"}
        /\ pc' = "creating" => pc = "exists"
        /\ pc' = "removeFinalizer" =>
             pc = "delExists" /\ UNCHANGED kind /\ host.st = "absent"
    BY <1>5 DEF BeginCreate, EndCreate, DeleteCluster, NothingLeft, NotReady,
                Goto, Change, Call
  <2>2. \A n \in Names : kind'[n].st # "absent" =>
           kind[n].st # "absent" \/ (n = KindName[cur] /\ pc \in Providing)
    BY <1>5 DEF BeginCreate, EndCreate, DeleteCluster, NothingLeft, NotReady,
                Change, Call, Bare, TypeOK, name, Providing
  <2> QED
    BY <2>1, <2>2, LocalInvariant DEF Saving, Providing, Removing, host, name
<1>6. CASE Connect \/ MetalLBReady \/ Install \/ ConfigureSubnet
  <2>1. /\ UNCHANGED world /\ UNCHANGED <<cur, view>>
        /\ pc \in {"exists", "isReady", "install", "configure"}
        /\ pc' \in {"install", "configure", "isReady", "saveRequeue"}
        /\ host.st = "running"
    BY <1>6 DEF Connect, MetalLBReady, Install, ConfigureSubnet, Goto, Change, Call, Admitted
  <2>2. \A n \in Names : n # KindName[cur] => kind'[n] = kind[n]
    BY <1>6 DEF Connect, MetalLBReady, Install, ConfigureSubnet, Change, Call, TypeOK, name
  <2> QED
    BY <2>1, <2>2, LocalInvariant DEF Saving, Providing, Removing
<1> QED
  BY <1>1, <1>2, <1>3, <1>4, <1>5, <1>6 DEF Step

(* So do the failures, and a restart, which refills the cache.             *)
LEMMA FailureInvariant ==
  ASSUME TypeOK, ClaimInvariant, Failure PROVE ClaimInvariant'
<1>1. CASE AnswerLost
  BY <1>1, SaveInvariant
<1>2. CASE CreateFails \/ InstallFails \/ ConfigureFails \/ DeleteFails \/ CallFails
  <2>1. pc # "idle" /\ pc' = "idle" /\ UNCHANGED world
    BY <1>2 DEF CreateFails, InstallFails, ConfigureFails, DeleteFails, CallFails,
                Change, Call, Requeue, Idle
  <2>2. \A n \in Names : kind'[n].st # "absent" =>
           kind[n].st # "absent" \/ (n = KindName[cur] /\ pc \in Providing)
    BY <1>2 DEF CreateFails, InstallFails, ConfigureFails, DeleteFails, CallFails,
                Change, Call, TypeOK, name, host, Providing
  <2> QED
    BY <2>1, <2>2, LocalInvariant
<1>3. CASE Crash
  <2>1. /\ pc' = "idle" /\ UNCHANGED api /\ cache' = api /\ watch' = <<>>
    BY <1>3 DEF Crash, Idle
  <2>2. CopiesFaithful' /\ CopiesInOrder'
    <3>1. \A c \in Clusters : api[c].rv \in Nat
      BY DEF TypeOK, Object
    <3> QED
      BY <2>1, <3>1 DEF CopiesFaithful, CopiesInOrder, Faithful, Claimed, Exists
  <2>3. NoOrphanKind'
    <3>1. pc = "creating" => cur \in Clusters /\ Claimed(cur)
      BY WorkerTyped DEF ClaimInvariant, WorkJustified, Providing
    <3>2. \A n \in Names : kind'[n].st # "absent" =>
             kind[n].st # "absent" \/ (n = KindName[cur] /\ pc = "creating")
      BY <1>3 DEF Crash, TypeOK, name
    <3> QED
      BY <2>1, <3>1, <3>2, KindOrphans DEF ClaimInvariant
  <2> QED
    BY <2>1, <2>2, <2>3, IdleInvariant DEF ClaimInvariant
<1> QED
  BY <1>1, <1>2, <1>3 DEF Failure

(* So do kind clusters that vanish and pods that come and go.              *)
LEMMA HostInvariant ==
  ASSUME TypeOK, ClaimInvariant, NEW n \in Names,
         \/ ClusterVanishes(n)
         \/ \E p \in Components : PodProgresses(n, p) \/ PodFails(n, p)
  PROVE  ClaimInvariant'
<1> USE DEF ClaimInvariant
<1>1. UNCHANGED world /\ UNCHANGED worker
  BY DEF ClusterVanishes, PodProgresses, PodFails, Host
<1>2. \A m \in Names : kind'[m].st = kind[m].st \/ kind'[m].st = "absent"
  <2>1. CASE ClusterVanishes(n)
    BY <2>1 DEF ClusterVanishes, Bare, TypeOK
  <2>2. ASSUME NEW p \in Components, PodProgresses(n, p) \/ PodFails(n, p)
        PROVE  \A m \in Names : kind'[m].st = kind[m].st
    <3>1. PICK t \in PodStates : kind' = [kind EXCEPT ![n].comps[p] = t]
      BY <2>2 DEF PodProgresses, PodFails, Pod, PodStates
    <3> QED
      BY <3>1 DEF TypeOK, KindCluster
  <2> QED
    BY <2>1, <2>2
<1>3. NoOrphanKind'
  BY <1>1, <1>2, KindOrphans DEF world
<1>4. WorkJustified'
  BY <1>1, <1>2, WorkerTyped DEF WorkJustified, Claimed, Removing, world, worker
<1> QED
  BY <1>1, <1>3, <1>4, SameWorld DEF ViewCurrent, world, worker

(* What an old copy guarantees is never lost: the controller's decisions   *)
(* from its informer cache are justified, for any lag.                     *)
THEOREM CopiesGuarantee == Spec => []ClaimInvariant
<1>1. Init => ClaimInvariant
  <2> SUFFICES ASSUME Init PROVE ClaimInvariant
    OBVIOUS
  <2>1. CopiesFaithful /\ CopiesInOrder
    BY DEF Init, CopiesFaithful, CopiesInOrder, Faithful, NoObject, Past
  <2>2. ViewCurrent /\ WorkJustified /\ NoOrphanKind
    BY DEF Init, ViewCurrent, WorkJustified, NoOrphanKind, Bare, Providing, Removing
  <2> QED
    BY <2>1, <2>2 DEF ClaimInvariant
<1>2. TypeOK /\ ClaimInvariant /\ [Next]_vars => ClaimInvariant'
  <2> SUFFICES ASSUME TypeOK, ClaimInvariant, [Next]_vars PROVE ClaimInvariant'
    OBVIOUS
  <2>1. CASE \E c \in Clusters : CreateResource(c) \/ DeleteResource(c)
                                \/ HoldForeign(c) \/ ReleaseForeign(c)
    BY <2>1, UserInvariant
  <2>2. CASE \E c \in Clusters : Take(c)
    BY <2>2, TakeInvariant
  <2>3. CASE Deliver
    BY <2>3, DeliverInvariant
  <2>4. CASE Step \/ Failure
    BY <2>4, StepInvariant, FailureInvariant
  <2>5. CASE \E n \in Names : \/ ClusterVanishes(n)
                             \/ \E p \in Components : PodProgresses(n, p) \/ PodFails(n, p)
    BY <2>5, HostInvariant
  <2>6. CASE UNCHANGED vars \/ \E c \in Clusters : TimerFires(c) \/ Resync(c)
    <3>1. UNCHANGED <<world, worker, kind>>
      BY <2>6 DEF vars, TimerFires, Resync
    <3> QED
      BY <3>1, SameWorld DEF ClaimInvariant, ViewCurrent, WorkJustified, NoOrphanKind,
         Claimed, world, worker
  <2> QED
    BY <2>1, <2>2, <2>3, <2>4, <2>5, <2>6 DEF Next
<1> QED
  BY <1>1, <1>2, TypeCorrect, PTL DEF Spec

(* A kind cluster on the Docker host always has a resource that holds the  *)
(* controller's finalizer: no reconcile leaves one nobody will remove.     *)
THEOREM NoOrphans == Spec => []NoOrphanKind
<1>1. ClaimInvariant => NoOrphanKind
  BY DEF ClaimInvariant
<1> QED
  BY <1>1, CopiesGuarantee, PTL

=============================================================================
