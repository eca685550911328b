------------------------ MODULE ClusterReadinessProofs ------------------------
(***************************************************************************)
(* Ready means ready, MetalLB serves the annotated subnet, and no resource *)
(* that needs the controller is forgotten.                                 *)
(***************************************************************************)
EXTENDS ClusterReadiness, ClusterRefinementProofs, ClusterNetworkProofs

-----------------------------------------------------------------------------
(* What the steps do to one kind cluster.                                  *)

(* It stays as it is, but for pods and workloads that are added.           *)
HostLasts(n) ==
  /\ kind'[n].st = kind[n].st /\ kind'[n].pool = kind[n].pool
  /\ kind[n].adv => kind'[n].adv
  /\ \A p \in Components : kind[n].comps[p] # "none" => kind'[n].comps[p] # "none"

(* MetalLB is configured on it, perhaps by one of the two calls only.      *)
HostConfigured(n) ==
  /\ pc = "configure" /\ n = KindName[cur] /\ UNCHANGED api
  /\ kind[n].st = "running"
  /\ kind'[n].st = kind[n].st /\ kind'[n].comps = kind[n].comps
  /\ kind'[n].pool \in {kind[n].pool, view.subnet}
  /\ kind[n].adv => kind'[n].adv

(* It starts, goes, or vanishes.                                           *)
HostBare(n) ==
  /\ kind'[n].pool = NoSubnet
  /\ \/ kind[n].st # "running"
     \/ pc = "delExists" /\ n = KindName[cur] /\ UNCHANGED api
     \/ n \in lost'

(* A call of the worker changes the kind cluster of its resource.          *)
LEMMA ChangedHost ==
  ASSUME TypeOK, pc # "idle", NEW k \in KindCluster, Change(k)
  PROVE  /\ cur \in Clusters /\ KindName[cur] \in Names /\ UNCHANGED api
         /\ host = kind[KindName[cur]] /\ kind'[KindName[cur]] = k
         /\ \A m \in Names : m # KindName[cur] => kind'[m] = kind[m]
BY WorkerTyped DEF Change, name, host, TypeOK, world

(* A kind cluster that does not change lasts.                              *)
LEMMA SameHost ==
  ASSUME NEW n \in Names, kind'[n] = kind[n] PROVE HostLasts(n)
BY DEF HostLasts

(* Workloads are added, never taken away.                                  *)
LEMMA AppliedLasts ==
  ASSUME TypeOK, pc # "idle", NEW objs
  PROVE  /\ Applied(objs) \in KindCluster /\ Applied(objs).st = host.st
         /\ Applied(objs).pool = host.pool /\ Applied(objs).adv = host.adv
         /\ \A p \in Components : host.comps[p] # "none" => Applied(objs).comps[p] # "none"
         /\ \A p \in Components \cap objs : Applied(objs).comps[p] # "none"
<1>1. host \in KindCluster
  BY WorkerTyped DEF host, name, TypeOK
<1> QED
  BY <1>1, AppliedType DEF Applied, KindCluster

(* Pods come and fail, workloads stay.                                     *)
LEMMA PodsLast ==
  ASSUME TypeOK, NEW n \in Names, NEW m \in Names, NEW p \in Components,
         PodProgresses(m, p) \/ PodFails(m, p)
  PROVE  HostLasts(n)
<1>0. kind[n] \in KindCluster
  BY DEF TypeOK
<1>1. PICK from \in PodStates \ {"none"}, to \in PodStates \ {"none"} : Pod(m, p, from, to)
  BY DEF PodProgresses, PodFails, PodStates
<1>2. kind' = [kind EXCEPT ![m] = [kind[m] EXCEPT !.comps = [kind[m].comps EXCEPT ![p] = to]]]
  BY <1>1 DEF Pod
<1>3. kind'[n] = IF n = m THEN [kind[n] EXCEPT !.comps = [kind[n].comps EXCEPT ![p] = to]]
                 ELSE kind[n]
  BY <1>2 DEF TypeOK
<1>4. ASSUME NEW q \in Components, kind[n].comps[q] # "none"
      PROVE  [kind[n].comps EXCEPT ![p] = to][q] # "none"
  BY <1>0, <1>1, <1>4 DEF KindCluster, PodStates
<1>5. /\ kind'[n].st = kind[n].st /\ kind'[n].pool = kind[n].pool
      /\ kind'[n].adv = kind[n].adv
      /\ kind'[n].comps \in {kind[n].comps, [kind[n].comps EXCEPT ![p] = to]}
  BY <1>0, <1>3 DEF KindCluster
<1> QED
  BY <1>4, <1>5 DEF HostLasts

(* Every step leaves a kind cluster as far as it is, configures it, or     *)
(* leaves nothing on it.                                                   *)
LEMMA EveryHost ==
  ASSUME TypeOK, ClaimInvariant, HistoryInvariant, [Next]_vars, NEW n \in Names
  PROVE  HostLasts(n) \/ HostConfigured(n) \/ HostBare(n)
<1>1. CASE UNCHANGED kind
  BY <1>1, SameHost
<1>2. ASSUME pc # "idle", NEW s \in {"absent", "partial", "running"}, Change(Bare(s)),
             \/ kind[KindName[cur]].st # "running"
             \/ pc = "delExists"
      PROVE  HostLasts(n) \/ HostBare(n)
  <2>1. Bare(s) \in KindCluster /\ Bare(s).pool = NoSubnet
    BY BareType DEF Bare
  <2> QED
    BY <1>2, <2>1, ChangedHost, SameHost DEF HostBare
<1>3. CASE BeginCreate \/ EndCreate \/ CreateFails \/ DeleteCluster \/ DeleteFails
  <2>1. /\ pc # "idle" /\ \E s \in {"absent", "partial", "running"} : Change(Bare(s))
        /\ kind[KindName[cur]].st # "running" \/ pc = "delExists"
    BY <1>3 DEF BeginCreate, EndCreate, CreateFails, DeleteCluster, DeleteFails,
       HistoryInvariant, PassInOrder, host, name
  <2> QED
    BY <1>2, <2>1
<1>4. CASE Install \/ InstallFails
  <2>1. pc # "idle" /\ \E objs : Change(Applied(objs))
    BY <1>4 DEF Install, InstallFails
  <2> QED
    BY <2>1, AppliedLasts, ChangedHost, SameHost DEF HostLasts
<1>5. CASE ConfigureSubnet \/ ConfigureFails
  <2>1. /\ pc = "configure" /\ cur \in Clusters /\ host \in KindCluster
        /\ host.st = "running"
    BY <1>5, WorkerTyped DEF ConfigureSubnet, ConfigureFails, Admitted, TypeOK, host, name
  <2>2. PICK k \in KindCluster :
          /\ Change(k) /\ k.st = host.st /\ k.comps = host.comps
          /\ k.pool \in {host.pool, view.subnet} /\ (host.adv => k.adv)
    <3>1. /\ [host EXCEPT !.pool = view.subnet, !.adv = TRUE].comps = host.comps
          /\ [host EXCEPT !.pool = view.subnet].comps = host.comps
          /\ [host EXCEPT !.adv = TRUE].comps = host.comps
          /\ [host EXCEPT !.pool = view.subnet, !.adv = TRUE].st = host.st
          /\ [host EXCEPT !.pool = view.subnet].st = host.st
          /\ [host EXCEPT !.adv = TRUE].st = host.st
          /\ [host EXCEPT !.pool = view.subnet, !.adv = TRUE].adv
          /\ [host EXCEPT !.pool = view.subnet].adv = host.adv
          /\ [host EXCEPT !.adv = TRUE].adv
      BY <2>1 DEF KindCluster
    <3> QED
      BY <1>5, <2>1, <3>1, PoolType, ConfiguredPool DEF ConfigureSubnet, ConfigureFails
  <2> QED
    BY <2>1, <2>2, ChangedHost, SameHost DEF HostConfigured
<1>6. CASE Crash
  <2>1. CASE UNCHANGED kind
    BY <2>1, SameHost
  <2>2. CASE pc = "creating" /\ kind' = [kind EXCEPT ![name] = Bare("running")]
    <3>1. kind[KindName[cur]].st # "running"
      BY <2>2 DEF HistoryInvariant, PassInOrder
    <3>2. kind'[n] = IF n = KindName[cur] THEN Bare("running") ELSE kind[n]
      BY <2>2 DEF TypeOK, name
    <3> QED
      BY <3>1, <3>2, SameHost DEF HostBare, Bare
  <2> QED
    BY <1>6, <2>1, <2>2 DEF Crash
<1>7. ASSUME NEW m \in Names, ClusterVanishes(m) PROVE HostLasts(n) \/ HostBare(n)
  <2>1. kind'[n] = (IF n = m THEN Bare("absent") ELSE kind[n]) /\ m \in lost'
    BY <1>7 DEF ClusterVanishes, TypeOK
  <2> QED
    BY <2>1, SameHost DEF HostBare, Bare
<1>8. ASSUME NEW m \in Names, NEW p \in Components, PodProgresses(m, p) \/ PodFails(m, p)
      PROVE  HostLasts(n)
  BY <1>8, PodsLast
<1>9. CASE \/ \E c \in Clusters : UserActs(c) \/ TimerFires(c) \/ Resync(c) \/ Take(c)
           \/ Deliver \/ UNCHANGED vars
  BY <1>1, <1>9 DEF UserActs, CreateResource, DeleteResource, HoldForeign, ReleaseForeign,
     User, TimerFires, Resync, Take, ReconcileMissing, ReconcileUnsupported, ReconcileLive,
     ReconcileDeleting, Reconcile, Deliver, vars
<1>10. CASE \/ AddFinalizer \/ PickSubnet \/ NoSubnetsAvailable \/ AssignSubnet
            \/ SubnetUnreadable \/ RemoveFinalizer \/ SaveUnchanged \/ SaveStatus
            \/ Rejected \/ Connect \/ Unreachable \/ NotReady \/ MetalLBReady
            \/ NotAdmitted \/ NothingLeft \/ AnswerLost \/ CallFails
  BY <1>1, <1>10 DEF AddFinalizer, PickSubnet, NoSubnetsAvailable, AssignSubnet,
     SubnetUnreadable, RemoveFinalizer, SaveUnchanged, SaveStatus, Rejected, Connect,
     Unreachable, NotReady, MetalLBReady, NotAdmitted, NothingLeft, AnswerLost, CallFails,
     Accepted, Call
<1> QED
  BY <1>3, <1>4, <1>5, <1>6, <1>7, <1>8, <1>9, <1>10 DEF Next, Step, Failure, UserActs

(* What has vanished is remembered.                                        *)
LEMMA LostStays ==
  ASSUME TypeOK, [Next]_vars PROVE lost \subseteq lost'
<1>1. CASE UNCHANGED lost
  BY <1>1
<1>2. CASE Step
  BY <1>1, <1>2 DEF Step, AddFinalizer, PickSubnet, NoSubnetsAvailable, AssignSubnet,
     SubnetUnreadable, RemoveFinalizer, SaveUnchanged, SaveStatus, Rejected, Connect,
     Unreachable, NotReady, MetalLBReady, NotAdmitted, NothingLeft, Accepted, Call,
     BeginCreate, EndCreate, Install, ConfigureSubnet, DeleteCluster, Change
<1>3. CASE Failure
  BY <1>1, <1>3 DEF Failure, AnswerLost, CallFails, CreateFails, InstallFails,
     ConfigureFails, DeleteFails, Crash, Accepted, Call, Change
<1>4. CASE \/ \E c \in Clusters : UserActs(c) \/ TimerFires(c) \/ Resync(c) \/ Take(c)
           \/ Deliver \/ UNCHANGED vars
  BY <1>1, <1>4 DEF UserActs, CreateResource, DeleteResource, HoldForeign, ReleaseForeign,
     User, TimerFires, Resync, Take, ReconcileMissing, ReconcileUnsupported, ReconcileLive,
     ReconcileDeleting, Reconcile, Deliver, vars
<1>5. CASE \E m \in Names : \/ ClusterVanishes(m)
                            \/ \E p \in Components : PodProgresses(m, p) \/ PodFails(m, p)
  BY <1>5 DEF ClusterVanishes, PodProgresses, PodFails, Host
<1> QED
  BY <1>2, <1>3, <1>4, <1>5 DEF Next, UserActs

-----------------------------------------------------------------------------
(* What is told of a resource lasts.                                       *)

(* Nobody claims a resource that is being deleted.                         *)
LEMMA GivenUpStays ==
  ASSUME TypeOK, ClaimInvariant, HistoryInvariant, [Next]_vars,
         NEW c \in Clusters, Past(api[c])
  PROVE  Past(api'[c]) /\ (~api[c].fin => ~api'[c].fin)
<1>1. ASSUME NEW d \in Clusters, NEW o \in Object, Post(d, o),
             Past(api[d]) => Past(o) /\ (~api[d].fin => ~o.fin)
      PROVE  Past(api'[c]) /\ (~api[c].fin => ~api'[c].fin)
  <2>1. CASE c = d
    BY <1>1, <2>1, StoredKeeps DEF Post, TypeOK, Past
  <2>2. CASE c # d
    BY <1>1, <2>2 DEF Post, TypeOK
  <2> QED
    BY <2>1, <2>2
<1>2. ASSUME NEW d \in Clusters, UserActs(d)
      PROVE  Past(api'[c]) /\ (~api[c].fin => ~api'[c].fin)
  <2>1. PICK o \in Object :
          User(d, o) /\ o.fin = api[d].fin /\ (Past(api[d]) => Past(o))
    BY <1>2, UserWrites
  <2> QED
    BY <1>1, <2>1 DEF User
<1>3. CASE pc \in Writing /\ Accepted
  <2>1. Past(api[cur]) => Past(Sent) /\ (~api[cur].fin => ~Sent.fin)
    BY <1>3, WorkerWrites DEF Past
  <2> QED
    BY <1>1, <1>3, <2>1, WorkerWrites
<1>4. CASE UNCHANGED api
  BY <1>4
<1> QED
  BY <1>2, <1>3, <1>4, EveryStep DEF HostChanges

(* Readiness is lost only with the kind cluster or the resource.           *)
LEMMA BackedStays ==
  ASSUME TypeOK, ClaimInvariant, HistoryInvariant, ReadinessInvariant, [Next]_vars,
         NEW c \in Clusters, Backed(c)
  PROVE  Backed(c)'
<1> DEFINE n == KindName[c]
<1>1. n \in Names
  BY NamesAssumption
<1>2. CASE ~Exclusive(c) \/ n \in lost \/ Past(api[c])
  BY <1>2, LostStays, GivenUpStays DEF Backed, Exclusive
<1>3. CASE Exclusive(c) /\ Complete(c)
  <2>1. /\ kind[n].st = "running" /\ kind[n].adv
        /\ kind[n].pool = api[c].subnet /\ kind[n].pool # NoSubnet
        /\ \A p \in Components : kind[n].comps[p] # "none"
    BY <1>3 DEF Complete
  <2>2. api'[c].subnet = api[c].subnet
    BY <2>1, SubnetStays
  <2>3. pc # "idle" /\ n = KindName[cur] => cur = c
    BY <1>3, WorkerTyped DEF Exclusive
  <2>4. CASE HostLasts(n)
    BY <2>1, <2>2, <2>4 DEF HostLasts, Backed, Complete
  <2>5. CASE HostConfigured(n)
    <3>1. view.subnet = api[c].subnet
      BY <2>3, <2>5 DEF HostConfigured, ReadinessInvariant, PassReady
    <3> QED
      BY <2>1, <2>2, <2>5, <3>1 DEF HostConfigured, Backed, Complete
  <2>6. CASE HostBare(n)
    <3>1. CASE pc = "delExists" /\ n = KindName[cur] /\ UNCHANGED api
      <4>1. Past(api[c])
        BY <2>3, <3>1 DEF HistoryInvariant, PassInOrder, Removing, LetGo
      <4> QED
        BY <3>1, <4>1 DEF Backed
    <3>2. CASE n \in lost'
      BY <3>2 DEF Backed
    <3> QED
      BY <2>1, <2>6, <3>1, <3>2 DEF HostBare
  <2> QED
    BY <1>1, <2>4, <2>5, <2>6, EveryHost
<1> QED
  BY <1>2, <1>3 DEF Backed

(* A copy that was sound stays so.                                         *)
LEMMA SoundStays ==
  ASSUME TypeOK, ClaimInvariant, HistoryInvariant, ReadinessInvariant, [Next]_vars,
         NEW c \in Clusters
  PROVE  /\ api[c].subnet # NoSubnet => api'[c].subnet = api[c].subnet
         /\ Past(api[c]) /\ ~api[c].fin => Past(api'[c]) /\ ~api'[c].fin
         /\ Backed(c) => Backed(c)'
BY SubnetStays, GivenUpStays, BackedStays

(* Events are about resources, and carry objects.                          *)
LEMMA EventTyped ==
  ASSUME TypeOK, NEW i \in 1..Len(watch)
  PROVE  watch[i] \in Events /\ watch[i].c \in Clusters /\ watch[i].obj \in Object
<1>1. watch[i] \in Events
  BY DEF TypeOK
<1> QED
  BY <1>1 DEF Events

(* Copies are sound after a step that leaves the API server alone.         *)
LEMMA SameCopies ==
  ASSUME TypeOK, ClaimInvariant, HistoryInvariant, ReadinessInvariant, [Next]_vars,
         UNCHANGED world
  PROVE  CopiesSound' /\ LastArrives'
<1>1. \A c \in Clusters : Backed(c) => Backed(c)'
  BY SoundStays
<1>2. \A i \in 1..Len(watch) : watch[i].c \in Clusters
  BY EventTyped
<1>3. CopiesSound'
  BY <1>1, <1>2 DEF ReadinessInvariant, CopiesSound, Sound, world
<1>4. LastArrives'
  BY DEF ReadinessInvariant, LastArrives, Coming, world
<1> QED
  BY <1>3, <1>4

(* A write publishes what is stored, after all that was published before.  *)
LEMMA PostSound ==
  ASSUME TypeOK, ClaimInvariant, HistoryInvariant, ReadinessInvariant, [Next]_vars,
         NEW c \in Clusters, NEW o \in Object, Post(c, o),
         o.status.phase = "Ready" => Backed(c)
  PROVE  CopiesSound' /\ LastArrives' /\ Coming(c)'
         /\ \A d \in Clusters : Coming(d) => Coming(d)'
<1>0. PICK s \in Object : s = Stored(c, o)
  BY StoredType
<1> DEFINE e == [c |-> c, obj |-> s]
           n == Len(watch)
<1>1. n \in Nat /\ \A i \in 1..n : watch[i] \in Events /\ watch[i].c \in Clusters
  BY EventTyped DEF TypeOK
<1>2. /\ Len(watch') = n + 1 /\ watch'[n + 1] = e
      /\ \A i \in 1..n : watch'[i] = watch[i]
  <2>1. watch \in Seq(Events) /\ e \in Events /\ watch' = Append(watch, e)
    BY <1>0 DEF Post, TypeOK, Events
  <2> HIDE DEF e
  <2> QED
    BY <2>1
<1>3. /\ api'[c] = s /\ cache' = cache
      /\ \A d \in Clusters : d # c => api'[d] = api[d]
  BY <1>0 DEF Post, TypeOK
<1>4. Sound(c, s)'
  <2>1. s.status = o.status
    BY <1>0, StoredKeeps
  <2> QED
    BY <1>3, <2>1, SoundStays DEF Sound
<1>5. ASSUME NEW d \in Clusters, NEW v, Sound(d, v) PROVE Sound(d, v)'
  BY <1>5, SoundStays DEF Sound
<1>6. CopiesSound'
  <2>1. \A d \in Clusters : Sound(d, cache[d])'
    BY <1>3, <1>5 DEF ReadinessInvariant, CopiesSound, Sound
  <2>2. \A d \in Clusters : Sound(d, api[d])'
    <3> TAKE d \in Clusters
    <3>1. CASE d = c
      BY <1>3, <1>4, <3>1 DEF Sound
    <3>2. CASE d # c
      BY <1>3, <1>5, <3>2 DEF ReadinessInvariant, CopiesSound, Sound
    <3> QED
      BY <3>1, <3>2
  <2>3. \A i \in 1..n : Sound(watch[i].c, watch[i].obj)'
    <3> TAKE i \in 1..n
    <3>1. Sound(watch[i].c, watch[i].obj) /\ watch[i].c \in Clusters
      BY <1>1 DEF ReadinessInvariant, CopiesSound
    <3> QED
      BY <1>2, <1>5, <3>1 DEF Sound
  <2> QED
    BY <1>1, <1>2, <1>4, <2>1, <2>2, <2>3 DEF CopiesSound
<1>7. Coming(c)' /\ \A d \in Clusters : Coming(d) => Coming(d)'
  BY <1>1, <1>2 DEF Coming
<1>8. LastArrives'
  <2> SUFFICES ASSUME NEW d \in Clusters
               PROVE  \/ ~Coming(d)' /\ cache'[d] = api'[d]
                      \/ \E i \in 1..(n + 1) :
                           /\ watch'[i].c = d /\ watch'[i].obj = api'[d]
                           /\ \A j \in (i + 1)..(n + 1) : watch'[j].c # d
    BY <1>2 DEF LastArrives, Coming
  <2>1. CASE d = c
    BY <1>1, <1>2, <1>3, <2>1
  <2>2. CASE d # c
    <3>1. Coming(d)' => Coming(d)
      BY <1>1, <1>2, <2>2 DEF Coming
    <3>2. CASE ~Coming(d) /\ cache[d] = api[d]
      BY <1>3, <2>2, <3>1, <3>2
    <3>3. ASSUME NEW i \in 1..n, watch[i].c = d, watch[i].obj = api[d],
                 \A j \in (i + 1)..n : watch[j].c # d
          PROVE  /\ i \in 1..(n + 1) /\ watch'[i].c = d /\ watch'[i].obj = api'[d]
                 /\ \A j \in (i + 1)..(n + 1) : watch'[j].c # d
      BY <1>1, <1>2, <1>3, <2>2, <3>3
    <3> QED
      BY <3>2, <3>3 DEF ReadinessInvariant, LastArrives
  <2> QED
    BY <2>1, <2>2
<1> QED
  BY <1>6, <1>7, <1>8

-----------------------------------------------------------------------------
(* The invariant.                                                          *)

(* MetalLB is configured for the stored subnet, and that one stays.        *)
LEMMA PoolStays ==
  ASSUME TypeOK, ClaimInvariant, HistoryInvariant, ReadinessInvariant, [Next]_vars
  PROVE  PoolMatchesSubnet'
<1> SUFFICES ASSUME NEW c \in Clusters, Exclusive(c), kind'[KindName[c]].pool # NoSubnet
             PROVE  kind'[KindName[c]].pool = api'[c].subnet
  BY DEF PoolMatchesSubnet, Exclusive
<1> DEFINE n == KindName[c]
<1>1. n \in Names
  BY NamesAssumption
<1>2. kind[n].pool # NoSubnet => kind[n].pool = api[c].subnet
  BY DEF ReadinessInvariant, PoolMatchesSubnet
<1>3. CASE HostLasts(n)
  BY <1>2, <1>3, SubnetStays DEF HostLasts
<1>4. CASE HostConfigured(n)
  <2>1. cur = c
    BY <1>4, WorkerTyped DEF HostConfigured, Exclusive
  <2>2. view.subnet = api[c].subnet
    BY <1>4, <2>1 DEF HostConfigured, ReadinessInvariant, PassReady
  <2> QED
    BY <1>2, <1>4, <2>2 DEF HostConfigured
<1> QED
  BY <1>1, <1>3, <1>4, EveryHost DEF HostBare

(* Between passes nothing is asked of the worker.                          *)
LEMMA IdleReady ==
  ASSUME pc' = "idle" PROVE PassReady'
BY DEF PassReady

(* Users, and the holders of foreign finalizers.                           *)
LEMMA UserReady ==
  ASSUME TypeOK, ClaimInvariant, HistoryInvariant, ReadinessInvariant, [Next]_vars,
         NEW c \in Clusters, UserActs(c)
  PROVE  ReadinessInvariant'
<1>1. PICK o \in Object : User(c, o) /\ o.status = api[c].status
  BY UserWrites
<1>2. Post(c, o) /\ UNCHANGED <<queue, delayed, worker, kind>>
  BY <1>1 DEF User
<1>3. /\ CopiesSound' /\ LastArrives' /\ Coming(c)'
      /\ \A d \in Clusters : Coming(d) => Coming(d)'
  <2>1. o.status.phase = "Ready" => Backed(c)
    BY <1>1 DEF ReadinessInvariant, CopiesSound, Sound
  <2> QED
    BY <1>2, <2>1, PostSound
<1>4. \A d \in Clusters : d # c => api'[d] = api[d]
  BY <1>2 DEF Post, TypeOK
<1>5. PassReady'
  <2>1. CASE pc = "idle"
    BY <1>2, <2>1, IdleReady DEF worker
  <2>2. CASE pc # "idle"
    <3>1. UNCHANGED <<pc, cur, view, stat, queue, kind>>
      BY <1>2 DEF worker
    <3>2. PICK d \in Clusters : d = cur
      BY <2>2, WorkerTyped
    <3>3. /\ Backed(d) => Backed(d)'
          /\ api[d].subnet # NoSubnet => api'[d].subnet = api[d].subnet
      BY SoundStays
    <3>4. pc = "saveStop" /\ Needed(api'[d]) => d \in queue \/ Coming(d)'
      <4>1. CASE d = c
        BY <1>3, <4>1
      <4>2. CASE d # c
        BY <1>3, <1>4, <3>2, <4>2 DEF ReadinessInvariant, PassReady
      <4> QED
        BY <4>1, <4>2
    <3>5. "Ready" \in {view.status.phase, stat.phase} => Backed(d)'
      BY <2>2, <3>2, <3>3 DEF ReadinessInvariant, PassReady
    <3>6. pc \in {"exists", "creating", "install", "isReady", "configure"} =>
            view.subnet # NoSubnet /\ view.subnet = api'[d].subnet
      BY <3>2, <3>3 DEF ReadinessInvariant, PassReady
    <3>7. pc \in {"isReady", "configure"} /\ kind[KindName[d]].st = "running" =>
            \A p \in Components : kind[KindName[d]].comps[p] # "none"
      BY <3>2 DEF ReadinessInvariant, PassReady
    <3>8. cur' = d
      BY <3>1, <3>2
    <3> QED
      BY <3>1, <3>4, <3>5, <3>6, <3>7, <3>8 DEF PassReady
  <2> QED
    BY <2>1, <2>2
<1>6. NeverForgotten'
  <2>1. UNCHANGED <<queue, delayed, cur>>
    BY <1>2 DEF worker
  <2> SUFFICES ASSUME NEW d \in Responsible, Needed(api'[d])
               PROVE  d \in queue' \cup delayed' \cup {cur'} \/ Coming(d)'
    BY DEF NeverForgotten, Needed, Coming
  <2>2. d \in Clusters
    BY ClustersAssumption
  <2>3. d # c => d \in queue \cup delayed \cup {cur} \/ Coming(d)
    BY <1>4, <2>2 DEF ReadinessInvariant, NeverForgotten, Needed, Coming
  <2> QED
    BY <1>3, <2>1, <2>2, <2>3
<1> QED
  BY <1>3, <1>5, <1>6, PoolStays DEF ReadinessInvariant

(* The informer delivers: the key is queued, and the cache has what is     *)
(* stored when nothing more is on its way.                                 *)
LEMMA DeliverReady ==
  ASSUME TypeOK, ClaimInvariant, HistoryInvariant, ReadinessInvariant, [Next]_vars, Deliver
  PROVE  ReadinessInvariant'
<1> DEFINE n == Len(watch)
<1>1. /\ n \in Nat /\ n > 0 /\ Len(watch') = n - 1
      /\ \A i \in 1..(n - 1) : watch'[i] = watch[i + 1]
      /\ Head(watch) = watch[1]
  BY DEF Deliver, TypeOK
<1>2. PICK e \in Events : e = watch[1]
  BY <1>1, EventTyped
<1>3. /\ e.c \in Clusters /\ e.obj \in Object
      /\ cache' = [cache EXCEPT ![e.c] = e.obj] /\ queue' = queue \cup {e.c}
      /\ UNCHANGED <<api, delayed, worker, kind, lost>>
  BY <1>1, <1>2 DEF Deliver, Events
<1>4. \A d \in Clusters : cache'[d] = IF d = e.c THEN e.obj ELSE cache[d]
  BY <1>3 DEF TypeOK
<1>5. ASSUME NEW d, Coming(d), d # e.c PROVE Coming(d)'
  <2>1. PICK i \in 1..n : watch[i].c = d
    BY <1>5 DEF Coming
  <2>2. i # 1
    BY <1>2, <1>5, <2>1
  <2>3. i - 1 \in 1..(n - 1) /\ watch'[i - 1] = watch[i]
    BY <1>1, <2>2
  <2> QED
    BY <1>1, <2>1, <2>3 DEF Coming
<1>6. CopiesSound'
  <2>1. \A d \in Clusters : Backed(d)' = Backed(d)
    BY <1>3 DEF Backed, Complete, Exclusive
  <2>2. \A i \in 1..n : Sound(watch[i].c, watch[i].obj) /\ watch[i].c \in Clusters
    BY EventTyped DEF ReadinessInvariant, CopiesSound
  <2>3. \A d \in Clusters : Sound(d, api[d])' /\ Sound(d, cache[d])'
    BY <1>1, <1>2, <1>3, <1>4, <2>1, <2>2 DEF ReadinessInvariant, CopiesSound, Sound
  <2>4. \A i \in 1..(n - 1) : Sound(watch[i].c, watch[i].obj)'
    <3> TAKE i \in 1..(n - 1)
    <3>1. watch'[i] = watch[i + 1] /\ i + 1 \in 1..n
      BY <1>1
    <3> QED
      BY <1>3, <2>1, <2>2, <3>1 DEF Sound
  <2> QED
    BY <1>1, <2>3, <2>4 DEF CopiesSound
<1>7. LastArrives'
  <2> SUFFICES ASSUME NEW d \in Clusters
               PROVE  \/ ~Coming(d)' /\ cache'[d] = api'[d]
                      \/ \E i \in 1..(n - 1) :
                           /\ watch'[i].c = d /\ watch'[i].obj = api'[d]
                           /\ \A j \in (i + 1)..(n - 1) : watch'[j].c # d
    BY <1>1 DEF LastArrives, Coming
  <2>1. CASE ~Coming(d) /\ cache[d] = api[d]
    <3>1. d # e.c
      BY <1>1, <1>2, <2>1 DEF Coming
    <3>2. ~Coming(d)'
      BY <1>1, <2>1 DEF Coming
    <3> QED
      BY <1>3, <1>4, <2>1, <3>1, <3>2
  <2>2. ASSUME NEW i \in 1..n, watch[i].c = d, watch[i].obj = api[d],
               \A j \in (i + 1)..n : watch[j].c # d
        PROVE  \/ ~Coming(d)' /\ cache'[d] = api'[d]
               \/ \E k \in 1..(n - 1) :
                    /\ watch'[k].c = d /\ watch'[k].obj = api'[d]
                    /\ \A j \in (k + 1)..(n - 1) : watch'[j].c # d
    <3>1. CASE i = 1
      <4>1. ~Coming(d)'
        BY <1>1, <2>2, <3>1 DEF Coming
      <4> QED
        BY <1>2, <1>3, <1>4, <2>2, <3>1, <4>1
    <3>2. CASE i # 1
      <4>1. i - 1 \in 1..(n - 1) /\ watch'[i - 1] = watch[i]
        BY <1>1, <3>2
      <4>2. \A j \in ((i - 1) + 1)..(n - 1) : watch'[j].c # d
        BY <1>1, <2>2, <3>2
      <4> QED
        BY <1>3, <2>2, <4>1, <4>2
    <3> QED
      BY <3>1, <3>2
  <2> QED
    BY <2>1, <2>2 DEF ReadinessInvariant, LastArrives
<1>8. PassReady'
  <2>1. CASE pc = "idle"
    BY <1>3, <2>1, IdleReady DEF worker
  <2>2. CASE pc # "idle"
    <3>1. PICK d \in Clusters : d = cur
      BY <2>2, WorkerTyped
    <3>2. UNCHANGED <<pc, cur, view, stat, api, kind>>
      BY <1>3 DEF worker
    <3>3. Backed(d)' = Backed(d)
      BY <1>3 DEF Backed, Complete, Exclusive
    <3>4. d \in queue \/ Coming(d) => d \in queue' \/ Coming(d)'
      BY <1>3, <1>5
    <3> QED
      BY <2>2, <3>1, <3>2, <3>3, <3>4 DEF ReadinessInvariant, PassReady
  <2> QED
    BY <2>1, <2>2
<1>9. NeverForgotten'
  <2>1. UNCHANGED <<api, delayed, cur>>
    BY <1>3 DEF worker
  <2> QED
    BY <1>3, <1>5, <2>1 DEF ReadinessInvariant, NeverForgotten, Coming
<1> QED
  BY <1>6, <1>7, <1>8, <1>9, PoolStays DEF ReadinessInvariant

(* The worker's first decision: it reports no more than the cache says,    *)
(* provides with the subnet the cache shows, and drops what is gone or     *)
(* given up, or about to be delivered.                                     *)
LEMMA TakeReady ==
  ASSUME TypeOK, ClaimInvariant, HistoryInvariant, ReadinessInvariant, [Next]_vars,
         NEW c \in Clusters, Take(c)
  PROVE  ReadinessInvariant'
<1>1. /\ UNCHANGED <<world, kind, lost>> /\ queue' = queue \ {c} /\ pc = "idle"
      /\ cur = NoCluster /\ delayed \subseteq delayed'
  BY DEF Take, ReconcileMissing, ReconcileUnsupported, ReconcileLive, ReconcileDeleting,
     Reconcile, Dequeue, TypeOK
<1>2. CopiesSound' /\ LastArrives'
  BY <1>1, SameCopies
<1>3. /\ Sound(c, cache[c])
      /\ \A d \in Clusters : Coming(d)' = Coming(d) /\ Backed(d)' = Backed(d)
  BY <1>1 DEF ReadinessInvariant, CopiesSound, Coming, Backed, Complete, Exclusive, world
<1>4. ASSUME cur' = c \/ c \notin Responsible \/ ~Needed(api[c]) \/ Coming(c)
      PROVE  NeverForgotten'
  <2> SUFFICES ASSUME NEW d \in Responsible, Needed(api'[d])
               PROVE  d \in queue' \cup delayed' \cup {cur'} \/ Coming(d)'
    BY DEF NeverForgotten, Needed, Coming
  <2>1. d \in Clusters /\ d # NoCluster /\ UNCHANGED api
    BY <1>1, ClustersAssumption DEF world
  <2>2. d \in queue \cup delayed \/ Coming(d)
    BY <1>1, <2>1 DEF ReadinessInvariant, NeverForgotten, Needed, Coming
  <2> QED
    BY <1>1, <1>3, <1>4, <2>1, <2>2
<1>5. CASE ReconcileMissing(c) \/ ReconcileUnsupported(c)
  <2>1. pc' = "idle"
    BY <1>1, <1>5 DEF ReconcileMissing, ReconcileUnsupported, worker
  <2>2. c \notin Responsible \/ ~Needed(api[c]) \/ Coming(c)
    BY <1>5 DEF ReconcileMissing, ReconcileUnsupported, ReadinessInvariant, LastArrives,
       Coming, Needed, Exists
  <2> QED
    BY <1>2, <1>4, <2>1, <2>2, IdleReady, PoolStays DEF ReadinessInvariant
<1>6. CASE ReconcileLive(c) \/ ReconcileDeleting(c)
  <2>1. /\ cur' = c /\ view' = cache[c]
        /\ stat' \in {cache[c].status, WithPhase(cache[c].status, "Progressing"),
                      WithPhase(cache[c].status, "Terminating")}
        /\ pc' \in {"addFinalizer", "pickSubnet", "exists", "delExists"} \cup Saving
        /\ pc' = "exists" => cache[c].subnet # NoSubnet
        /\ pc' = "saveStop" => cache[c].st = "deleting" /\ ~cache[c].fin
    BY <1>6 DEF ReconcileLive, ReconcileDeleting, Reconcile, Saving
  <2>2. stat'.phase = "Ready" => cache[c].status.phase = "Ready"
    <3>1. cache[c].status \in Status
      BY DEF TypeOK, Object
    <3> QED
      BY <2>1, <3>1 DEF WithPhase, Status
  <2>3. pc' = "saveStop" => ~Needed(api[c])
    BY <1>3, <2>1 DEF Sound, Past, Needed
  <2>4. PassReady'
    BY <1>1, <1>3, <2>1, <2>2, <2>3 DEF PassReady, Sound, Saving, world
  <2> QED
    BY <1>2, <1>4, <2>1, <2>4, PoolStays DEF ReadinessInvariant
<1> QED
  BY <1>5, <1>6 DEF Take

(* A write of the worker that the API server accepts.                      *)
LEMMA AcceptedReady ==
  ASSUME TypeOK, ClaimInvariant, HistoryInvariant, ReadinessInvariant, [Next]_vars,
         pc \in Writing, Accepted
  PROVE  /\ cur \in Clusters /\ CopiesSound' /\ LastArrives'
         /\ \A d \in Clusters : Coming(d) \/ d = cur => Coming(d)'
         /\ \A d \in Clusters : d # cur => api'[d] = api[d]
<1>1. PICK c \in Clusters, o \in Object : c = cur /\ o = Sent
  BY WorkerWrites
<1>2. Post(c, o)
  BY <1>1, WorkerWrites
<1>3. o.status.phase = "Ready" => Backed(c)
  BY <1>1, WorkerWrites DEF ReadinessInvariant, PassReady, Writing, Saving
<1> QED
  BY <1>1, <1>2, <1>3, PostSound DEF Post, TypeOK

(* Whatever else the worker's resource has, the others are not forgotten.  *)
LEMMA OthersKept ==
  ASSUME TypeOK, ReadinessInvariant, NEW c \in Clusters, c = cur,
         UNCHANGED queue, delayed \subseteq delayed',
         \A d \in Clusters : d # c => api'[d] = api[d] /\ (Coming(d) => Coming(d)'),
         cur' = c \/ c \in delayed' \/ Coming(c)' \/ c \in queue \/ ~Needed(api'[c])
  PROVE  NeverForgotten'
<1> SUFFICES ASSUME NEW d \in Responsible, Needed(api'[d])
             PROVE  d \in queue' \cup delayed' \cup {cur'} \/ Coming(d)'
  BY DEF NeverForgotten, Needed, Coming
<1>1. d \in Clusters
  BY ClustersAssumption
<1>2. d # c => d \in queue \cup delayed \/ Coming(d)
  BY <1>1 DEF ReadinessInvariant, NeverForgotten, Needed, Coming
<1> QED
  BY <1>1, <1>2

(* A write that is followed by another step of the pass.                   *)
LEMMA WriteReady ==
  ASSUME TypeOK, ClaimInvariant, HistoryInvariant, SubnetInHand, ReadinessInvariant,
         [Next]_vars, AddFinalizer \/ AssignSubnet \/ RemoveFinalizer
  PROVE  ReadinessInvariant'
<1>1. /\ pc \in {"addFinalizer", "assignSubnet", "removeFinalizer"} /\ Accepted
      /\ pc' = IF pc = "assignSubnet" THEN "exists" ELSE "saveStop"
      /\ cur' = cur /\ view' = Stored(cur, Sent) /\ stat' \in Decoded \cup {stat}
      /\ UNCHANGED <<queue, delayed>>
  BY DEF AddFinalizer, AssignSubnet, RemoveFinalizer, Accepted
<1>2. pc \in Writing
  BY <1>1 DEF Writing
<1>3. PICK c \in Clusters, o \in Object : c = cur /\ o = Sent
  BY <1>1, <1>2, WorkerWrites
<1>4. /\ Post(c, o) /\ UNCHANGED kind /\ o.status = view.status
      /\ CopiesSound' /\ LastArrives' /\ Coming(c)'
      /\ \A d \in Clusters : Coming(d) => Coming(d)'
      /\ \A d \in Clusters : d # c => api'[d] = api[d]
  BY <1>1, <1>2, <1>3, AcceptedReady, WorkerWrites DEF Saving
<1>5. view' = api'[c] /\ view'.status = view.status
  BY <1>1, <1>3, <1>4, StoredKeeps DEF Post, TypeOK
<1>6. stat'.phase \in {stat.phase, view.status.phase}
  <2>1. stat \in Status
    BY DEF TypeOK
  <2> QED
    BY <1>1, <2>1 DEF Decoded, WithPhase, Status
<1>7. PassReady'
  <2>1. "Ready" \in {view'.status.phase, stat'.phase} => Backed(c)'
    <3>1. "Ready" \in {view.status.phase, stat.phase} => Backed(c)
      BY <1>1, <1>3 DEF ReadinessInvariant, PassReady
    <3> QED
      BY <1>5, <1>6, <3>1, SoundStays
  <2>2. pc' = "exists" => view'.subnet # NoSubnet
    <3>1. pc = "assignSubnet" => view'.subnet = view.subnet /\ view.subnet \in Subnets
      BY <1>1, <1>2, SentSubnet DEF SubnetInHand
    <3>2. NoSubnet \notin Subnets
      BY SubnetAssumption DEF NoSubnet, Subnets, Octets
    <3> QED
      BY <1>1, <3>1, <3>2
  <2> QED
    BY <1>1, <1>3, <1>4, <1>5, <2>1, <2>2 DEF PassReady
<1>8. NeverForgotten'
  BY <1>1, <1>3, <1>4, OthersKept
<1> QED
  BY <1>4, <1>7, <1>8, PoolStays DEF ReadinessInvariant

(* A step of the pass that leaves the API server alone.                    *)
LEMMA LocalReady ==
  ASSUME TypeOK, ClaimInvariant, HistoryInvariant, ReadinessInvariant, [Next]_vars,
         pc # "idle", UNCHANGED <<world, queue>>,
         \/ pc' = "idle" /\ delayed \cup {cur} \subseteq delayed'
         \/ /\ UNCHANGED <<cur, delayed>> /\ view'.status = view.status
            /\ stat'.phase = "Ready" => stat.phase = "Ready" \/ Backed(cur)'
            /\ pc' \in {"exists", "creating", "install", "isReady", "configure"} =>
                 /\ pc \in {"exists", "creating", "install", "isReady", "configure"}
                 /\ view' = view
            /\ pc' \in {"isReady", "configure"} /\ kind'[KindName[cur]].st = "running" =>
                 \A p \in Components : kind'[KindName[cur]].comps[p] # "none"
            /\ pc' # "saveStop"
  PROVE  ReadinessInvariant'
<1>1. PICK c \in Clusters : c = cur
  BY WorkerTyped
<1>2. CopiesSound' /\ LastArrives' /\ UNCHANGED api
  BY SameCopies DEF world
<1>3. PassReady'
  <2>1. Backed(c) => Backed(c)'
    BY SoundStays
  <2>2. "Ready" \in {view.status.phase, stat.phase} => Backed(c)
    BY <1>1 DEF ReadinessInvariant, PassReady
  <2>3. pc \in {"exists", "creating", "install", "isReady", "configure"} =>
          view.subnet # NoSubnet /\ view.subnet = api'[c].subnet
    BY <1>1, <1>2 DEF ReadinessInvariant, PassReady
  <2>4. CASE pc' = "idle"
    BY <2>4, IdleReady
  <2>5. CASE pc' # "idle"
    <3>1. /\ cur' = c /\ view'.status = view.status /\ pc' # "saveStop"
          /\ stat'.phase = "Ready" => stat.phase = "Ready" \/ Backed(c)'
      BY <1>1, <2>5
    <3> QED
      BY <1>1, <2>1, <2>2, <2>3, <2>5, <3>1 DEF PassReady
  <2> QED
    BY <2>4, <2>5
<1>4. NeverForgotten'
  <2>1. \A d \in Clusters : Coming(d) => Coming(d)'
    BY DEF Coming, world
  <2> QED
    BY <1>1, <1>2, <2>1, OthersKept
<1> QED
  BY <1>2, <1>3, <1>4, PoolStays DEF ReadinessInvariant

(* The steps of the worker.                                                *)
LEMMA StepReady ==
  ASSUME TypeOK, ClaimInvariant, HistoryInvariant, SubnetInHand, ReadinessInvariant,
         [Next]_vars, Step
  PROVE  ReadinessInvariant'
<1>1. CASE AddFinalizer \/ AssignSubnet \/ RemoveFinalizer
  BY <1>1, WriteReady
<1>2. CASE SaveStatus
  <2>1. /\ pc \in Writing /\ Accepted /\ pc' = "idle"
        /\ UNCHANGED queue /\ delayed \subseteq delayed'
    BY <1>2 DEF SaveStatus, Writing, Done, Stop, Requeue, Idle, Accepted
  <2>2. PICK c \in Clusters : c = cur
    BY <2>1, AcceptedReady
  <2>3. NeverForgotten'
    BY <2>1, <2>2, AcceptedReady, OthersKept
  <2> QED
    BY <2>1, <2>3, AcceptedReady, IdleReady, PoolStays DEF ReadinessInvariant
<1>3. CASE SaveUnchanged
  <2>1. /\ pc \in Saving /\ pc' = "idle" /\ UNCHANGED <<world, queue>>
        /\ delayed \subseteq delayed' /\ (pc = "saveRequeue" => cur \in delayed')
    BY <1>3 DEF SaveUnchanged, Saving, Done, Stop, Requeue, Idle
  <2>2. PICK c \in Clusters : c = cur
    BY <2>1, WorkerTyped DEF Saving
  <2>3. pc = "saveStop" => c \in queue \/ Coming(c) \/ ~Needed(api[c])
    BY <2>2 DEF ReadinessInvariant, PassReady
  <2>4. UNCHANGED api /\ \A d \in Clusters : Coming(d)' = Coming(d)
    BY <2>1 DEF world, Coming
  <2>5. NeverForgotten'
    BY <2>1, <2>2, <2>3, <2>4, OthersKept DEF Saving
  <2> QED
    BY <2>1, <2>5, SameCopies, IdleReady, PoolStays DEF ReadinessInvariant
<1>4. CASE \/ NoSubnetsAvailable \/ SubnetUnreadable \/ Rejected \/ Unreachable \/ NotAdmitted
  <2>1. /\ pc # "idle" /\ pc' = "idle" /\ UNCHANGED <<world, queue>>
        /\ delayed \cup {cur} \subseteq delayed'
    BY <1>4 DEF NoSubnetsAvailable, SubnetUnreadable, Rejected, Unreachable, NotAdmitted,
       Writing, Saving, Requeue, Idle, Call
  <2> QED
    BY <2>1, LocalReady
<1>5. CASE PickSubnet
  <2>1. /\ pc = "pickSubnet" /\ pc' = "assignSubnet"
        /\ UNCHANGED <<world, queue, delayed, cur, stat>>
    BY <1>5 DEF PickSubnet
  <2>2. view'.status = view.status
    BY <1>5 DEF PickSubnet, TypeOK, Object
  <2> QED
    BY <2>1, <2>2, LocalReady
<1>6. CASE \/ BeginCreate \/ EndCreate \/ DeleteCluster \/ NothingLeft \/ NotReady
  <2>1. /\ pc # "idle" /\ UNCHANGED <<world, queue, cur, view, stat, delayed>>
        /\ pc' \in {"creating", "saveRequeue", "removeFinalizer"}
        /\ pc' = "creating" => pc = "exists"
    BY <1>6 DEF BeginCreate, EndCreate, DeleteCluster, NothingLeft, NotReady, Goto,
       Change, Call
  <2> QED
    BY <2>1, LocalReady
<1>7. CASE Connect
  <2>1. stat'.phase = stat.phase
    BY <1>7 DEF Connect, WithCondition, TypeOK, Status
  <2> QED
    BY <1>7, <2>1, LocalReady DEF Connect, Call
<1>8. CASE Install
  <2>1. /\ pc = "install" /\ pc' = "isReady" /\ Change(Applied(Components))
        /\ UNCHANGED <<world, queue, cur, view, stat, delayed>>
    BY <1>8 DEF Install, Goto, Change
  <2>2. \A p \in Components : Applied(Components).comps[p] # "none"
    BY <2>1, AppliedLasts
  <2>3. kind'[KindName[cur]] = Applied(Components)
    BY <2>1, AppliedLasts, ChangedHost
  <2> QED
    BY <2>1, <2>2, <2>3, LocalReady
<1>9. CASE MetalLBReady
  <2>1. stat'.phase = stat.phase
    BY <1>9 DEF MetalLBReady, WithCondition, TypeOK, Status
  <2>2. /\ pc = "isReady" /\ pc' = "configure"
        /\ UNCHANGED <<world, queue, kind, cur, view, delayed>>
    BY <1>9 DEF MetalLBReady, Call
  <2>3. kind[KindName[cur]].st = "running" =>
          \A p \in Components : kind[KindName[cur]].comps[p] # "none"
    BY <2>2 DEF ReadinessInvariant, PassReady
  <2> QED
    BY <2>1, <2>2, <2>3, LocalReady
<1>10. CASE ConfigureSubnet
  <2> DEFINE k == [host EXCEPT !.pool = view.subnet, !.adv = TRUE]
  <2>1. /\ pc = "configure" /\ pc' = "saveRequeue" /\ Change(k) /\ host.st = "running"
        /\ UNCHANGED <<world, queue, cur, view, delayed>>
    BY <1>10 DEF ConfigureSubnet, Admitted, Change
  <2>2. PICK c \in Clusters : c = cur
    BY <2>1, WorkerTyped
  <2>3. /\ k \in KindCluster /\ k.st = "running" /\ k.adv /\ k.pool = view.subnet
        /\ k.comps = host.comps
    <3>1. host \in KindCluster
      BY <2>1, WorkerTyped DEF host, name, TypeOK
    <3>2. k \in KindCluster /\ k.pool = view.subnet
      BY <2>1, PoolType, ConfiguredPool
    <3> QED
      BY <2>1, <3>1, <3>2 DEF KindCluster
  <2> HIDE DEF k
  <2>4. host = kind[KindName[c]] /\ kind'[KindName[c]] = k
    BY <2>1, <2>2, <2>3, ChangedHost
  <2>5. /\ view.subnet # NoSubnet /\ view.subnet = api[c].subnet
        /\ \A p \in Components : host.comps[p] # "none"
    BY <2>1, <2>2, <2>4 DEF ReadinessInvariant, PassReady
  <2>6. Backed(c)'
    BY <2>1, <2>3, <2>4, <2>5 DEF Backed, Complete, world
  <2> QED
    BY <2>1, <2>2, <2>6, LocalReady
<1> QED
  BY <1>1, <1>2, <1>3, <1>4, <1>5, <1>6, <1>7, <1>8, <1>9, <1>10 DEF Step

(* The failures, and a restart.                                            *)
LEMMA FailureReady ==
  ASSUME TypeOK, ClaimInvariant, HistoryInvariant, ReadinessInvariant, [Next]_vars, Failure
  PROVE  ReadinessInvariant'
<1>1. CASE AnswerLost
  <2>1. /\ pc \in Writing /\ Accepted /\ pc' = "idle"
        /\ UNCHANGED queue /\ delayed \subseteq delayed'
    BY <1>1 DEF AnswerLost, Requeue, Idle, Accepted
  <2>2. PICK c \in Clusters : c = cur
    BY <2>1, AcceptedReady
  <2>3. NeverForgotten'
    BY <2>1, <2>2, AcceptedReady, OthersKept
  <2> QED
    BY <2>1, <2>3, AcceptedReady, IdleReady, PoolStays DEF ReadinessInvariant
<1>2. CASE CreateFails \/ InstallFails \/ ConfigureFails \/ DeleteFails \/ CallFails
  <2>1. /\ pc # "idle" /\ pc' = "idle" /\ UNCHANGED <<world, queue>>
        /\ delayed \cup {cur} \subseteq delayed'
    BY <1>2 DEF CreateFails, InstallFails, ConfigureFails, DeleteFails, CallFails,
       Change, Call, Requeue, Idle
  <2> QED
    BY <2>1, LocalReady
<1>3. CASE Crash
  <2>1. /\ pc' = "idle" /\ UNCHANGED api /\ cache' = api /\ watch' = <<>>
        /\ queue' = {c \in Clusters : Exists(api[c])}
    BY <1>3 DEF Crash, Idle
  <2>2. \A c \in Clusters : Backed(c) => Backed(c)'
    BY SoundStays
  <2>3. CopiesSound'
    BY <2>1, <2>2 DEF ReadinessInvariant, CopiesSound, Sound
  <2>4. LastArrives'
    BY <2>1 DEF LastArrives, Coming
  <2>5. NeverForgotten'
    BY <2>1, ClustersAssumption DEF NeverForgotten, Exists
  <2> QED
    BY <2>1, <2>3, <2>4, <2>5, IdleReady, PoolStays DEF ReadinessInvariant
<1> QED
  BY <1>1, <1>2, <1>3 DEF Failure

(* Time, the host and its pods: the pass and the queue lose nothing.       *)
LEMMA AroundReady ==
  ASSUME TypeOK, ClaimInvariant, HistoryInvariant, ReadinessInvariant, [Next]_vars,
         UNCHANGED <<world, worker>>, queue \cup delayed \subseteq queue' \cup delayed',
         queue \subseteq queue',
         \A n \in Names : kind'[n].st = "running" => HostLasts(n)
  PROVE  ReadinessInvariant'
<1>1. CopiesSound' /\ LastArrives'
  BY SameCopies
<1>2. UNCHANGED <<api, pc, cur, view, stat>> /\ \A d \in Clusters : Coming(d)' = Coming(d)
  BY DEF world, worker, Coming
<1>3. PassReady'
  <2>1. CASE pc = "idle"
    BY <1>2, <2>1, IdleReady
  <2>2. CASE pc # "idle"
    <3>1. PICK d \in Clusters : d = cur /\ KindName[d] \in Names
      BY <2>2, WorkerTyped
    <3>2. Backed(d) => Backed(d)'
      BY SoundStays
    <3>3. kind'[KindName[d]].st = "running" => HostLasts(KindName[d])
      BY <3>1
    <3> QED
      BY <1>2, <3>1, <3>2, <3>3 DEF ReadinessInvariant, PassReady, HostLasts
  <2> QED
    BY <2>1, <2>2
<1>4. NeverForgotten'
  <2> SUFFICES ASSUME NEW d \in Responsible, Needed(api'[d])
               PROVE  d \in queue' \cup delayed' \cup {cur'} \/ Coming(d)'
    BY DEF NeverForgotten, Needed, Coming
  <2>1. d \in Clusters
    BY ClustersAssumption
  <2>2. d \in queue \cup delayed \cup {cur} \/ Coming(d)
    BY <1>2 DEF ReadinessInvariant, NeverForgotten, Needed, Coming
  <2> QED
    BY <1>2, <2>1, <2>2
<1> QED
  BY <1>1, <1>3, <1>4, PoolStays DEF ReadinessInvariant

(* What a copy of a resource tells of it lasts, what a pass reports is so, *)
(* and the last event of a resource brings the cache up to date.           *)
THEOREM ReadinessKept == Spec => []ReadinessInvariant
<1>1. Init => ReadinessInvariant
  <2> SUFFICES ASSUME Init PROVE ReadinessInvariant
    OBVIOUS
  <2>1. /\ \A c \in Clusters : api[c] = NoObject /\ cache[c] = NoObject
        /\ watch = <<>> /\ pc = "idle"
        /\ \A n \in Names : kind[n].pool = NoSubnet
    BY DEF Init, Bare
  <2>2. \A c \in Clusters : KindName[c] \in Names
    BY NamesAssumption
  <2> QED
    BY <2>1, <2>2, ClustersAssumption
    DEF ReadinessInvariant, CopiesSound, Sound, LastArrives, Coming, PassReady,
        PoolMatchesSubnet, NeverForgotten, NoObject, NoStatus, Past
<1>2. /\ TypeOK /\ ClaimInvariant /\ HistoryInvariant /\ SubnetInHand
      /\ ReadinessInvariant /\ [Next]_vars
      => ReadinessInvariant'
  <2> SUFFICES ASSUME TypeOK, ClaimInvariant, HistoryInvariant, SubnetInHand,
                      ReadinessInvariant, [Next]_vars
               PROVE  ReadinessInvariant'
    OBVIOUS
  <2>1. ASSUME NEW c \in Clusters, UserActs(c) PROVE ReadinessInvariant'
    BY <2>1, UserReady
  <2>2. CASE Deliver
    BY <2>2, DeliverReady
  <2>3. ASSUME NEW c \in Clusters, Take(c) PROVE ReadinessInvariant'
    BY <2>3, TakeReady
  <2>4. CASE Step
    BY <2>4, StepReady
  <2>5. CASE Failure
    BY <2>5, FailureReady
  <2>6. ASSUME NEW c \in Clusters, TimerFires(c) \/ Resync(c) PROVE ReadinessInvariant'
    <3>1. /\ UNCHANGED <<world, worker, kind>> /\ queue \subseteq queue'
          /\ queue \cup delayed \subseteq queue' \cup delayed'
      BY <2>6 DEF TimerFires, Resync
    <3> QED
      BY <3>1, AroundReady, SameHost
  <2>7. ASSUME NEW m \in Names, ClusterVanishes(m) PROVE ReadinessInvariant'
    <3>1. UNCHANGED <<world, worker, queue, delayed>>
      BY <2>7 DEF ClusterVanishes, Host
    <3>2. ASSUME NEW n \in Names, kind'[n].st = "running" PROVE HostLasts(n)
      <4>1. kind'[n] = IF n = m THEN Bare("absent") ELSE kind[n]
        BY <2>7 DEF ClusterVanishes, TypeOK
      <4> QED
        BY <3>2, <4>1, SameHost DEF Bare
    <3> QED
      BY <3>1, <3>2, AroundReady
  <2>8. ASSUME NEW m \in Names, NEW p \in Components, PodProgresses(m, p) \/ PodFails(m, p)
        PROVE  ReadinessInvariant'
    <3>1. UNCHANGED <<world, worker, queue, delayed>>
      BY <2>8 DEF PodProgresses, PodFails, Host
    <3> QED
      BY <2>8, <3>1, PodsLast, AroundReady
  <2>9. CASE UNCHANGED vars
    BY <2>9, AroundReady, SameHost DEF vars
  <2> QED
    BY <2>1, <2>2, <2>3, <2>4, <2>5, <2>6, <2>7, <2>8, <2>9 DEF Next, UserActs
<1> QED
  BY <1>1, <1>2, TypeCorrect, CopiesGuarantee, HistoryKept, SubnetKept, PTL DEF Spec

-----------------------------------------------------------------------------
(* What it is for.                                                         *)

(* Phase Ready on a resource that nobody deletes means a complete kind     *)
(* cluster, configured for its subnet, whatever was interrupted, failed or *)
(* overtaken on the way.                                                   *)
THEOREM ReadyMeansReady == Spec => []ReadyBacked
<1>1. ReadinessInvariant => ReadyBacked
  BY DEF ReadinessInvariant, CopiesSound, Sound, Backed, Complete, ReadyBacked, Past
<1> QED
  BY <1>1, ReadinessKept, PTL

(* MetalLB never hands out addresses of another subnet than the one that   *)
(* is stored, though the pass may have begun with an old copy.             *)
THEOREM PoolsMatch == Spec => []PoolMatchesSubnet
<1>1. ReadinessInvariant => PoolMatchesSubnet
  BY DEF ReadinessInvariant
<1> QED
  BY <1>1, ReadinessKept, PTL

(* A resource that needs a reconcile is queued, on a timer, in the         *)
(* worker's hands or in an event that is still to come.                    *)
THEOREM NothingForgotten == Spec => []NeverForgotten
<1>1. ReadinessInvariant => NeverForgotten
  BY DEF ReadinessInvariant
<1> QED
  BY <1>1, ReadinessKept, PTL

(* The worker comes to assign a subnet by choosing one, and keeps it until *)
(* it writes.                                                              *)
LEMMA Choosing ==
  ASSUME [Next]_vars, pc' = "assignSubnet"
  PROVE  PickSubnet \/ (pc = "assignSubnet" /\ UNCHANGED <<cur, view>>)
<1>1. CASE \/ \E c \in Clusters : UserActs(c) \/ TimerFires(c) \/ Resync(c) \/ Take(c)
           \/ Deliver \/ UNCHANGED vars
  BY <1>1 DEF UserActs, CreateResource, DeleteResource, HoldForeign, ReleaseForeign,
     User, TimerFires, Resync, Take, ReconcileMissing, ReconcileUnsupported,
     ReconcileLive, ReconcileDeleting, Reconcile, Dequeue, Deliver, worker, vars
<1>2. CASE Step
  BY <1>2 DEF Step, AddFinalizer, NoSubnetsAvailable, AssignSubnet, SubnetUnreadable,
     RemoveFinalizer, SaveUnchanged, SaveStatus, Done, Stop, Goto, Rejected, BeginCreate,
     EndCreate, Connect, Unreachable, Install, NotReady, MetalLBReady, ConfigureSubnet,
     NotAdmitted, DeleteCluster, NothingLeft, Writing, Saving, Requeue, Idle
<1>3. CASE Failure
  BY <1>3 DEF Failure, AnswerLost, CreateFails, InstallFails, ConfigureFails,
     DeleteFails, CallFails, Crash, Requeue, Idle
<1>4. CASE \E m \in Names : \/ ClusterVanishes(m)
                            \/ \E p \in Components : PodProgresses(m, p) \/ PodFails(m, p)
  BY <1>4 DEF ClusterVanishes, PodProgresses, PodFails, Host, worker
<1> QED
  BY <1>1, <1>2, <1>3, <1>4 DEF Next, UserActs

(* A subnet that a resource has is given to another one only while the     *)
(* event of its assignment is undelivered: all that is delivered is in the *)
(* list that NextAvailableLBNetwork looks at.                              *)
THEOREM SharedByLagAlone == Spec => SharedOnlyByLag
<1> DEFINE Good == \A d \in Clusters :
             /\ pc = "pickSubnet" /\ pc' = "assignSubnet"
             /\ Exists(api[d]) /\ api[d].subnet = view'.subnet
             => \E i \in 1..Len(watch) :
                  watch[i].c = d /\ watch[i].obj.subnet = view'.subnet
<1>1. TypeOK /\ ReadinessInvariant /\ [Next]_vars => [Good]_vars
  <2> SUFFICES ASSUME TypeOK, ReadinessInvariant, [Next]_vars, NEW d \in Clusters,
                      pc = "pickSubnet", pc' = "assignSubnet",
                      Exists(api[d]), api[d].subnet = view'.subnet
               PROVE  \E i \in 1..Len(watch) :
                        watch[i].c = d /\ watch[i].obj.subnet = view'.subnet
    OBVIOUS
  <2>1. PickSubnet
    BY Choosing
  <2>2. PICK s \in Subnets : NextAvailable(s) /\ view' = [view EXCEPT !.subnet = s]
    BY <2>1 DEF PickSubnet
  <2>3. view'.subnet = s /\ s \notin Taken
    BY <2>2 DEF NextAvailable, TypeOK, Object
  <2>4. cache[d] # api[d]
    BY <2>3 DEF Taken
  <2> QED
    BY <2>4 DEF ReadinessInvariant, LastArrives
<1> QED
  BY <1>1, TypeCorrect, ReadinessKept, PTL DEF Spec, SharedOnlyByLag

-----------------------------------------------------------------------------
(* Whoever has a subnet has it alone, if the informer keeps up.            *)

(* Third octets are no annotations that are missing or unreadable.         *)
LEMMA SubnetsReadable == NoSubnet \notin Subnets /\ Malformed \notin Subnets
BY SubnetAssumption DEF Subnets, Octets, NoSubnet, Malformed

(* A subnet is kept by an octet.                                           *)
LEMMA SubnetOctets ==
  ASSUME NEW s \in Subnets PROVE s \in Octets
<1>1. s \in SubnetMin..SubnetMax
  BY DEF Subnets
<1> QED
  BY <1>1, SubnetAssumption DEF Octets

(* A resource that is there has the subnet it had, or the one the worker   *)
(* assigns to it.                                                          *)
LEMMA SubnetGiven ==
  ASSUME TypeOK, ClaimInvariant, HistoryInvariant, [Next]_vars,
         NEW c \in Clusters, Exists(api'[c]), api'[c].subnet \in Subnets
  PROVE  /\ Exists(api[c])
         /\ \/ api'[c].subnet = api[c].subnet
            \/ pc = "assignSubnet" /\ c = cur /\ api'[c].subnet = view.subnet
<1>1. ASSUME NEW d \in Clusters, NEW o \in Object, Post(d, o), Exists(api[d]),
             o.subnet = api[d].subnet
      PROVE  Exists(api[c]) /\ api'[c].subnet = api[c].subnet
  BY <1>1, StoredKeeps DEF Post, TypeOK
<1>2. ASSUME NEW d \in Clusters, UserActs(d)
      PROVE  Exists(api[c]) /\ api'[c].subnet = api[c].subnet
  <2>1. CASE CreateResource(d)
    <3>1. PICK s \in {NoSubnet, Malformed} :
            Post(d, [api[d] EXCEPT !.st = "live", !.subnet = s])
      BY <2>1 DEF CreateResource, User
    <3>2. PICK o : o = [api[d] EXCEPT !.st = "live", !.subnet = s]
      OBVIOUS
    <3>3. o \in Object /\ o.subnet = s
      BY <3>2 DEF TypeOK, Object, Annotations
    <3>4. CASE c = d
      <4>1. api'[d] = Stored(d, o)
        BY <3>1, <3>2 DEF Post, TypeOK
      <4>2. api'[d].subnet = s
        BY <3>3, <4>1, StoredKeeps
      <4> QED
        BY <3>4, <4>2, SubnetsReadable
    <3>5. CASE c # d
      BY <3>1, <3>5 DEF Post, TypeOK
    <3> QED
      BY <3>4, <3>5
  <2>2. CASE DeleteResource(d) \/ HoldForeign(d) \/ ReleaseForeign(d)
    <3>1. Exists(api[d])
      BY <2>2 DEF DeleteResource, HoldForeign, ReleaseForeign, Exists
    <3>2. PICK o \in Object : User(d, o) /\ (o.subnet = api[d].subnet \/ api[d] = NoObject)
      BY <1>2, UserWrites
    <3> QED
      BY <1>1, <3>1, <3>2 DEF User, NoObject, Exists
  <2> QED
    BY <1>2, <2>1, <2>2 DEF UserActs
<1>3. CASE pc \in Writing /\ Accepted
  <2>1. /\ cur \in Clusters /\ Sent \in Object /\ Post(cur, Sent) /\ Exists(api[cur])
        /\ Stored(cur, Sent).subnet = view.subnet
    BY <1>3, WorkerWrites, SentSubnet
  <2>2. pc = "assignSubnet" \/ view.subnet = api[cur].subnet
    BY <1>3 DEF Accepted, CanWrite, ClaimInvariant, ViewCurrent, Writing, Saving
  <2>3. CASE c = cur
    BY <2>1, <2>2, <2>3 DEF Post, TypeOK
  <2>4. CASE c # cur
    BY <2>1, <2>4 DEF Post, TypeOK
  <2> QED
    BY <2>3, <2>4
<1>4. CASE UNCHANGED api
  BY <1>4
<1> QED
  BY <1>2, <1>3, <1>4, EveryStep DEF HostChanges

(* A subnet that is free in an informed choice is free indeed, and stays   *)
(* so until it is assigned: there is one worker, and users assign none.    *)
LEMMA ApartStays ==
  ASSUME TypeOK, ClaimInvariant, HistoryInvariant, ReadinessInvariant, SubnetInHand,
         [Next]_vars, SubnetsApart,
         pc = "pickSubnet" /\ pc' = "assignSubnet" => Informed
  PROVE  SubnetsApart'
<1>1. UniqueSubnets'
  <2> SUFFICES ASSUME NEW c \in Clusters, NEW d \in Clusters, c # d,
                      Exists(api'[c]), Exists(api'[d]),
                      api'[c].subnet \in Subnets, api'[c].subnet = api'[d].subnet
               PROVE  FALSE
    BY DEF UniqueSubnets
  <2> QED
    BY SubnetGiven DEF SubnetsApart, UniqueSubnets
<1>2. ASSUME pc' = "assignSubnet", NEW d \in Clusters, d # cur', Exists(api'[d]),
             api'[d].subnet = view'.subnet
      PROVE  FALSE
  <2>1. CASE PickSubnet
    <3>1. PICK s \in Subnets : NextAvailable(s) /\ view' = [view EXCEPT !.subnet = s]
      BY <2>1 DEF PickSubnet
    <3>2. /\ view'.subnet = s /\ s \notin Taken /\ UNCHANGED api
          /\ s \notin {NoSubnet, Malformed} /\ Informed
      BY <1>2, <2>1, <3>1, SubnetsReadable
      DEF PickSubnet, NextAvailable, TypeOK, Object, world
    <3>3. cache[d] # api[d]
      BY <1>2, <3>2 DEF Taken
    <3>4. \E i \in 1..Len(watch) : watch[i].obj = api[d]
      BY <3>3 DEF ReadinessInvariant, LastArrives
    <3> QED
      BY <1>2, <3>2, <3>4 DEF Informed
  <2>2. CASE pc = "assignSubnet" /\ UNCHANGED <<cur, view>>
    <3>1. view.subnet \in Subnets
      BY <2>2 DEF SubnetInHand
    <3>2. Exists(api[d]) /\ api'[d].subnet = api[d].subnet
      BY <1>2, <2>2, <3>1, SubnetGiven
    <3> QED
      BY <1>2, <2>2, <3>2 DEF SubnetsApart
  <2> QED
    BY <1>2, <2>1, <2>2, Choosing
<1> QED
  BY <1>1, <1>2 DEF SubnetsApart

(* NextAvailableLBNetwork gives every resource a subnet of its own as long *)
(* as the informer shows all assignments when a subnet is chosen: neither  *)
(* lost answers, conflicts and restarts nor what users write in between    *)
(* lead to a subnet that two resources have.                               *)
THEOREM SubnetsUniqueIfInformed == Spec /\ InformedChoice => []UniqueSubnets
<1>1. Init => SubnetsApart
  BY DEF Init, SubnetsApart, UniqueSubnets, NoObject, Exists
<1>2. /\ TypeOK /\ ClaimInvariant /\ HistoryInvariant /\ ReadinessInvariant /\ SubnetInHand
      /\ SubnetsApart /\ [Next]_vars
      /\ [pc = "pickSubnet" /\ pc' = "assignSubnet" => Informed]_vars
      => SubnetsApart'
  BY ApartStays DEF vars, worker
<1>3. SubnetsApart => UniqueSubnets
  BY DEF SubnetsApart
<1> QED
  BY <1>1, <1>2, <1>3, TypeCorrect, CopiesGuarantee, HistoryKept, ReadinessKept,
     SubnetKept, PTL DEF Spec, InformedChoice

(* A kind cluster that does not run has no MetalLB to hand out addresses.  *)
LEMMA PoolsRun == Spec => []PoolRuns
<1>1. Init => PoolRuns
  BY DEF Init, PoolRuns, Bare
<1>2. TypeOK /\ ClaimInvariant /\ HistoryInvariant /\ PoolRuns /\ [Next]_vars => PoolRuns'
  <2> SUFFICES ASSUME TypeOK, ClaimInvariant, HistoryInvariant, PoolRuns, [Next]_vars,
                      NEW n \in Names, kind'[n].pool # NoSubnet
               PROVE  kind'[n].st = "running"
    BY DEF PoolRuns
  <2> QED
    BY EveryHost DEF HostLasts, HostConfigured, HostBare, PoolRuns
<1> QED
  BY <1>1, <1>2, TypeCorrect, CopiesGuarantee, HistoryKept, PTL DEF Spec

(* Then no address is handed out in two kind clusters, for any IPv4        *)
(* network Docker may have configured, also while resources and their kind *)
(* clusters come and go: a pool lasts no longer than the claim on the      *)
(* subnet.  Every resource has a kind cluster of its own here.             *)
THEOREM PoolsApartIfInformed ==
  ASSUME OwnKindCluster PROVE Spec /\ InformedChoice => []PoolsApart
<1>1. /\ TypeOK /\ ClaimInvariant /\ PoolRuns /\ PoolMatchesSubnet /\ SubnetInHand
      /\ UniqueSubnets
      => PoolsApart
  <2> SUFFICES ASSUME TypeOK, ClaimInvariant, PoolRuns, PoolMatchesSubnet, SubnetInHand,
                      UniqueSubnets, NEW m \in Names, NEW n \in Names, m # n,
                      kind[m].pool # NoSubnet, kind[n].pool # NoSubnet
               PROVE  Disjoint(SubnetOf(kind[m].pool), SubnetOf(kind[n].pool))
    BY DEF PoolsApart
  <2>1. PICK c \in Clusters : KindName[c] = m /\ Exists(api[c])
    BY DEF PoolRuns, ClaimInvariant, NoOrphanKind
  <2>2. PICK d \in Clusters : KindName[d] = n /\ Exists(api[d])
    BY DEF PoolRuns, ClaimInvariant, NoOrphanKind
  <2>3. kind[m].pool = api[c].subnet /\ kind[n].pool = api[d].subnet
    BY <2>1, <2>2 DEF PoolMatchesSubnet, Exclusive, OwnKindCluster
  <2>4. kind[m].pool \in Subnets /\ kind[n].pool \in Subnets
    BY DEF SubnetInHand
  <2>5. kind[m].pool # kind[n].pool
    BY <2>1, <2>2, <2>3, <2>4 DEF UniqueSubnets
  <2>6. Usable
    BY <2>4 DEF Subnets
  <2>7. kind[m].pool \in Octets /\ kind[n].pool \in Octets
    BY <2>4, SubnetOctets
  <2> QED
    BY <2>5, <2>6, <2>7, KindNetworkSupported, SubnetsDisjoint DEF SubnetOf
<1> QED
  BY <1>1, TypeCorrect, CopiesGuarantee, PoolsRun, PoolsMatch, SubnetKept,
     SubnetsUniqueIfInformed, PTL

-----------------------------------------------------------------------------
(* Half a kind cluster.                                                    *)

(* A call or a restart that fails is counted.                              *)
LEMMA FailureCounts ==
  ASSUME TypeOK, Failure PROVE faults' > 0 \/ crashes' > 0
<1>1. faults \in Nat /\ crashes \in Nat
  BY BoundsAssumption DEF TypeOK
<1> QED
  BY <1>1 DEF Failure, AnswerLost, CreateFails, InstallFails, ConfigureFails, DeleteFails,
     CallFails, Crash, Fault

(* The steps of the worker that succeed leave half a kind cluster only     *)
(* while they create it.                                                   *)
LEMMA StepHalf ==
  ASSUME TypeOK, ClaimInvariant, HistoryInvariant, HalfByFailure, Step PROVE HalfByFailure'
<1>1. UNCHANGED budget
  BY DEF Step, AddFinalizer, PickSubnet, NoSubnetsAvailable, AssignSubnet, SubnetUnreadable,
     RemoveFinalizer, SaveUnchanged, SaveStatus, Rejected, BeginCreate, EndCreate, Connect,
     Unreachable, Install, NotReady, MetalLBReady, ConfigureSubnet, NotAdmitted,
     DeleteCluster, NothingLeft, budget
<1> SUFFICES ASSUME NEW n \in Names, kind'[n].st = "partial", ~(faults > 0), ~(crashes > 0)
             PROVE  pc' = "creating" /\ KindName[cur'] = n
  BY <1>1 DEF HalfByFailure, budget
<1>2. kind[n].st = "partial" => pc = "creating" /\ KindName[cur] = n
  BY DEF HalfByFailure
<1>3. CASE BeginCreate
  BY <1>2, <1>3, BareType, ChangedHost DEF BeginCreate, Bare, Goto
<1>4. CASE EndCreate
  BY <1>2, <1>4, BareType, ChangedHost DEF EndCreate, Bare
<1>5. CASE DeleteCluster
  BY <1>2, <1>5, BareType, ChangedHost DEF DeleteCluster, Bare
<1>6. CASE Install
  BY <1>2, <1>6, AppliedLasts, ChangedHost DEF Install
<1>7. CASE ConfigureSubnet
  <2>1. pc = "configure" /\ host \in KindCluster
    BY <1>7, WorkerTyped DEF ConfigureSubnet, TypeOK, host, name
  <2>2. [host EXCEPT !.pool = view.subnet, !.adv = TRUE].st = host.st
    BY <2>1 DEF KindCluster
  <2> QED
    BY <1>2, <1>7, <2>1, <2>2, PoolType, ChangedHost DEF ConfigureSubnet
<1>8. CASE \/ AddFinalizer \/ PickSubnet \/ NoSubnetsAvailable \/ AssignSubnet
           \/ SubnetUnreadable \/ RemoveFinalizer \/ SaveUnchanged \/ SaveStatus \/ Rejected
           \/ Connect \/ Unreachable \/ NotReady \/ MetalLBReady \/ NotAdmitted \/ NothingLeft
  <2>1. UNCHANGED kind /\ pc # "creating"
    BY <1>8 DEF AddFinalizer, PickSubnet, NoSubnetsAvailable, AssignSubnet, SubnetUnreadable,
       RemoveFinalizer, SaveUnchanged, SaveStatus, Rejected, Connect, Unreachable, NotReady,
       MetalLBReady, NotAdmitted, NothingLeft, Accepted, Call, Writing, Saving
  <2> QED
    BY <1>2, <2>1
<1> QED
  BY <1>3, <1>4, <1>5, <1>6, <1>7, <1>8 DEF Step

(* Half a kind cluster is one that CreateCluster is at work on, or what a  *)
(* failed call or a restart has left: without them every creation is       *)
(* completed, also when a deletion or a loss overtakes it.                 *)
THEOREM HalfByFailureAlone == Spec => []HalfByFailure
<1>1. Init => HalfByFailure
  BY DEF Init, HalfByFailure, Bare
<1>2. TypeOK /\ ClaimInvariant /\ HistoryInvariant /\ HalfByFailure /\ [Next]_vars
      => HalfByFailure'
  <2> SUFFICES ASSUME TypeOK, ClaimInvariant, HistoryInvariant, HalfByFailure, [Next]_vars
               PROVE  HalfByFailure'
    OBVIOUS
  <2>1. CASE Failure
    BY <2>1, FailureCounts DEF HalfByFailure
  <2>2. CASE Step
    BY <2>2, StepHalf
  <2>3. CASE \E c \in Clusters : Take(c)
    <3>1. UNCHANGED <<kind, budget>> /\ pc = "idle"
      BY <2>3 DEF Take, ReconcileMissing, ReconcileUnsupported, ReconcileLive,
         ReconcileDeleting, Reconcile, Dequeue
    <3> QED
      BY <3>1 DEF HalfByFailure, budget
  <2>4. CASE \/ \E c \in Clusters : UserActs(c) \/ TimerFires(c) \/ Resync(c)
             \/ Deliver \/ UNCHANGED vars
    BY <2>4 DEF UserActs, CreateResource, DeleteResource, HoldForeign, ReleaseForeign,
       User, TimerFires, Resync, Deliver, vars, worker, budget, HalfByFailure
  <2>5. ASSUME NEW m \in Names, ClusterVanishes(m) PROVE HalfByFailure'
    BY <2>5 DEF ClusterVanishes, Host, TypeOK, Bare, worker, budget, HalfByFailure
  <2>6. ASSUME NEW m \in Names, NEW p \in Components, PodProgresses(m, p) \/ PodFails(m, p)
        PROVE  HalfByFailure'
    <3>1. \A n \in Names : kind'[n].st = kind[n].st
      BY <2>6, PodsLast DEF HostLasts
    <3>2. UNCHANGED <<pc, cur>> /\ (UNCHANGED faults \/ faults' = faults + 1) /\ UNCHANGED crashes
      BY <2>6 DEF PodProgresses, PodFails, Host, Fault, worker, budget
    <3>3. faults \in Nat
      BY BoundsAssumption DEF TypeOK
    <3> QED
      BY <3>1, <3>2, <3>3 DEF HalfByFailure
  <2> QED
    BY <2>1, <2>2, <2>3, <2>4, <2>5, <2>6 DEF Next, UserActs
<1> QED
  BY <1>1, <1>2, TypeCorrect, CopiesGuarantee, HistoryKept, PTL DEF Spec

=============================================================================
