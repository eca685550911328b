----------------------- MODULE ClusterRefinementProofs -----------------------
(***************************************************************************)
(* The order in which a resource and its kind cluster live: an assigned    *)
(* subnet stays, a kind cluster is not created again after the end was     *)
(* reported nor deleted before the resource is let go, and the controller  *)
(* implements ClusterLifecycle.                                            *)
(***************************************************************************)
EXTENDS ClusterHistory, ClusterRefinement, ClusterControllerProofs

-----------------------------------------------------------------------------
(* The invariant.                                                          *)

(* All that storing an object can change but the version: one that is      *)
(* being deleted may go.                                                   *)
LEMMA StoredKeeps ==
  ASSUME TypeOK, NEW c \in Clusters, NEW o \in Object
  PROVE  LET s == Stored(c, o)
         IN /\ s.fin = o.fin /\ s.foreign = o.foreign
            /\ s.subnet = o.subnet /\ s.status = o.status
            /\ s.st = o.st \/ (o.st = "deleting" /\ s.st = "gone")
            /\ s.st = "gone" => o.st = "gone" \/ (~o.fin /\ o.foreign # "held")
BY DEF Stored, Settled, Object, TypeOK

(* A write keeps what the copies tell of the end of a resource.            *)
LEMMA PostHistory ==
  ASSUME TypeOK, ClaimInvariant, HistoryInvariant,
         NEW c \in Clusters, NEW o \in Object, Post(c, o), o.st # "none",
         Past(api[c]) => Past(o), LetGo(api[c]) => LetGo(o),
         Reported(o) => Past(cache[c])
  PROVE  CopiesLasting' /\ ReportedLate' /\ NothingBefore'
<1>0. PICK s \in Object : s = Stored(c, o)
  BY StoredType
<1>1. /\ s.st # "none" /\ (LetGo(o) => LetGo(s)) /\ (s.st = "live" => o.st = "live")
      /\ Reported(s) = Reported(o)
  BY <1>0, StoredKeeps DEF LetGo, Past, Reported
<1>2. /\ api'[c] = s /\ cache' = cache
      /\ \A d \in Clusters : d # c => api'[d] = api[d]
  BY <1>0 DEF Post, TypeOK
<1>3. ASSUME NEW d \in Clusters, NEW v, Lasting(d, v) PROVE Lasting(d, v)'
  <2>1. LetGo(api[d]) => LetGo(api'[d])
    BY <1>1, <1>2
  <2> QED
    BY <1>3, <2>1 DEF Lasting
<1>4. Lasting(c, s)'
  <2>1. o.st = "live" => ~Reported(o)
    BY DEF ClaimInvariant, CopiesFaithful, Faithful, Past
  <2> QED
    BY <1>1, <1>2, <2>1 DEF Lasting
<1>5. CopiesLasting'
  <2> DEFINE e == [c |-> c, obj |-> s]
             n == Len(watch)
  <2>1. /\ n \in Nat
        /\ \A i \in 1..n : watch[i] \in Events
    BY DEF TypeOK
  <2>2. /\ Len(watch') = n + 1 /\ watch'[n + 1] = e
        /\ \A i \in 1..n : watch'[i] = watch[i]
    <3>1. watch \in Seq(Events) /\ e \in Events /\ watch' = Append(watch, e)
      BY <1>0 DEF Post, TypeOK, Events
    <3> HIDE DEF e
    <3> QED
      BY <3>1
  <2>3. \A d \in Clusters : Lasting(d, cache[d])'
    BY <1>2, <1>3 DEF HistoryInvariant, CopiesLasting, Lasting
  <2>4. \A i \in 1..n : Lasting(watch[i].c, watch[i].obj)'
    <3> TAKE i \in 1..n
    <3>1. watch[i].c \in Clusters /\ Lasting(watch[i].c, watch[i].obj)
      BY <2>1 DEF HistoryInvariant, CopiesLasting, Events
    <3> QED
      BY <1>3, <2>2, <3>1 DEF Lasting
  <2> QED
    BY <1>4, <2>1, <2>2, <2>3, <2>4 DEF CopiesLasting
<1>6. ReportedLate'
  BY <1>1, <1>2 DEF HistoryInvariant, ReportedLate
<1>7. NothingBefore'
  BY <1>1, <1>2 DEF HistoryInvariant, NothingBefore
<1> QED
  BY <1>5, <1>6, <1>7

(* Users, and the holders of foreign finalizers.                           *)
UserActs(c) ==
  CreateResource(c) \/ DeleteResource(c) \/ HoldForeign(c) \/ ReleaseForeign(c)

(* What they may write: nothing but the deletion, the annotation of a new  *)
(* resource, and their own finalizers.                                     *)
LEMMA UserWrites ==
  ASSUME TypeOK, HistoryInvariant, NEW c \in Clusters, UserActs(c)
  PROVE  \E o \in Object :
           /\ User(c, o) /\ o.st # "none"
           /\ o.fin = api[c].fin /\ o.status = api[c].status
           /\ o.subnet = api[c].subnet \/ api[c] = NoObject
           /\ Past(api[c]) => Past(o)
           /\ LetGo(api[c]) => LetGo(o)
           /\ \/ api[c] = NoObject /\ o.st = "live"
              \/ api[c].st = "live" /\ o.st = "deleting" /\ o.foreign = api[c].foreign
              \/ api[c].st = "live" /\ o.st = "live"
              \/ api[c].st = "deleting" /\ o.st = "deleting"
                 /\ api[c].foreign = "held" /\ o.foreign = "released"
<1>1. api[c] \in Object
  BY DEF TypeOK
<1>2. CASE CreateResource(c)
  <2>1. PICK s \in Annotations : User(c, [api[c] EXCEPT !.st = "live", !.subnet = s])
    BY <1>2 DEF CreateResource, Annotations
  <2>2. [api[c] EXCEPT !.st = "live", !.subnet = s] \in Object
    BY <1>1 DEF Object
  <2>3. api[c] = NoObject /\ ~Past(api[c])
    BY <1>2 DEF CreateResource, HistoryInvariant, NothingBefore, Past
  <2> WITNESS [api[c] EXCEPT !.st = "live", !.subnet = s] \in Object
  <2> QED
    BY <1>1, <2>1, <2>3 DEF Object, LetGo
<1>3. CASE DeleteResource(c)
  <2>1. [api[c] EXCEPT !.st = "deleting"] \in Object
    BY <1>1 DEF Object
  <2> WITNESS [api[c] EXCEPT !.st = "deleting"] \in Object
  <2> QED
    BY <1>1, <1>3 DEF DeleteResource, Object, LetGo, Past
<1>4. CASE HoldForeign(c)
  <2>1. [api[c] EXCEPT !.foreign = "held"] \in Object
    BY <1>1 DEF Object
  <2> WITNESS [api[c] EXCEPT !.foreign = "held"] \in Object
  <2> QED
    BY <1>1, <1>4 DEF HoldForeign, Object, LetGo, Past
<1>5. CASE ReleaseForeign(c)
  <2>1. [api[c] EXCEPT !.foreign = "released"] \in Object
    BY <1>1 DEF Object
  <2> WITNESS [api[c] EXCEPT !.foreign = "released"] \in Object
  <2> QED
    BY <1>1, <1>5 DEF ReleaseForeign, Object, LetGo, Past, Exists
<1> QED
  BY <1>2, <1>3, <1>4, <1>5 DEF UserActs

(* They keep the invariant.                                                *)
LEMMA UserHistory ==
  ASSUME TypeOK, ClaimInvariant, HistoryInvariant, NEW c \in Clusters, UserActs(c)
  PROVE  HistoryInvariant'
<1>1. PICK o \in Object :
           /\ User(c, o) /\ o.st # "none" /\ o.status = api[c].status
           /\ Past(api[c]) => Past(o)
           /\ LetGo(api[c]) => LetGo(o)
  BY UserWrites
<1>2. Post(c, o) /\ UNCHANGED <<cache, worker, kind>>
  BY <1>1 DEF User
<1>3. CopiesLasting' /\ ReportedLate' /\ NothingBefore'
  <2>1. Reported(o) => Past(cache[c])
    BY <1>1 DEF HistoryInvariant, ReportedLate, Reported
  <2> QED
    BY <1>1, <1>2, <2>1, PostHistory
<1>4. PassInOrder'
  <2>1. CASE pc = "idle"
    BY <1>2, <2>1 DEF PassInOrder, worker, Providing, Removing
  <2>2. CASE pc # "idle"
    <3>1. PICK d \in Clusters : d = cur
      BY <2>2, WorkerTyped
    <3>2. LetGo(api[d]) => LetGo(api'[d])
      <4>1. CASE d = c
        <5>1. api'[d] = Stored(c, o)
          BY <1>2, <4>1 DEF Post, TypeOK
        <5> QED
          BY <1>1, <4>1, <5>1, StoredKeeps DEF LetGo, Past
      <4>2. CASE d # c
        BY <1>2, <4>2 DEF Post, TypeOK
      <4> QED
        BY <4>1, <4>2
    <3>3. api'[d].status = api[d].status
      BY <1>1, <1>2, StoredKeeps DEF Post, TypeOK
    <3>4. view.rv = api'[d].rv => view.rv = api[d].rv /\ api'[d] = api[d]
      <4>1. CASE d = c
        <5>1. api'[d].rv = api[d].rv + 1 /\ api[d].rv \in Nat
          BY <1>2, <4>1, StoredFields DEF Post, TypeOK
        <5>2. view.rv \in Nat /\ view.rv <= api[d].rv
          BY <2>2, <3>1 DEF ClaimInvariant, ViewCurrent, TypeOK, Object
        <5> QED
          BY <5>1, <5>2
      <4>2. CASE d # c
        BY <1>2, <4>2 DEF Post, TypeOK
      <4> QED
        BY <4>1, <4>2
    <3>5. /\ UNCHANGED <<pc, cur, view, stat, kind, cache>>
      BY <1>2 DEF worker
    <3> QED
      BY <2>2, <3>1, <3>2, <3>3, <3>4, <3>5 DEF HistoryInvariant, PassInOrder, Reported
  <2> QED
    BY <2>1, <2>2
<1> QED
  BY <1>3, <1>4 DEF HistoryInvariant

(* The informer delivers: the cache never goes back.                       *)
LEMMA DeliverHistory ==
  ASSUME TypeOK, ClaimInvariant, HistoryInvariant, Deliver
  PROVE  HistoryInvariant'
<1> DEFINE n == Len(watch)
<1>1. /\ n \in Nat /\ n > 0 /\ Len(watch') = n - 1
      /\ \A i \in 1..(n - 1) : watch'[i] = watch[i + 1]
      /\ \A i \in 1..n : watch[i] \in Events
      /\ Head(watch) = watch[1]
  BY DEF Deliver, TypeOK
<1>2. PICK e \in Events : e = watch[1]
  BY <1>1
<1>3. /\ e.c \in Clusters /\ e.obj \in Object
      /\ cache' = [cache EXCEPT ![e.c] = e.obj]
      /\ UNCHANGED <<api, worker, kind>>
  BY <1>1, <1>2 DEF Deliver, Events
<1>4. \A c \in Clusters : Past(cache[c]) => Past(cache'[c])
  <2> TAKE c \in Clusters
  <2>1. CASE c = e.c
    BY <1>1, <1>2, <1>3, <2>1 DEF ClaimInvariant, CopiesInOrder, TypeOK
  <2>2. CASE c # e.c
    BY <1>3, <2>2 DEF TypeOK
  <2> QED
    BY <2>1, <2>2
<1>5. CopiesLasting'
  <2>1. \A c \in Clusters : Lasting(c, cache'[c])
    BY <1>1, <1>2, <1>3 DEF HistoryInvariant, CopiesLasting, TypeOK
  <2>2. \A i \in 1..(n - 1) : Lasting(watch'[i].c, watch'[i].obj)
    BY <1>1 DEF HistoryInvariant, CopiesLasting
  <2> QED
    BY <1>1, <1>3, <2>1, <2>2 DEF CopiesLasting, Lasting
<1>6. ReportedLate' /\ NothingBefore'
  BY <1>3, <1>4 DEF HistoryInvariant, ReportedLate, NothingBefore
<1>7. PassInOrder'
  <2>1. pc # "idle" /\ Past(cache[cur]) => Past(cache'[cur])
    BY <1>4, WorkerTyped
  <2>2. UNCHANGED <<pc, cur, view, stat, api, kind>>
    BY <1>3 DEF worker
  <2> QED
    BY <2>1, <2>2 DEF HistoryInvariant, PassInOrder
<1> QED
  BY <1>5, <1>6, <1>7 DEF HistoryInvariant

(* The copies depend on the API server and the cache alone.                *)
LEMMA SameHistory ==
  ASSUME HistoryInvariant, UNCHANGED world
  PROVE  CopiesLasting' /\ ReportedLate' /\ NothingBefore'
BY DEF HistoryInvariant, CopiesLasting, Lasting, ReportedLate, NothingBefore, world

(* Between passes nothing is asked of the worker.                          *)
LEMMA IdleHistory ==
  ASSUME pc' = "idle" PROVE PassInOrder'
BY DEF PassInOrder, Providing, Removing

(* The worker's first decision.                                            *)
LEMMA TakeHistory ==
  ASSUME TypeOK, ClaimInvariant, HistoryInvariant, NEW c \in Clusters, Take(c)
  PROVE  HistoryInvariant'
<1>1. UNCHANGED world /\ UNCHANGED kind
  BY DEF Take, ReconcileMissing, ReconcileUnsupported, ReconcileLive,
         ReconcileDeleting, Reconcile
<1>2. CASE ReconcileMissing(c) \/ ReconcileUnsupported(c)
  <2>1. UNCHANGED worker /\ pc = "idle"
    BY <1>2 DEF ReconcileMissing, ReconcileUnsupported, Dequeue
  <2> QED
    BY <1>1, <2>1, SameHistory, IdleHistory DEF HistoryInvariant, worker
<1>3. CASE ReconcileLive(c)
  <2>1. /\ cur' = c /\ view' = cache[c] /\ cache[c].st = "live"
        /\ stat' = cache[c].status \/ stat' = WithPhase(cache[c].status, "Progressing")
        /\ pc' \in {"addFinalizer", "pickSubnet", "exists"}
        /\ pc' = "pickSubnet" => cache[c].subnet = NoSubnet
    BY <1>3 DEF ReconcileLive, Reconcile
  <2>2. ~Reported(cache[c]) /\ ~Reported(api[c])
    BY <2>1 DEF HistoryInvariant, CopiesLasting, Lasting, ReportedLate, Past
  <2>3. stat'.phase # "Terminating"
    <3>1. cache[c].status \in Status
      BY DEF TypeOK, Object
    <3> QED
      BY <2>1, <2>2, <3>1 DEF WithPhase, Status, Reported
  <2>4. PassInOrder'
    BY <1>1, <2>1, <2>2, <2>3 DEF PassInOrder, Reported, Removing, world
  <2> QED
    BY <1>1, <2>4, SameHistory DEF HistoryInvariant
<1>4. CASE ReconcileDeleting(c)
  <2>1. /\ cur' = c /\ view' = cache[c] /\ cache[c].st = "deleting"
        /\ pc' \in {"delExists"} \cup Saving
        /\ pc' = "delExists" => cache[c].foreign # "held"
    BY <1>4 DEF ReconcileDeleting, Reconcile, Saving
  <2>2. Past(cache[c]) /\ (cache[c].foreign # "held" => LetGo(api[c]))
    BY <2>1 DEF HistoryInvariant, CopiesLasting, Lasting, LetGo, Past
  <2>3. PassInOrder'
    BY <1>1, <2>1, <2>2 DEF PassInOrder, Removing, Providing, Saving, world
  <2> QED
    BY <1>1, <2>3, SameHistory DEF HistoryInvariant
<1> QED
  BY <1>2, <1>3, <1>4 DEF Take

(* What a write of the worker that is accepted stores.                     *)
LEMMA WorkerWrites ==
  ASSUME TypeOK, ClaimInvariant, HistoryInvariant, pc \in Writing, Accepted
  PROVE  /\ cur \in Clusters /\ Sent \in Object /\ Post(cur, Sent) /\ UNCHANGED kind
         /\ Exists(api[cur]) /\ Sent.st = api[cur].st /\ Sent.foreign = api[cur].foreign
         /\ Sent.fin = IF pc = "addFinalizer" THEN TRUE
                       ELSE IF pc = "removeFinalizer" THEN FALSE ELSE api[cur].fin
         /\ Sent.subnet = api[cur].subnet \/ api[cur].subnet = NoSubnet
         /\ Sent.status = view.status \/ (pc \in Saving /\ Sent.status.phase = stat.phase)
         /\ pc = "addFinalizer" => api[cur].st = "live"
<1>1. /\ cur \in Clusters /\ Sent \in Object /\ Post(cur, Sent) /\ UNCHANGED kind
      /\ Exists(api[cur]) /\ Sent.st = api[cur].st
  BY AcceptedPost DEF ClaimInvariant
<1>2. view.rv = api[cur].rv
  BY DEF Accepted, CanWrite
<1>3. view = IF pc = "assignSubnet" THEN [api[cur] EXCEPT !.subnet = view.subnet]
                                    ELSE api[cur]
  BY <1>2 DEF ClaimInvariant, ViewCurrent, Writing, Saving
<1>4. view \in Object /\ api[cur] \in Object /\ stat \in Status
  BY <1>1 DEF TypeOK
<1>5. /\ view.st = api[cur].st /\ view.fin = api[cur].fin /\ view.foreign = api[cur].foreign
      /\ view.subnet = api[cur].subnet \/ api[cur].subnet = NoSubnet
  <2>1. pc = "assignSubnet" => api[cur].subnet = NoSubnet
    BY <1>2 DEF HistoryInvariant, PassInOrder
  <2> QED
    BY <1>3, <1>4, <2>1 DEF Object
<1>6. /\ Sent.foreign = view.foreign /\ Sent.subnet = view.subnet
      /\ Sent.fin = IF pc = "addFinalizer" THEN TRUE
                    ELSE IF pc = "removeFinalizer" THEN FALSE ELSE view.fin
      /\ Sent.status = view.status \/ (pc \in Saving /\ Sent.status.phase = stat.phase)
  BY <1>4 DEF Sent, Writing, Saving, Object, Status
<1>7. pc = "addFinalizer" => api[cur].st = "live"
  BY <1>5 DEF HistoryInvariant, PassInOrder
<1> QED
  BY <1>1, <1>5, <1>6, <1>7

(* Such a write keeps what the copies tell.                                *)
LEMMA AcceptedHistory ==
  ASSUME TypeOK, ClaimInvariant, HistoryInvariant, pc \in Writing, Accepted
  PROVE  CopiesLasting' /\ ReportedLate' /\ NothingBefore'
<1>1. Sent.st # "none" /\ (Past(api[cur]) => Past(Sent)) /\ (LetGo(api[cur]) => LetGo(Sent))
  BY WorkerWrites DEF Exists, Past, LetGo
<1>2. Reported(Sent) => Past(cache[cur])
  BY WorkerWrites DEF HistoryInvariant, PassInOrder, Reported, Writing, Saving
<1> QED
  BY <1>1, <1>2, WorkerWrites, PostHistory

(* A write that is followed by another step of the pass.                   *)
LEMMA WriteHistory ==
  ASSUME TypeOK, ClaimInvariant, HistoryInvariant,
         AddFinalizer \/ AssignSubnet \/ RemoveFinalizer
  PROVE  HistoryInvariant'
<1>1. /\ pc \in {"addFinalizer", "assignSubnet", "removeFinalizer"} /\ Accepted
      /\ pc' = IF pc = "assignSubnet" THEN "exists" ELSE "saveStop"
      /\ cur' = cur /\ view' = Stored(cur, Sent) /\ stat' \in Decoded \cup {stat}
  BY DEF AddFinalizer, AssignSubnet, RemoveFinalizer
<1>2. /\ cur \in Clusters /\ Sent \in Object /\ Post(cur, Sent)
      /\ Sent.status = view.status
  BY <1>1, WorkerWrites DEF Writing, Saving
<1>3. view' = api'[cur] /\ cache' = cache /\ view'.status = view.status
  BY <1>1, <1>2, StoredKeeps DEF Post, TypeOK
<1>4. stat'.phase = "Terminating" => stat.phase = "Terminating" \/ Reported(view)
  <2>1. stat \in Status
    BY DEF TypeOK
  <2> QED
    BY <1>1, <2>1 DEF Decoded, WithPhase, Status, Reported
<1>5. PassInOrder'
  BY <1>1, <1>3, <1>4 DEF HistoryInvariant, PassInOrder, Reported, Providing, Removing
<1> QED
  BY <1>1, <1>5, AcceptedHistory DEF HistoryInvariant, Writing

(* A step of the pass that leaves the API server alone.                    *)
LEMMA LocalHistory ==
  ASSUME TypeOK, ClaimInvariant, HistoryInvariant, pc # "idle", UNCHANGED world,
         \/ pc' = "idle"
         \/ /\ UNCHANGED <<cur, view>>
            /\ stat'.phase \in {stat.phase, "Ready"}
            /\ pc' \in Providing => pc \in Providing
            /\ pc' \notin {"addFinalizer", "pickSubnet", "assignSubnet"}
            /\ pc' \in Removing => pc \in Removing
            /\ pc' = "creating" => kind'[KindName[cur]].st = "partial"
  PROVE  HistoryInvariant'
<1>1. PassInOrder'
  BY IdleHistory DEF HistoryInvariant, PassInOrder, Reported, LetGo, Past, world
<1> QED
  BY <1>1, SameHistory DEF HistoryInvariant

(* The steps of the worker.                                                *)
LEMMA StepHistory ==
  ASSUME TypeOK, ClaimInvariant, HistoryInvariant, Step PROVE HistoryInvariant'
<1>1. CASE AddFinalizer \/ AssignSubnet \/ RemoveFinalizer
  BY <1>1, WriteHistory
<1>2. CASE SaveStatus
  <2>1. pc \in Writing /\ Accepted /\ pc' = "idle"
    BY <1>2 DEF SaveStatus, Writing, Done, Stop, Requeue, Idle
  <2> QED
    BY <2>1, AcceptedHistory, IdleHistory DEF HistoryInvariant
<1>3. CASE PickSubnet
  <2>1. UNCHANGED <<world, kind, cur, stat>> /\ pc = "pickSubnet" /\ pc' = "assignSubnet"
    BY <1>3 DEF PickSubnet
  <2>2. PICK s \in Subnets : view' = [view EXCEPT !.subnet = s]
    BY <1>3 DEF PickSubnet
  <2>3. view'.rv = view.rv /\ view'.status = view.status
    BY <2>2 DEF TypeOK, Object
  <2>4. view.rv = api[cur].rv => api[cur].subnet = NoSubnet
    BY <2>1 DEF ClaimInvariant, ViewCurrent, HistoryInvariant, PassInOrder
  <2>5. PassInOrder'
    BY <2>1, <2>3, <2>4 DEF HistoryInvariant, PassInOrder, Reported, Providing, Removing, world
  <2> QED
    BY <2>1, <2>5, SameHistory DEF HistoryInvariant
<1>4. CASE \/ NoSubnetsAvailable \/ SubnetUnreadable \/ SaveUnchanged
           \/ Rejected \/ Unreachable \/ NotAdmitted
  <2>1. pc # "idle" /\ pc' = "idle" /\ UNCHANGED world
    BY <1>4 DEF NoSubnetsAvailable, SubnetUnreadable, SaveUnchanged, Rejected, Unreachable,
                NotAdmitted, Writing, Saving, Done, Stop, Requeue, Idle, Call
  <2> QED
    BY <2>1, LocalHistory
<1>5. CASE BeginCreate
  <2>1. kind'[KindName[cur]].st = "partial"
    BY <1>5, WorkerTyped DEF BeginCreate, Change, Bare, TypeOK, name
  <2> QED
    BY <1>5, <2>1, LocalHistory DEF BeginCreate, Change, Goto, Providing, Removing
<1>6. CASE \/ EndCreate \/ Install \/ NotReady \/ DeleteCluster \/ NothingLeft
  BY <1>6, LocalHistory DEF EndCreate, Install, NotReady, DeleteCluster, NothingLeft,
     Change, Call, Goto, Providing, Removing
<1>7. CASE Connect \/ MetalLBReady \/ ConfigureSubnet
  <2>1. stat'.phase \in {stat.phase, "Ready"}
    <3>1. stat \in Status
      BY DEF TypeOK
    <3> QED
      BY <1>7, <3>1 DEF Connect, MetalLBReady, ConfigureSubnet, WithCondition, WithPhase, Status
  <2> QED
    BY <1>7, <2>1, LocalHistory DEF Connect, MetalLBReady, ConfigureSubnet,
       Change, Call, Providing, Removing
<1> QED
  BY <1>1, <1>2, <1>3, <1>4, <1>5, <1>6, <1>7 DEF Step

(* The failures, and a restart.                                            *)
LEMMA FailureHistory ==
  ASSUME TypeOK, ClaimInvariant, HistoryInvariant, Failure PROVE HistoryInvariant'
<1>1. CASE AnswerLost
  BY <1>1, AcceptedHistory, IdleHistory DEF AnswerLost, Requeue, Idle, HistoryInvariant
<1>2. CASE CreateFails \/ InstallFails \/ ConfigureFails \/ DeleteFails \/ CallFails
  <2>1. pc # "idle" /\ pc' = "idle" /\ UNCHANGED world
    BY <1>2 DEF CreateFails, InstallFails, ConfigureFails, DeleteFails, CallFails,
                Change, Call, Requeue, Idle
  <2> QED
    BY <2>1, LocalHistory
<1>3. CASE Crash
  <2>1. /\ pc' = "idle" /\ UNCHANGED api /\ cache' = api /\ watch' = <<>>
    BY <1>3 DEF Crash, Idle
  <2>2. \A c \in Clusters : Reported(api[c]) => Past(api[c])
    BY DEF HistoryInvariant, ReportedLate, ClaimInvariant, CopiesFaithful, Faithful
  <2> QED
    BY <2>1, <2>2, IdleHistory
    DEF HistoryInvariant, CopiesLasting, Lasting, ReportedLate, NothingBefore, Past
<1> QED
  BY <1>1, <1>2, <1>3 DEF Failure

(* What an old copy says of the end of a resource stays true, and every    *)
(* pass does what its copy still justifies.                                *)
THEOREM HistoryKept == Spec => []HistoryInvariant
<1>1. Init => HistoryInvariant
  <2> SUFFICES ASSUME Init PROVE HistoryInvariant
    OBVIOUS
  <2>1. \A c \in Clusters : api[c] = NoObject /\ cache[c] = NoObject
    BY DEF Init
  <2> QED
    BY <2>1 DEF Init, HistoryInvariant, CopiesLasting, Lasting, LetGo, Past, Reported,
       ReportedLate, NothingBefore, PassInOrder, Providing, Removing, NoObject, NoStatus
<1>2. TypeOK /\ ClaimInvariant /\ HistoryInvariant /\ [Next]_vars => HistoryInvariant'
  <2> SUFFICES ASSUME TypeOK, ClaimInvariant, HistoryInvariant, [Next]_vars
               PROVE  HistoryInvariant'
    OBVIOUS
  <2>1. ASSUME NEW c \in Clusters, UserActs(c) PROVE HistoryInvariant'
    BY <2>1, UserHistory
  <2>2. CASE Deliver
    BY <2>2, DeliverHistory
  <2>3. ASSUME NEW c \in Clusters, TimerFires(c) \/ Resync(c) PROVE HistoryInvariant'
    <3>1. UNCHANGED <<world, worker, kind>>
      BY <2>3 DEF TimerFires, Resync
    <3> QED
      BY <3>1, SameHistory DEF HistoryInvariant, PassInOrder, LetGo, world, worker
  <2>4. ASSUME NEW c \in Clusters, Take(c) PROVE HistoryInvariant'
    BY <2>4, TakeHistory
  <2>5. CASE Step
    BY <2>5, StepHistory
  <2>6. CASE Failure
    BY <2>6, FailureHistory
  <2>7. ASSUME NEW n \in Names,
               \/ ClusterVanishes(n)
               \/ \E p \in Components : PodProgresses(n, p) \/ PodFails(n, p)
        PROVE  HistoryInvariant'
    <3>1. UNCHANGED <<world, worker>>
      BY <2>7 DEF ClusterVanishes, PodProgresses, PodFails, Host
    <3>2. \A m \in Names : kind[m].st = "partial" => kind'[m].st = "partial"
      BY <2>7 DEF ClusterVanishes, PodProgresses, PodFails, Pod, TypeOK, KindCluster
    <3>3. pc = "creating" => KindName[cur] \in Names
      BY WorkerTyped
    <3> QED
      BY <3>1, <3>2, <3>3, SameHistory DEF HistoryInvariant, PassInOrder, LetGo, world, worker
  <2>8. CASE UNCHANGED vars
    BY <2>8, SameHistory DEF vars, HistoryInvariant, PassInOrder, LetGo, world, worker
  <2> QED
    BY <2>1, <2>2, <2>3, <2>4, <2>5, <2>6, <2>7, <2>8 DEF Next, UserActs
<1> QED
  BY <1>1, <1>2, TypeCorrect, CopiesGuarantee, PTL DEF Spec

-----------------------------------------------------------------------------
(* What the steps do to the API server and to the Docker host.             *)

(* The kind cluster n comes or goes.                                       *)
HostChanges(n) ==
  /\ UNCHANGED api
  /\ \A m \in Names \ {n} : kind'[m].st = kind[m].st
  /\ \/ /\ n = KindName[cur] /\ pc = "exists"
        /\ kind[n].st = "absent" /\ kind'[n].st = "partial"
     \/ /\ n = KindName[cur] /\ pc = "creating"
        /\ kind[n].st = "partial" /\ kind'[n].st \in {"absent", "partial", "running"}
     \/ /\ n = KindName[cur] /\ pc = "delExists"
        /\ kind[n].st # "absent" /\ kind'[n].st \in {"absent", "partial"}
     \/ /\ n \in Losable \ lost /\ lost' = lost \cup {n}
        /\ kind[n].st = "running" /\ kind'[n].st = "absent"

HostStays == \A n \in Names : kind'[n].st = kind[n].st

(* A step is a write of a user or of the worker, changes one kind cluster, *)
(* or leaves everything as far as it is.                                   *)
LEMMA EveryStep ==
  ASSUME TypeOK, ClaimInvariant, HistoryInvariant, [Next]_vars
  PROVE  \/ UNCHANGED api /\ HostStays
         \/ \E c \in Clusters : UserActs(c)
         \/ pc \in Writing /\ Accepted
         \/ \E n \in Names : HostChanges(n)
<1>0. \A n \in Names : kind[n] \in KindCluster
  BY DEF TypeOK
<1>1. ASSUME NEW c \in Clusters, TimerFires(c) \/ Resync(c) \/ Take(c)
      PROVE  UNCHANGED api /\ HostStays
  BY <1>1 DEF TimerFires, Resync, Take, ReconcileMissing, ReconcileUnsupported,
     ReconcileLive, ReconcileDeleting, Reconcile, HostStays, world
<1>2. CASE Deliver
  BY <1>2 DEF Deliver, HostStays
<1>3. CASE AddFinalizer \/ AssignSubnet \/ RemoveFinalizer \/ SaveStatus \/ AnswerLost
  BY <1>3 DEF AddFinalizer, AssignSubnet, RemoveFinalizer, SaveStatus, AnswerLost,
     Writing, Saving
<1>4. CASE \/ PickSubnet \/ NoSubnetsAvailable \/ SubnetUnreadable \/ SaveUnchanged
           \/ Rejected \/ Connect \/ Unreachable \/ NotReady \/ MetalLBReady \/ NotAdmitted
           \/ NothingLeft \/ CallFails
  BY <1>4 DEF PickSubnet, NoSubnetsAvailable, SubnetUnreadable, SaveUnchanged, Rejected,
     Connect, Unreachable, NotReady, MetalLBReady, NotAdmitted, NothingLeft, CallFails,
     Call, HostStays, world
<1>5. CASE Install \/ InstallFails \/ ConfigureSubnet \/ ConfigureFails
  <2>1. pc # "idle" /\ UNCHANGED api
    BY <1>5 DEF Install, InstallFails, ConfigureSubnet, ConfigureFails, Change, world
  <2>2. PICK k \in KindCluster : k.st = host.st /\ Change(k)
    <3>1. host \in KindCluster
      BY <2>1, WorkerTyped DEF host, name, TypeOK
    <3>2. \A objs : Applied(objs) \in KindCluster /\ Applied(objs).st = host.st
      BY <2>1, <3>1, AppliedType DEF Applied, KindCluster
    <3>3. /\ [host EXCEPT !.pool = view.subnet, !.adv = TRUE].st = host.st
          /\ [host EXCEPT !.pool = view.subnet].st = host.st
          /\ [host EXCEPT !.adv = TRUE].st = host.st
      BY <3>1 DEF KindCluster
    <3> QED
      BY <1>5, <2>1, <3>2, <3>3, PoolType
      DEF Install, InstallFails, ConfigureSubnet, ConfigureFails
  <2> QED
    BY <2>1, <2>2, WorkerTyped DEF Change, HostStays, TypeOK, name, host
<1>6. ASSUME pc # "idle", NEW s \in {"absent", "partial", "running"}, Change(Bare(s))
      PROVE  /\ UNCHANGED api /\ KindName[cur] \in Names /\ kind'[KindName[cur]].st = s
             /\ \A m \in Names \ {KindName[cur]} : kind'[m].st = kind[m].st
  BY <1>6, WorkerTyped DEF Change, Bare, TypeOK, name, world
<1>7. CASE BeginCreate
  <2>1. HostChanges(KindName[cur])
    BY <1>6, <1>7 DEF BeginCreate, HostChanges, host, name
  <2> QED
    BY <1>7, <2>1, WorkerTyped DEF BeginCreate
<1>8. CASE EndCreate \/ CreateFails
  <2>1. pc = "creating" /\ kind[KindName[cur]].st = "partial"
    BY <1>8 DEF EndCreate, CreateFails, HistoryInvariant, PassInOrder
  <2>2. PICK s \in {"absent", "partial", "running"} : Change(Bare(s))
    BY <1>8 DEF EndCreate, CreateFails
  <2>3. HostChanges(KindName[cur])
    BY <1>6, <2>1, <2>2 DEF HostChanges
  <2> QED
    BY <2>1, <2>3, WorkerTyped
<1>9. CASE DeleteCluster \/ DeleteFails
  <2>1. pc = "delExists" /\ kind[KindName[cur]].st # "absent"
    BY <1>9 DEF DeleteCluster, DeleteFails, host, name
  <2>2. PICK s \in {"absent", "partial"} : Change(Bare(s))
    BY <1>9 DEF DeleteCluster, DeleteFails
  <2>3. HostChanges(KindName[cur])
    BY <1>6, <2>1, <2>2 DEF HostChanges
  <2> QED
    BY <2>1, <2>3, WorkerTyped
<1>10. CASE Crash
  <2>1. CASE UNCHANGED kind
    BY <1>10, <2>1 DEF Crash, HostStays
  <2>2. CASE pc = "creating" /\ kind' = [kind EXCEPT ![name] = Bare("running")]
    <3>1. KindName[cur] \in Names /\ kind[KindName[cur]].st = "partial"
      BY <2>2, WorkerTyped DEF HistoryInvariant, PassInOrder
    <3>2. HostChanges(KindName[cur])
      BY <1>10, <2>2, <3>1 DEF Crash, HostChanges, Bare, TypeOK, name
    <3> QED
      BY <3>1, <3>2
  <2> QED
    BY <1>10, <2>1, <2>2 DEF Crash
<1>11. ASSUME NEW n \in Names, ClusterVanishes(n) PROVE HostChanges(n)
  BY <1>11 DEF ClusterVanishes, Host, HostChanges, Bare, TypeOK, world
<1>12. ASSUME NEW n \in Names, NEW p \in Components, PodProgresses(n, p) \/ PodFails(n, p)
       PROVE  UNCHANGED api /\ HostStays
  BY <1>0, <1>12 DEF PodProgresses, PodFails, Pod, Host, HostStays, KindCluster, TypeOK, world
<1>13. CASE UNCHANGED vars
  BY <1>13 DEF vars, world, HostStays
<1> QED
  BY <1>1, <1>2, <1>3, <1>4, <1>5, <1>7, <1>8, <1>9, <1>10, <1>11, <1>12, <1>13
  DEF Next, Step, Failure, UserActs

-----------------------------------------------------------------------------
(* The order of a resource's life.                                         *)

(* Only a resource without a subnet is given one.                          *)
LEMMA SubnetStays ==
  ASSUME TypeOK, ClaimInvariant, HistoryInvariant, [Next]_vars,
         NEW c \in Clusters, api[c].subnet # NoSubnet
  PROVE  api'[c].subnet = api[c].subnet
<1>1. ASSUME NEW d \in Clusters, NEW o \in Object, Post(d, o),
             o.subnet = api[d].subnet \/ api[d].subnet = NoSubnet
      PROVE  api'[c].subnet = api[c].subnet
  BY <1>1, StoredKeeps DEF Post, TypeOK
<1>2. ASSUME NEW d \in Clusters, UserActs(d) PROVE api'[c].subnet = api[c].subnet
  <2>1. PICK o \in Object : User(d, o) /\ (o.subnet = api[d].subnet \/ api[d] = NoObject)
    BY <1>2, UserWrites
  <2> QED
    BY <1>1, <2>1 DEF User, NoObject
<1>3. CASE pc \in Writing /\ Accepted
  BY <1>1, <1>3, WorkerWrites
<1>4. CASE UNCHANGED api
  BY <1>4
<1> QED
  BY <1>2, <1>3, <1>4, EveryStep DEF HostChanges

(* The subnet of a resource is never changed once it is stored: an old     *)
(* copy that would change it is rejected.                                  *)
THEOREM SubnetsStick == Spec => SubnetSticky
<1>1. TypeOK /\ ClaimInvariant /\ HistoryInvariant /\ [Next]_vars =>
        [\A c \in Clusters : api[c].subnet # NoSubnet => api'[c].subnet = api[c].subnet]_vars
  BY SubnetStays
<1> QED
  BY <1>1, TypeCorrect, CopiesGuarantee, HistoryKept, PTL DEF Spec, SubnetSticky

(* A kind cluster is not created again after its resource was reported as  *)
(* Terminating: one worker works for a resource, and by then its cache no  *)
(* longer shows it as live.                                                *)
THEOREM NeverRecreated == Spec => NoRecreation
<1> DEFINE Good == \A c \in Clusters :
             /\ Exclusive(c)
             /\ kind[KindName[c]].st = "absent" /\ kind'[KindName[c]].st # "absent"
             => api[c].status.phase # "Terminating"
<1>1. TypeOK /\ ClaimInvariant /\ HistoryInvariant /\ [Next]_vars => [Good]_vars
  <2> SUFFICES ASSUME TypeOK, ClaimInvariant, HistoryInvariant, [Next]_vars,
                      NEW c \in Clusters, Exclusive(c),
                      kind[KindName[c]].st = "absent", kind'[KindName[c]].st # "absent"
               PROVE  ~Reported(api[c])
    BY DEF Reported
  <2>1. KindName[c] \in Names
    BY NamesAssumption
  <2>2. PICK n \in Names : HostChanges(n)
    <3>1. ASSUME NEW d \in Clusters, UserActs(d) PROVE UNCHANGED kind
      BY <3>1 DEF UserActs, CreateResource, DeleteResource, HoldForeign, ReleaseForeign, User
    <3>2. Accepted => UNCHANGED kind
      BY DEF Accepted
    <3> QED
      BY <2>1, <3>1, <3>2, EveryStep DEF HostStays
  <2>3. n = KindName[c]
    BY <2>1, <2>2 DEF HostChanges
  <2>4. pc = "exists" /\ n = KindName[cur]
    BY <2>2, <2>3 DEF HostChanges
  <2>5. cur = c
    BY <2>3, <2>4, WorkerTyped DEF Exclusive
  <2> QED
    BY <2>4, <2>5 DEF HistoryInvariant, PassInOrder, Providing
<1> QED
  BY <1>1, TypeCorrect, CopiesGuarantee, HistoryKept, PTL DEF Spec, NoRecreation

(* A kind cluster that runs is taken away only from a resource that is     *)
(* being deleted and that nobody else holds, however old the copy was that *)
(* the pass has started with.                                              *)
THEOREM OnlyDeletedOnRelease == Spec => DeletedOnRelease
<1> DEFINE Good == \A c \in Clusters :
             Exclusive(c) /\ lost' = lost
             /\ kind[KindName[c]].st = "running" /\ kind'[KindName[c]].st # "running"
             => api[c].st = "deleting" /\ api[c].foreign # "held"
<1>1. TypeOK /\ ClaimInvariant /\ HistoryInvariant /\ [Next]_vars => [Good]_vars
  <2> SUFFICES ASSUME TypeOK, ClaimInvariant, HistoryInvariant, [Next]_vars,
                      NEW c \in Clusters, Exclusive(c), lost' = lost,
                      kind[KindName[c]].st = "running", kind'[KindName[c]].st # "running"
               PROVE  api[c].st = "deleting" /\ api[c].foreign # "held"
    OBVIOUS
  <2>1. KindName[c] \in Names
    BY NamesAssumption
  <2>2. PICK n \in Names : HostChanges(n)
    <3>1. ASSUME NEW d \in Clusters, UserActs(d) PROVE UNCHANGED kind
      BY <3>1 DEF UserActs, CreateResource, DeleteResource, HoldForeign, ReleaseForeign, User
    <3>2. Accepted => UNCHANGED kind
      BY DEF Accepted
    <3> QED
      BY <2>1, <3>1, <3>2, EveryStep DEF HostStays
  <2>3. n = KindName[c]
    BY <2>1, <2>2 DEF HostChanges
  <2>4. pc = "delExists" /\ n = KindName[cur]
    BY <2>2, <2>3 DEF HostChanges
  <2>5. cur = c
    BY <2>3, <2>4, WorkerTyped DEF Exclusive
  <2>6. LetGo(api[c])
    BY <2>4, <2>5 DEF HistoryInvariant, PassInOrder, Removing
  <2>7. Exists(api[c])
    BY <2>1 DEF ClaimInvariant, NoOrphanKind, Exclusive
  <2> QED
    BY <2>6, <2>7 DEF LetGo, Past, Exists
<1> QED
  BY <1>1, TypeCorrect, CopiesGuarantee, HistoryKept, PTL DEF Spec, DeletedOnRelease

-----------------------------------------------------------------------------
(* Refinement.                                                             *)

(* The claim of one resource changes.                                      *)
LEMMA ClaimMoves ==
  ASSUME NEW c \in Clusters, HostStays, KindName \in [Clusters -> Names],
         \A d \in Clusters : d # c => ClaimOn(api'[d]) = ClaimOn(api[d]),
         \/ ClaimOn(api'[c]) = ClaimOn(api[c])
         \/ ClaimOn(api[c]) = "none" /\ ClaimOn(api'[c]) \in {"held", "released"}
         \/ ClaimOn(api[c]) = "held" /\ ClaimOn(api'[c]) = "leaving"
         \/ /\ ClaimOn(api[c]) = "leaving" /\ ClaimOn(api'[c]) = "released"
            /\ kind[KindName[c]].st = "absent"
  PROVE  [Lifecycle!Next]_Lifecycle!lifecycle
<1> DEFINE claim == [d \in Clusters |-> ClaimOn(api[d])]
           claimN == [d \in Clusters |-> ClaimOn(api'[d])]
           hosts == [d \in Clusters |-> kind[KindName[d]].st]
           hostsN == [d \in Clusters |-> kind'[KindName[d]].st]
<1>1. hostsN = hosts
  BY DEF HostStays
<1>2. claimN = [claim EXCEPT ![c] = ClaimOn(api'[c])]
  OBVIOUS
<1>3. claim[c] = ClaimOn(api[c]) /\ hosts[c] = kind[KindName[c]].st
  OBVIOUS
<1>4. CASE ClaimOn(api'[c]) = ClaimOn(api[c])
  <2>1. claimN = claim
    BY <1>4
  <2> QED
    BY <1>1, <2>1 DEF Lifecycle!lifecycle
<1>5. ASSUME NEW from, NEW to, claim[c] = from, ClaimOn(api'[c]) = to
      PROVE  Lifecycle!Move(c, from, to)
  BY <1>1, <1>2, <1>5 DEF Lifecycle!Move
<1>6. CASE ClaimOn(api[c]) = "none" /\ ClaimOn(api'[c]) \in {"held", "released"}
  BY <1>3, <1>5, <1>6 DEF Lifecycle!Next, Lifecycle!Claim, Lifecycle!Decline
<1>7. CASE ClaimOn(api[c]) = "held" /\ ClaimOn(api'[c]) = "leaving"
  BY <1>3, <1>5, <1>7 DEF Lifecycle!Next, Lifecycle!Leave
<1>8. CASE /\ ClaimOn(api[c]) = "leaving" /\ ClaimOn(api'[c]) = "released"
           /\ kind[KindName[c]].st = "absent"
  BY <1>3, <1>5, <1>8 DEF Lifecycle!Next, Lifecycle!Release
<1> QED
  BY <1>4, <1>6, <1>7, <1>8

(* What a write does to the claim.                                         *)
LEMMA PostMoves ==
  ASSUME TypeOK, NEW c \in Clusters, NEW o \in Object, Post(c, o), UNCHANGED kind,
         LET s == Stored(c, o)
         IN \/ ClaimOn(s) = ClaimOn(api[c])
            \/ ClaimOn(api[c]) = "none" /\ ClaimOn(s) \in {"held", "released"}
            \/ ClaimOn(api[c]) = "held" /\ ClaimOn(s) = "leaving"
            \/ /\ ClaimOn(api[c]) = "leaving" /\ ClaimOn(s) = "released"
               /\ kind[KindName[c]].st = "absent"
  PROVE  [Lifecycle!Next]_Lifecycle!lifecycle
<1>1. /\ api'[c] = Stored(c, o) /\ HostStays
      /\ \A d \in Clusters : d # c => api'[d] = api[d]
  BY DEF Post, TypeOK, HostStays
<1> QED
  BY <1>1, ClaimMoves, NamesAssumption

(* Users claim, decline and leave; they never release.                     *)
LEMMA UserMoves ==
  ASSUME TypeOK, HistoryInvariant, NEW c \in Clusters, UserActs(c)
  PROVE  [Lifecycle!Next]_Lifecycle!lifecycle
<1>1. PICK o \in Object :
        /\ User(c, o) /\ o.fin = api[c].fin
        /\ \/ api[c] = NoObject /\ o.st = "live"
           \/ api[c].st = "live" /\ o.st = "deleting" /\ o.foreign = api[c].foreign
           \/ api[c].st = "live" /\ o.st = "live"
           \/ api[c].st = "deleting" /\ o.st = "deleting"
              /\ api[c].foreign = "held" /\ o.foreign = "released"
  BY UserWrites
<1>2. Post(c, o) /\ UNCHANGED kind
  BY <1>1 DEF User
<1>3. PICK s : s = Stored(c, o)
  OBVIOUS
<1>4. /\ s.fin = o.fin /\ s.foreign = o.foreign
      /\ s.st = o.st \/ (o.st = "deleting" /\ s.st = "gone" /\ ~o.fin)
  BY <1>3, StoredKeeps
<1>5. api[c].fin \in BOOLEAN
  BY DEF TypeOK, Object
<1>6. \/ ClaimOn(s) = ClaimOn(api[c])
      \/ ClaimOn(api[c]) = "none" /\ ClaimOn(s) \in {"held", "released"}
      \/ ClaimOn(api[c]) = "held" /\ ClaimOn(s) = "leaving"
  <2>1. CASE api[c] = NoObject /\ o.st = "live"
    BY <1>1, <1>4, <2>1 DEF ClaimOn, Exists, NoObject
  <2>2. CASE api[c].st = "live" /\ o.st = "deleting" /\ o.foreign = api[c].foreign
    BY <1>1, <1>4, <1>5, <2>2 DEF ClaimOn, Exists
  <2>3. CASE api[c].st = "live" /\ o.st = "live"
    BY <1>1, <1>4, <1>5, <2>3 DEF ClaimOn, Exists
  <2>4. CASE api[c].st = "deleting" /\ o.st = "deleting"
             /\ api[c].foreign = "held" /\ o.foreign = "released"
    BY <1>1, <1>4, <1>5, <2>4 DEF ClaimOn, Exists
  <2> QED
    BY <1>1, <2>1, <2>2, <2>3, <2>4
<1> QED
  BY <1>2, <1>3, <1>6, PostMoves

(* The worker claims what is live, and releases what was let go and has no *)
(* kind cluster any more.                                                  *)
LEMMA WorkerMoves ==
  ASSUME TypeOK, ClaimInvariant, HistoryInvariant, pc \in Writing, Accepted
  PROVE  [Lifecycle!Next]_Lifecycle!lifecycle
<1>1. PICK c \in Clusters : c = cur
  BY WorkerWrites
<1>2. PICK o \in Object : o = Sent
  BY WorkerWrites
<1>3. /\ Post(c, o) /\ UNCHANGED kind
      /\ Exists(api[c]) /\ o.st = api[c].st /\ o.foreign = api[c].foreign
      /\ o.fin = IF pc = "addFinalizer" THEN TRUE
                 ELSE IF pc = "removeFinalizer" THEN FALSE ELSE api[c].fin
      /\ pc = "addFinalizer" => api[c].st = "live"
  BY <1>1, <1>2, WorkerWrites
<1>4. PICK s : s = Stored(c, o)
  OBVIOUS
<1>5. /\ s.fin = o.fin /\ s.foreign = o.foreign
      /\ s.st = o.st \/ (o.st = "deleting" /\ s.st = "gone" /\ ~o.fin)
  BY <1>3, <1>4, StoredKeeps DEF Exists
<1>6. api[c].fin \in BOOLEAN
  BY DEF TypeOK, Object
<1>7. CASE pc = "addFinalizer"
  <2>1. ClaimOn(s) = "held" /\ ClaimOn(api[c]) \in {"none", "held"}
    BY <1>3, <1>5, <1>6, <1>7 DEF ClaimOn, Exists
  <2> QED
    BY <1>3, <1>4, <2>1, PostMoves
<1>8. CASE pc = "removeFinalizer"
  <2>1. api[c].st = "deleting" /\ api[c].foreign # "held"
    BY <1>1, <1>3, <1>8 DEF HistoryInvariant, PassInOrder, Removing, LetGo, Past, Exists
  <2>2. kind[KindName[c]].st = "absent"
    BY <1>1, <1>8 DEF ClaimInvariant, WorkJustified
  <2>3. ClaimOn(s) = "released" /\ ClaimOn(api[c]) \in {"leaving", "released"}
    BY <1>3, <1>5, <1>6, <1>8, <2>1 DEF ClaimOn, Exists
  <2> QED
    BY <1>3, <1>4, <2>2, <2>3, PostMoves
<1>9. CASE pc \notin {"addFinalizer", "removeFinalizer"}
  <2>1. ClaimOn(s) = ClaimOn(api[c])
    BY <1>3, <1>5, <1>6, <1>9 DEF ClaimOn, Exists
  <2> QED
    BY <1>3, <1>4, <2>1, PostMoves
<1> QED
  BY <1>7, <1>8, <1>9

(* Every resource has a kind cluster of its own.                           *)
OwnKindCluster == \A c, d \in Clusters : KindName[c] = KindName[d] => c = d

(* A kind cluster comes only under the claim of its resource, and goes     *)
(* only when the resource is let go, fails to come, or vanishes.           *)
LEMMA HostMoves ==
  ASSUME TypeOK, ClaimInvariant, HistoryInvariant, OwnKindCluster,
         NEW n \in Names, HostChanges(n)
  PROVE  [Lifecycle!Next]_Lifecycle!lifecycle
<1> DEFINE claim == [d \in Clusters |-> ClaimOn(api[d])]
           claimN == [d \in Clusters |-> ClaimOn(api'[d])]
           hosts == [d \in Clusters |-> kind[KindName[d]].st]
           hostsN == [d \in Clusters |-> kind'[KindName[d]].st]
<1>1. claimN = claim
  BY DEF HostChanges
<1>2. \A m \in Names : m # n => kind'[m].st = kind[m].st
  BY DEF HostChanges
<1>3. \A d \in Clusters : KindName[d] \in Names
  BY NamesAssumption
<1>4. CASE \A d \in Clusters : KindName[d] # n
  <2>1. hostsN = hosts
    BY <1>2, <1>3, <1>4
  <2> QED
    BY <1>1, <2>1 DEF Lifecycle!lifecycle
<1>5. CASE \E d \in Clusters : KindName[d] = n
  <2>1. PICK c \in Clusters : KindName[c] = n
    BY <1>5
  <2>2. \A d \in Clusters : d # c => KindName[d] # n
    BY <2>1 DEF OwnKindCluster
  <2>3. hostsN = [hosts EXCEPT ![c] = kind'[n].st] /\ hosts[c] = kind[n].st
    BY <1>2, <1>3, <2>1, <2>2
  <2>4. ASSUME NEW from, NEW to, kind[n].st = from, kind'[n].st = to
        PROVE  Lifecycle!Turn(c, from, to)
    BY <1>1, <2>3, <2>4 DEF Lifecycle!Turn
  <2>5. CASE kind'[n].st = kind[n].st
    <3>1. hostsN = hosts
      BY <2>3, <2>5
    <3> QED
      BY <1>1, <3>1 DEF Lifecycle!lifecycle
  <2>6. pc \in {"exists", "creating", "delExists"} /\ KindName[cur] = n => cur = c
    BY <2>1, WorkerTyped DEF OwnKindCluster
  <2>7. Claimed(c) => claim[c] \in Lifecycle!Held
    BY DEF Claimed, ClaimOn, Exists, Lifecycle!Held
  <2>8. CASE /\ n = KindName[cur] /\ pc = "exists"
             /\ kind[n].st = "absent" /\ kind'[n].st = "partial"
    <3>1. Claimed(c)
      BY <2>6, <2>8 DEF ClaimInvariant, WorkJustified, Providing
    <3> QED
      BY <2>4, <2>7, <2>8, <3>1 DEF Lifecycle!Next, Lifecycle!Provision
  <2>9. CASE /\ n = KindName[cur] /\ pc = "creating"
             /\ kind[n].st = "partial" /\ kind'[n].st \in {"absent", "partial", "running"}
    <3>1. Claimed(c)
      BY <2>6, <2>9 DEF ClaimInvariant, WorkJustified, Providing
    <3> QED
      BY <2>4, <2>5, <2>7, <2>9, <3>1 DEF Lifecycle!Next, Lifecycle!Provision
  <2>10. CASE /\ n = KindName[cur] /\ pc = "delExists"
              /\ kind[n].st # "absent" /\ kind'[n].st \in {"absent", "partial"}
    <3>1. LetGo(api[c])
      BY <2>6, <2>10 DEF HistoryInvariant, PassInOrder, Removing
    <3>2. Claimed(c)
      BY <2>1, <2>10 DEF ClaimInvariant, NoOrphanKind, OwnKindCluster, Claimed
    <3>3. claim[c] = "leaving"
      BY <3>1, <3>2 DEF LetGo, Past, Claimed, Exists, ClaimOn
    <3>4. kind[n].st \in {"partial", "running"}
      BY <2>10 DEF TypeOK, KindCluster
    <3> QED
      BY <2>4, <2>5, <2>10, <3>3, <3>4 DEF Lifecycle!Next, Lifecycle!TearDown
  <2>11. CASE n \in Losable /\ kind[n].st = "running" /\ kind'[n].st = "absent"
    BY <2>1, <2>4, <2>11 DEF Lifecycle!Next, Lifecycle!Vanish
  <2> QED
    BY <2>8, <2>9, <2>10, <2>11 DEF HostChanges
<1> QED
  BY <1>4, <1>5

(* Every behaviour of the controller, with its stale reads, lost answers   *)
(* and restarts, is one ClusterLifecycle allows, if no two resources name  *)
(* the same kind cluster.                                                  *)
THEOREM ControllerImplementsLifecycle ==
  ASSUME OwnKindCluster PROVE Spec => ImplementsLifecycle
<1>1. Init => Lifecycle!Init
  <2> SUFFICES ASSUME Init PROVE Lifecycle!Init
    OBVIOUS
  <2>1. \A c \in Clusters : ClaimOn(api[c]) = "none"
    BY DEF Init, NoObject, ClaimOn, Exists
  <2>2. \A c \in Clusters : kind[KindName[c]].st = "absent"
    BY NamesAssumption DEF Init, Bare
  <2> QED
    BY <2>1, <2>2 DEF Lifecycle!Init
<1>2. TypeOK /\ ClaimInvariant /\ HistoryInvariant /\ [Next]_vars =>
        [Lifecycle!Next]_Lifecycle!lifecycle
  <2> SUFFICES ASSUME TypeOK, ClaimInvariant, HistoryInvariant, [Next]_vars
               PROVE  [Lifecycle!Next]_Lifecycle!lifecycle
    OBVIOUS
  <2>1. CASE UNCHANGED api /\ HostStays
    <3>1. \A c \in Clusters : kind'[KindName[c]].st = kind[KindName[c]].st
      BY <2>1, NamesAssumption DEF HostStays
    <3> QED
      BY <2>1, <3>1 DEF Lifecycle!lifecycle
  <2>2. ASSUME NEW c \in Clusters, UserActs(c) PROVE [Lifecycle!Next]_Lifecycle!lifecycle
    BY <2>2, UserMoves
  <2>3. CASE pc \in Writing /\ Accepted
    BY <2>3, WorkerMoves
  <2>4. ASSUME NEW n \in Names, HostChanges(n) PROVE [Lifecycle!Next]_Lifecycle!lifecycle
    BY <2>4, HostMoves
  <2> QED
    BY <2>1, <2>2, <2>3, <2>4, EveryStep
<1> QED
  BY <1>1, <1>2, TypeCorrect, CopiesGuarantee, HistoryKept, PTL
  DEF Spec, ImplementsLifecycle, Lifecycle!Spec

=============================================================================
