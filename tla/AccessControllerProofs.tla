------------------------ MODULE AccessControllerProofs ------------------------
(***************************************************************************)
(* Type correctness of the access request controller; that it leaves       *)
(* nothing on the kind cluster, forgets and loses nothing, and implements  *)
(* AccessLifecycle; for any permissions, bounds and edits, on a kind       *)
(* cluster that comes and goes as ClusterLifecycle allows.                 *)
(***************************************************************************)
EXTENDS AccessInvariant, AccessRefinement, TLAPS

-----------------------------------------------------------------------------
(* Type correctness.                                                       *)

(* What is there before anything is created is of the right type.          *)
LEMMA NothingTyped ==
  /\ NoStatus \in Status /\ NoRequest \in Request /\ NoSecret \in Secrets
  /\ 0 \in Incarnations /\ Nothing \in [account : BOOLEAN, perms : SUBSET Perms]
<1>1. 0 \in Incarnations
  BY BoundsAssumption DEF Incarnations
<1>2. NoStatus \in Status
  BY DEF NoStatus, Status
<1> QED
  BY <1>1, <1>2 DEF NoRequest, Request, NoSecret, Secrets, Nothing

(* The API server stores a request and publishes it, or neither.           *)
LEMMA PostType ==
  ASSUME TypeOK, NEW o \in Request, Post(o)
  PROVE  api' \in Request /\ watch' \in Seq(Request)
<1>1. Settled(o) \in Request
  BY DEF Settled, Request
<1> QED
  BY <1>1 DEF Post, TypeOK

(* The kind cluster moves as ClusterLifecycle allows.                      *)
LEMMA LifecycleType ==
  ASSUME TypeOK, Lifecycle!Next
  PROVE  Lifecycle!TypeInvariant'
<1>1. PICK c \in {Cluster} :
        \/ Lifecycle!Claim(c) \/ Lifecycle!Decline(c) \/ Lifecycle!Leave(c)
        \/ Lifecycle!Release(c) \/ Lifecycle!Provision(c) \/ Lifecycle!TearDown(c)
        \/ Lifecycle!Vanish(c)
  BY DEF Lifecycle!Next
<1>2. Lifecycle!TypeInvariant
  BY DEF TypeOK
<1>3. ASSUME NEW from, NEW to \in {"none", "released", "held", "leaving"},
             Lifecycle!Move(c, from, to)
      PROVE  Lifecycle!TypeInvariant'
  BY <1>2, <1>3 DEF Lifecycle!Move, Lifecycle!TypeInvariant, Lifecycle!Held
<1>4. ASSUME NEW from, NEW to \in {"absent", "partial", "running"},
             Lifecycle!Turn(c, from, to)
      PROVE  Lifecycle!TypeInvariant'
  BY <1>2, <1>4 DEF Lifecycle!Turn, Lifecycle!TypeInvariant
<1>5. CASE Lifecycle!Claim(c) \/ Lifecycle!Decline(c) \/ Lifecycle!Leave(c)
           \/ Lifecycle!Release(c)
  BY <1>3, <1>5 DEF Lifecycle!Claim, Lifecycle!Decline, Lifecycle!Leave, Lifecycle!Release
<1>6. CASE Lifecycle!Provision(c) \/ Lifecycle!TearDown(c) \/ Lifecycle!Vanish(c)
  BY <1>4, <1>6 DEF Lifecycle!Provision, Lifecycle!TearDown, Lifecycle!Vanish
<1> QED
  BY <1>1, <1>5, <1>6

(* The incarnations that are counted are within their bound.               *)
Counted == incarnation <= edits + 1

(* It is kept as long as no kind cluster comes.                            *)
LEMMA CountKept ==
  ASSUME TypeOK, Counted, UNCHANGED edits \/ Edit, UNCHANGED incarnation
  PROVE  edits' \in 0..MaxEdits /\ Counted'
<1>1. edits \in 0..MaxEdits /\ MaxEdits \in Nat /\ incarnation \in Int
  BY BoundsAssumption DEF TypeOK, Incarnations
<1> QED
  BY <1>1 DEF Counted, Edit

(* Users change the request.                                               *)
LEMMA UserType ==
  ASSUME TypeOK, Counted, CreateRequest \/ BindRequest \/ EditRequest \/ DeleteRequest
  PROVE  TypeOK' /\ Counted'
<1>1. PICK o \in Request : User(o)
  <2>1. api \in Request /\ Bound \in BOOLEAN /\ api.gen + 1 \in Nat
    <3>1. api.gen \in Nat
      BY DEF TypeOK, Request
    <3> QED
      BY <3>1, SwitchesAssumption DEF TypeOK
  <2>2. CASE CreateRequest
    <3>1. PICK a \in Asks, w \in SUBSET Perms :
            User([api EXCEPT !.st = "live", !.bound = Bound, !.ask = a, !.want = w, !.gen = 1])
      BY <2>2 DEF CreateRequest
    <3>2. a \in {"token", "oidc"}
      BY AsksAssumption
    <3>3. [api EXCEPT !.st = "live", !.bound = Bound, !.ask = a, !.want = w, !.gen = 1]
            \in Request
      BY <2>1, <3>2 DEF Request
    <3> QED
      BY <3>1, <3>3
  <2>3. CASE BindRequest
    <3>1. [api EXCEPT !.bound = TRUE, !.gen = api.gen + 1] \in Request
      BY <2>1 DEF Request
    <3>2. User([api EXCEPT !.bound = TRUE, !.gen = api.gen + 1])
      BY <2>3 DEF BindRequest
    <3> QED
      BY <3>1, <3>2
  <2>4. CASE EditRequest
    <3>1. PICK w \in SUBSET Perms : User([api EXCEPT !.want = w, !.gen = api.gen + 1])
      BY <2>4 DEF EditRequest
    <3>2. [api EXCEPT !.want = w, !.gen = api.gen + 1] \in Request
      BY <2>1 DEF Request
    <3> QED
      BY <3>1, <3>2
  <2>5. CASE DeleteRequest
    <3>1. [api EXCEPT !.st = "deleting", !.gen = api.gen + 1] \in Request
      BY <2>1 DEF Request
    <3>2. User([api EXCEPT !.st = "deleting", !.gen = api.gen + 1])
      BY <2>5 DEF DeleteRequest
    <3> QED
      BY <3>1, <3>2
  <2> QED
    BY <2>2, <2>3, <2>4, <2>5
<1>2. api' \in Request /\ watch' \in Seq(Request)
  BY <1>1, PostType DEF User
<1>3. UNCHANGED edits \/ Edit
  BY DEF CreateRequest, BindRequest, EditRequest, DeleteRequest
<1>4. UNCHANGED incarnation
  BY <1>1 DEF User, environment
<1> QED
  BY <1>1, <1>2, <1>3, <1>4, CountKept
  DEF User, TypeOK, environment, schedule, Lifecycle!TypeInvariant

(* The Secrets, informers and timers.                                      *)
LEMMA AroundType ==
  ASSUME TypeOK, Counted,
         \/ DeleteSecret \/ CollectSecret \/ Deliver \/ DeliverSecret \/ Resync \/ TokenAges
         \/ \E t \in {"retry", "renewal"} : TimerFires(t)
  PROVE  TypeOK' /\ Counted'
<1>1. /\ UNCHANGED <<environment, granted, worker, faults, crashes>>
      /\ UNCHANGED edits \/ Edit
  BY DEF DeleteSecret, CollectSecret, Deliver, DeliverSecret, Resync,
     TokenAges, TimerFires, budget
<1>2. api' \in Request /\ cache' \in Request /\ watch' \in Seq(Request)
  BY DEF DeleteSecret, CollectSecret, Deliver, DeliverSecret, Resync, TokenAges, TimerFires,
     TypeOK, platform
<1>3. secret' \in Secrets /\ seen' \in Secrets
  BY NothingTyped DEF DeleteSecret, CollectSecret, Deliver, DeliverSecret, Resync, TokenAges,
     TimerFires, TypeOK, platform, Secrets
<1>4. queued' \in BOOLEAN /\ timers' \subseteq {"retry", "renewal"}
  BY DEF DeleteSecret, CollectSecret, Deliver, DeliverSecret, Resync, TokenAges, TimerFires,
     TypeOK, schedule
<1> QED
  BY <1>1, <1>2, <1>3, <1>4, CountKept
  DEF TypeOK, environment, worker, copies, Lifecycle!TypeInvariant

(* A kind cluster that comes is the next incarnation.                      *)
LEMMA HostType ==
  ASSUME TypeOK, Counted, HostMoves
  PROVE  TypeOK' /\ Counted'
<1>1. Lifecycle!TypeInvariant'
  BY LifecycleType DEF HostMoves
<1>2. /\ edits' \in 0..MaxEdits /\ edits' >= edits
      /\ incarnation' \in Incarnations /\ Counted'
  <2>1. \/ UNCHANGED <<incarnation, edits>>
        \/ incarnation = 0 /\ incarnation' = 1 /\ UNCHANGED edits
        \/ incarnation' = incarnation + 1 /\ Edit
    BY DEF HostMoves
  <2> QED
    BY <2>1, BoundsAssumption DEF TypeOK, Counted, Edit, Incarnations
<1>3. granted' \in [account : BOOLEAN, perms : SUBSET Perms]
  BY NothingTyped DEF HostMoves, TypeOK
<1> QED
  BY <1>1, <1>2, <1>3 DEF HostMoves, TypeOK, platform, schedule, worker, copies, Incarnations

(* The worker takes the key.                                               *)
LEMMA TakeType ==
  ASSUME TypeOK, Counted, Take
  PROVE  TypeOK' /\ Counted'
<1>1. CASE ReconcileMissing
  BY <1>1 DEF ReconcileMissing, Dequeue, Outside, TypeOK, Counted, PCs, environment, platform,
     budget, copies, Lifecycle!TypeInvariant, Incarnations
<1>2. CASE ReconcileUnresolved \/ ReconcileDeleting \/ ReconcileLive
  <2>1. PICK label \in PCs : Reconcile(label)
    BY <1>2 DEF ReconcileUnresolved, ReconcileDeleting, ReconcileLive, PCs
  <2>2. cache.status \in Status
    BY DEF TypeOK, Request
  <2> QED
    BY <2>1, <2>2 DEF Reconcile, Dequeue, Outside, TypeOK, Counted, environment, platform,
       budget, Lifecycle!TypeInvariant, Incarnations
<1> QED
  BY <1>1, <1>2 DEF Take

(* What the worker sends, and its result.                                  *)
LEMMA SentType ==
  ASSUME TypeOK
  PROVE  /\ pc \in Updating => Sent \in Request
         /\ Result \in Status /\ Merged \in Status
         /\ [api EXCEPT !.status = Merged] \in Request
<1>1. view \in Request /\ api \in Request /\ was \in Status
  BY DEF TypeOK
<1>2. pc \in Updating => Sent \in Request
  BY <1>1 DEF Sent, Updating, Request
<1>3. Result \in Status
  BY <1>1 DEF Result, Status, Request
<1>4. Merged \in Status
  BY <1>1, <1>3 DEF Merged, Merge, Status, Request
<1> QED
  BY <1>1, <1>2, <1>3, <1>4 DEF Request

(* The end of a pass.                                                      *)
LEMMA FinishType ==
  ASSUME TypeOK, NEW ts \in SUBSET {"retry", "renewal"}, Finish(ts)
  PROVE  /\ pc' \in PCs /\ conn' \in Incarnations /\ view' \in Request /\ was' \in Status
         /\ current' \in BOOLEAN /\ updated' \in BOOLEAN
         /\ queued' \in BOOLEAN /\ timers' \subseteq {"retry", "renewal"}
BY NothingTyped DEF Finish, Idle, TypeOK, PCs

(* A failure is counted within its bound.                                  *)
LEMMA FaultType ==
  ASSUME TypeOK, Fault
  PROVE  faults' \in 0..MaxFaults /\ UNCHANGED <<edits, crashes>>
BY BoundsAssumption DEF Fault, TypeOK

(* A Secret for the kind cluster that is there, or was.                    *)
LEMMA SecretType ==
  ASSUME TypeOK, StoreSecret(conn) \/ StoreSecret(incarnation)
  PROVE  secret' \in Secrets
<1>1. conn \in Incarnations /\ incarnation \in Incarnations
  BY DEF TypeOK
<1>2. PICK i \in Incarnations : secret' = [inc |-> i, due |-> FALSE]
  BY <1>1 DEF StoreSecret, Fresh
<1> QED
  BY <1>2 DEF Secrets

(* The steps of the worker.                                                *)
LEMMA StepType ==
  ASSUME TypeOK, Counted, Step
  PROVE  TypeOK' /\ Counted'
<1> USE DEF Counted, environment, platform, schedule, copies, budget,
            Lifecycle!TypeInvariant
<1>1. CASE AddFinalizer \/ Annotate
  <2>1. pc \in Updating /\ Accepted /\ Decoded
    BY <1>1 DEF AddFinalizer, Annotate, Updating
  <2>2. api' \in Request /\ watch' \in Seq(Request)
    BY <2>1, SentType, PostType DEF Accepted
  <2> QED
    BY <1>1, <2>1, <2>2 DEF AddFinalizer, Annotate, Accepted, Decoded, TypeOK, PCs
<1>2. CASE RemoveFinalizer
  <2>1. api' \in Request /\ watch' \in Seq(Request)
    BY <1>2, SentType, PostType DEF RemoveFinalizer, Accepted, Updating
  <2> QED
    BY <1>2, <2>1, FinishType DEF RemoveFinalizer, Accepted, TypeOK
<1>3. CASE SaveStatus
  <2>1. api' \in Request /\ watch' \in Seq(Request)
    BY <1>3, SentType, PostType DEF SaveStatus, Patched
  <2>2. Wanted \in SUBSET {"retry", "renewal"}
    BY DEF Wanted
  <2> QED
    BY <1>3, <2>1, <2>2, FinishType DEF SaveStatus, Patched, TypeOK
<1>4. CASE SaveUnchanged \/ PatchRejected
  <2>1. Wanted \in SUBSET {"retry", "renewal"}
    BY DEF Wanted
  <2>2. \E ts \in SUBSET {"retry", "renewal"} : Finish(ts)
    BY <1>4, <2>1 DEF SaveUnchanged, PatchRejected
  <2> QED
    BY <1>4, <2>2, FinishType DEF SaveUnchanged, PatchRejected, Outside, TypeOK
<1>5. CASE Rejected \/ Unreachable \/ SecretRejected \/ KeepToken \/ RefreshToken
  BY <1>5 DEF Rejected, Unreachable, SecretRejected, KeepToken, RefreshToken, Goto, Outside,
     TypeOK, PCs
<1>6. CASE Address
  <2>1. [view EXCEPT !.address = incarnation] \in Request
    BY DEF TypeOK, Request
  <2> QED
    BY <1>6, <2>1 DEF Address, Outside, TypeOK, PCs
<1>7. CASE Grant
  <2>1. granted' \in [account : BOOLEAN, perms : SUBSET Perms]
    BY <1>7 DEF Grant, Granting, TypeOK, Request
  <2> QED
    BY <1>7, <2>1 DEF Grant, Outside, TypeOK, PCs
<1>8. CASE IssueToken \/ ReconcileOIDCAccess
  <2>1. [view EXCEPT !.status.granted = TRUE] \in Request
    BY DEF TypeOK, Request, Status
  <2>2. secret' \in Secrets
    <3>1. secret' = secret \/ StoreSecret(conn) \/ StoreSecret(incarnation)
      BY <1>8 DEF IssueToken, ReconcileOIDCAccess
    <3> QED
      BY <3>1, SecretType DEF TypeOK
  <2>3. UNCHANGED <<environment, granted, api, watch, cache, seen>>
    BY <1>8 DEF IssueToken, ReconcileOIDCAccess, StoreSecret
  <2> QED
    BY <1>8, <2>1, <2>2, <2>3 DEF IssueToken, ReconcileOIDCAccess, MarkGranted, TypeOK, PCs
<1>9. CASE Prune \/ Clean
  <2>1. granted' \in [account : BOOLEAN, perms : SUBSET Perms]
    BY <1>9, NothingTyped DEF Prune, Clean, TypeOK
  <2> QED
    BY <1>9, <2>1 DEF Prune, Clean, Goto, Outside, TypeOK, PCs
<1> QED
  BY <1>1, <1>2, <1>3, <1>4, <1>5, <1>6, <1>7, <1>8, <1>9 DEF Step

(* Failures, and a restart.                                                *)
LEMMA FailureType ==
  ASSUME TypeOK, Counted, Failure
  PROVE  TypeOK' /\ Counted'
<1> USE DEF Counted, environment, platform, schedule, copies, budget,
            Lifecycle!TypeInvariant
<1>1. CASE GrantFails
  <2>1. granted' \in [account : BOOLEAN, perms : SUBSET Perms]
    BY <1>1 DEF GrantFails, Granting, TypeOK, Request
  <2> QED
    BY <1>1, <2>1, FaultType DEF GrantFails, Goto, TypeOK, PCs
<1>2. CASE CleanFails
  <2>1. granted' \in [account : BOOLEAN, perms : SUBSET Perms]
    BY <1>2 DEF CleanFails, TypeOK
  <2> QED
    BY <1>2, <2>1, FaultType DEF CleanFails, Goto, TypeOK, PCs
<1>3. CASE AnswerLost
  <2>1. CASE pc \in Updating /\ Accepted /\ pc' = "fail" /\ current' = (api' = api)
             /\ UNCHANGED <<view, was, updated, conn, schedule>>
    <3>1. api' \in Request /\ watch' \in Seq(Request)
      BY <2>1, SentType, PostType DEF Accepted
    <3> QED
      BY <1>3, <2>1, <3>1, FaultType DEF AnswerLost, Accepted, TypeOK, PCs
  <2>2. CASE (StoreSecret(conn) \/ StoreSecret(incarnation)) /\ Goto("fail")
    <3>1. secret' \in Secrets
      BY <2>2, SecretType
    <3> QED
      BY <1>3, <2>2, <3>1, FaultType DEF AnswerLost, StoreSecret, Goto, TypeOK, PCs
  <2>3. CASE Patched /\ Finish({"retry"})
    <3>1. api' \in Request /\ watch' \in Seq(Request)
      BY <2>3, SentType, PostType DEF Patched
    <3> QED
      BY <1>3, <2>3, <3>1, FaultType, FinishType DEF AnswerLost, Patched, TypeOK
  <2> QED
    BY <1>3, <2>1, <2>2, <2>3 DEF AnswerLost
<1>4. CASE CallFails
  BY <1>4, FaultType, FinishType DEF CallFails, Goto, TypeOK, PCs
<1>5. CASE Crash
  <2>1. crashes' \in 0..MaxCrashes
    BY <1>5, BoundsAssumption DEF Crash, TypeOK
  <2>2. queued' \in BOOLEAN
    BY <1>5 DEF Crash, Exists
  <2>3. watch' \in Seq(Request)
    BY <1>5 DEF Crash
  <2>4. UNCHANGED <<environment, granted, api, secret, edits, faults>>
    BY <1>5 DEF Crash
  <2>5. /\ pc' = "idle" /\ view' = NoRequest /\ was' = NoStatus /\ conn' = 0
        /\ current' = FALSE /\ updated' = FALSE /\ timers' = {}
        /\ cache' = api /\ seen' = secret
    BY <1>5 DEF Crash, Idle
  <2> QED
    BY <2>1, <2>2, <2>3, <2>4, <2>5, NothingTyped DEF TypeOK, PCs
<1> QED
  BY <1>1, <1>2, <1>3, <1>4, <1>5 DEF Failure

(* Every variable keeps to its type, and the incarnations to their bound.  *)
THEOREM TypeCorrect == Spec => []TypeOK
<1>1. Init => TypeOK /\ Counted
  <2> SUFFICES ASSUME Init PROVE TypeOK /\ Counted
    OBVIOUS
  <2>1. Lifecycle!TypeInvariant
    BY DEF Init, Lifecycle!Init, Lifecycle!TypeInvariant
  <2>2. Counted /\ edits \in 0..MaxEdits /\ faults \in 0..MaxFaults /\ crashes \in 0..MaxCrashes
    BY BoundsAssumption DEF Init, Counted
  <2>3. watch \in Seq(Request) /\ pc \in PCs /\ timers \subseteq {"retry", "renewal"}
    BY DEF Init, PCs
  <2> QED
    BY <2>1, <2>2, <2>3, NothingTyped DEF Init, TypeOK
<1>2. TypeOK /\ Counted /\ [Next]_vars => TypeOK' /\ Counted'
  <2> SUFFICES ASSUME TypeOK, Counted, [Next]_vars PROVE TypeOK' /\ Counted'
    OBVIOUS
  <2>1. CASE UNCHANGED vars
    BY <2>1 DEF vars, TypeOK, Counted, environment, platform, schedule, worker, copies,
       budget, Lifecycle!TypeInvariant
  <2> QED
    BY <2>1, UserType, AroundType, HostType, TakeType, StepType, FailureType
    DEF Next, Users
<1> QED
  BY <1>1, <1>2, PTL DEF Spec


-----------------------------------------------------------------------------
(* What old copies guarantee.                                              *)

(* The copies are the cached one and those on their way.                   *)
LEMMA CopyCases ==
  ASSUME CopiesFaithful
  PROVE  Faithful(cache, api) /\ \A i \in 1..Len(watch) : Faithful(watch[i], api)
BY DEF CopiesFaithful, Copies

(* Storing a request takes nothing back.                                   *)
LEMMA SettledKeeps ==
  ASSUME NEW o \in Request
  PROVE  LET s == Settled(o)
         IN /\ s \in Request /\ s.fin = o.fin /\ s.ask = o.ask /\ s.status = o.status
            /\ s.want = o.want /\ s.gen = o.gen
            /\ s.st = o.st \/ (o.st = "deleting" /\ ~o.fin /\ s.st = "gone")
            /\ s.st = "deleting" => o.fin
BY DEF Settled, Request

(* A write preserves what is known of the copies, unless it gives up a     *)
(* claim while live copies are around.                                     *)
LEMMA PostCopies ==
  ASSUME TypeOK, CopiesFaithful, NEW o \in Request, Post(o), UNCHANGED cache,
         o.st # "none", Past(api) => Past(o),
         Past(cache) \/ (Claimed => Kept(o)),
         api.st # "none" => o.ask = api.ask,
         api.status.granted => o.status.granted
  PROVE  CopiesFaithful'
<1>1. CASE o = api
  BY <1>1 DEF Post, CopiesFaithful, Copies, CopiesInOrder
<1>2. CASE o # api
  <2>0. PICK s \in Request : s = Settled(o)
    BY SettledKeeps
  <2>1. /\ s.fin = o.fin /\ s.ask = o.ask /\ s.status = o.status
        /\ s.st = o.st \/ (o.st = "deleting" /\ ~o.fin /\ s.st = "gone")
        /\ s.st = "deleting" => s.fin
    BY <2>0, SettledKeeps
  <2>2. api' = s /\ watch' = Append(watch, s)
    BY <1>2, <2>0 DEF Post
  <2> DEFINE n == Len(watch)
  <2>3. /\ n \in Nat /\ Len(watch') = n + 1 /\ watch'[n + 1] = s /\ watch' # <<>>
        /\ \A i \in 1..n : watch'[i] = watch[i]
    <3>1. watch \in Seq(Request)
      BY DEF TypeOK
    <3> QED
      BY <2>2, <3>1
  <2>4. \A v : Faithful(v, api) /\ (Past(cache) => v.st # "live") => Faithful(v, s)
    BY <2>1 DEF Faithful, Claimed, Kept, Exists, Past
  <2>5. Faithful(cache, s)
    BY <2>4, CopyCases DEF Past
  <2>6. ASSUME NEW i \in 1..n PROVE Faithful(watch[i], s)
    <3>1. Past(cache) => watch[i].st # "live"
      BY DEF CopiesFaithful, CopiesInOrder, Past
    <3> QED
      BY <2>4, <3>1, CopyCases
  <2>7. Faithful(s, s)
    BY DEF Faithful, Kept, Exists
  <2>8. ASSUME NEW v \in Copies' PROVE Faithful(v, s)
    <3>1. v = cache \/ \E i \in 1..Len(watch') : v = watch'[i]
      BY DEF Copies
    <3>2. v = cache \/ v = s \/ \E i \in 1..n : v = watch[i]
      BY <2>3, <3>1
    <3> QED
      BY <2>5, <2>6, <2>7, <3>2
  <2>9. \A v : Faithful(v, api) /\ Past(v) => Past(s)
    BY <2>1 DEF Faithful, Past
  <2>10. CopiesInOrder'
    <3>1. ASSUME NEW i \in 1..Len(watch'), Past(cache) PROVE Past(watch'[i])
      <4>1. CASE i \in 1..n
        BY <2>3, <3>1, <4>1 DEF CopiesFaithful, CopiesInOrder
      <4>2. CASE i = n + 1
        BY <2>3, <2>9, <3>1, <4>2, CopyCases
      <4> QED
        BY <2>3, <4>1, <4>2
    <3>2. ASSUME NEW i \in 1..Len(watch'), NEW j \in 1..Len(watch'), i < j, Past(watch'[i])
          PROVE  Past(watch'[j])
      <4>1. CASE j \in 1..n
        BY <2>3, <3>2, <4>1 DEF CopiesFaithful, CopiesInOrder
      <4>2. CASE j = n + 1
        <5>1. i \in 1..n /\ Past(watch[i])
          BY <2>3, <3>2, <4>2
        <5> QED
          BY <2>3, <2>9, <4>2, <5>1, CopyCases
      <4> QED
        BY <2>3, <4>1, <4>2
    <3> QED
      BY <2>2, <2>3, <3>1, <3>2 DEF CopiesInOrder, Past
  <2>11. \A v \in Copies' : Faithful(v, api')
    BY <2>2, <2>8
  <2> QED
    BY <2>1, <2>2, <2>10, <2>11 DEF CopiesFaithful
<1> QED
  BY <1>1, <1>2

(* The copies depend on the API server and the informer alone.             *)
LEMMA SameCopies ==
  ASSUME CopiesFaithful, UNCHANGED <<api, watch, cache>>
  PROVE  CopiesFaithful' /\ Claimed' = Claimed /\ (Past(cache))' = Past(cache)
BY DEF CopiesFaithful, Copies, CopiesInOrder, Claimed, Past

-----------------------------------------------------------------------------
(* The invariant, by what a step changes.                                  *)

(* What users send keeps the finalizer and the status.                     *)
LEMMA UserSends ==
  ASSUME TypeOK, CopiesFaithful,
         CreateRequest \/ BindRequest \/ EditRequest \/ DeleteRequest
  PROVE  \E o \in Request :
           /\ User(o) /\ o # api /\ o.fin = api.fin /\ o.status = api.status
           /\ o.gen > api.gen /\ (api = NoRequest \/ o.want = api.want \/ edits' # 0)
           /\ \/ api = NoRequest /\ o.st = "live"
              \/ api.st = "live" /\ o.st \in {"live", "deleting"} /\ o.ask = api.ask
<1>0. api \in Request /\ api.gen \in Nat /\ api.gen + 1 \in Nat /\ api.gen + 1 > api.gen
  <2>1. api \in Request /\ api.gen \in Nat
    BY DEF TypeOK, Request
  <2> QED
    BY <2>1
<1>1. CASE CreateRequest
  <2>1. PICK a \in Asks, w \in SUBSET Perms :
          User([api EXCEPT !.st = "live", !.bound = Bound, !.ask = a, !.want = w, !.gen = 1])
    BY <1>1 DEF CreateRequest
  <2>2. a \in {"token", "oidc"} /\ Bound \in BOOLEAN
    BY AsksAssumption, SwitchesAssumption
  <2>3. [api EXCEPT !.st = "live", !.bound = Bound, !.ask = a, !.want = w, !.gen = 1]
          \in Request
    BY <1>0, <2>2 DEF Request
  <2>4. api = NoRequest
    BY <1>1 DEF CreateRequest, CopiesFaithful
  <2>5. api.gen = 0 /\ api.st = "none"
    BY <2>4 DEF NoRequest
  <2>6. PICK o : o = [api EXCEPT !.st = "live", !.bound = Bound, !.ask = a, !.want = w, !.gen = 1]
    OBVIOUS
  <2>7. o.fin = api.fin /\ o.status = api.status /\ o.gen = 1 /\ o.st = "live"
    BY <1>0, <2>6 DEF Request
  <2>8. o # api /\ o.gen > api.gen
    BY <2>5, <2>7
  <2>9. User(o)
    BY <2>1, <2>6
  <2>10. o \in Request
    BY <2>3, <2>6
  <2> QED
    BY <2>4, <2>7, <2>8, <2>9, <2>10
<1>2. CASE BindRequest
  <2>1. User([api EXCEPT !.bound = TRUE, !.gen = api.gen + 1])
    BY <1>2 DEF BindRequest
  <2>2. [api EXCEPT !.bound = TRUE, !.gen = api.gen + 1] \in Request
    BY <1>0 DEF Request
  <2> QED
    BY <1>0, <1>2, <2>1, <2>2 DEF BindRequest, Request
<1>3. CASE EditRequest
  <2>1. PICK w \in (SUBSET Perms) \ {api.want} :
          User([api EXCEPT !.want = w, !.gen = api.gen + 1])
    BY <1>3 DEF EditRequest
  <2>2. [api EXCEPT !.want = w, !.gen = api.gen + 1] \in Request
    BY <1>0 DEF Request
  <2>3. edits' # 0
    <3>1. edits \in Nat
      BY BoundsAssumption DEF TypeOK
    <3>2. edits' = edits + 1
      BY <1>3 DEF EditRequest, Edit
    <3> QED
      BY <3>1, <3>2
  <2> QED
    BY <1>0, <1>3, <2>1, <2>2, <2>3 DEF EditRequest, Request
<1>4. CASE DeleteRequest
  <2>1. User([api EXCEPT !.st = "deleting", !.gen = api.gen + 1])
    BY <1>4 DEF DeleteRequest
  <2>2. [api EXCEPT !.st = "deleting", !.gen = api.gen + 1] \in Request
    BY <1>0 DEF Request
  <2> QED
    BY <1>0, <1>4, <2>1, <2>2 DEF DeleteRequest, Request
<1> QED
  BY <1>1, <1>2, <1>3, <1>4

(* Users change the request.                                               *)
LEMMA UserJustified ==
  ASSUME TypeOK, AccessJustified,
         CreateRequest \/ BindRequest \/ EditRequest \/ DeleteRequest
  PROVE  AccessJustified'
<1> USE DEF AccessJustified
<1>1. PICK o \in Request :
        /\ User(o) /\ o # api /\ o.fin = api.fin /\ o.status = api.status
        /\ \/ api = NoRequest /\ o.st = "live"
           \/ api.st = "live" /\ o.st \in {"live", "deleting"} /\ o.ask = api.ask
  BY UserSends
<1>2. /\ Post(o) /\ api' = Settled(o) /\ watch' = Append(watch, api') /\ current' = FALSE
      /\ UNCHANGED <<environment, granted, cache, secret, seen, pc, view, was, conn>>
  BY <1>1 DEF User, Post
<1>3. /\ api'.fin = o.fin /\ api'.ask = o.ask /\ api'.status = o.status
      /\ api'.st = o.st \/ (o.st = "deleting" /\ ~o.fin /\ api'.st = "gone")
  BY <1>2, SettledKeeps
<1>4. CopiesFaithful'
  <2>1. ~Past(api)
    BY <1>1 DEF Past, NoRequest
  <2>2. Claimed => Kept(o)
    BY <1>1 DEF Claimed, Kept, Exists, NoRequest
  <2>3. api.st # "none" => o.ask = api.ask
    BY <1>1 DEF NoRequest
  <2> QED
    BY <1>1, <1>2, <2>1, <2>2, <2>3, PostCopies
<1>5. Claimed => Claimed'
  BY <1>1, <1>3 DEF Claimed, Kept, Exists, NoRequest
<1>6. edits' = edits \/ edits' = edits + 1
  BY DEF CreateRequest, BindRequest, EditRequest, DeleteRequest, Edit
<1>7. HostKnown'
  <2>1. edits \in Int /\ incarnation \in Int
    BY DEF TypeOK, Incarnations
  <2> QED
    BY <1>2, <1>6, <2>1 DEF HostKnown, environment
<1>8. ViewFaithful'
  BY <1>1, <1>2, <1>3 DEF ViewFaithful, NoRequest
<1>9. PassJustified'
  BY <1>2, <1>5 DEF PassJustified, environment, Past
<1>10. SecretKept'
  <2>1. edits' = 0 => edits = 0
    BY <1>6 DEF TypeOK
  <2>2. api'.st # "none"
    BY <1>1, <1>3
  <2>3. CASE api = NoRequest
    <3>1. pc = "idle" /\ ~api'.status.granted
      BY <1>1, <1>3, <2>3 DEF ViewFaithful, NoRequest, NoStatus
    <3>2. seen = NoSecret
      BY <2>3 DEF SecretKept, NoRequest
    <3> QED
      BY <1>2, <2>2, <3>1, <3>2 DEF SecretKept
  <2>4. CASE api.st = "live"
    BY <1>1, <1>2, <1>3, <2>1, <2>2, <2>4 DEF SecretKept, Exists
  <2> QED
    BY <1>1, <2>3, <2>4
<1>11. NoLeftoverAccess'
  BY <1>2, <1>5 DEF NoLeftoverAccess, Claimed, Kept
<1>12. TokenBacked'
  <2>1. CASE api = NoRequest
    BY <1>2, <2>1 DEF TokenBacked, SecretKept, NoRequest
  <2>2. CASE api.st = "live"
    BY <1>1, <1>2, <1>3, <2>2 DEF TokenBacked, environment, NoRequest
  <2> QED
    BY <1>1, <2>1, <2>2
<1>13. NeverForgotten'
  <2>1. watch' # <<>>
    BY <1>2 DEF TypeOK
  <2> QED
    BY <2>1 DEF NeverForgotten
<1> QED
  BY <1>4, <1>7, <1>8, <1>9, <1>10, <1>11, <1>12, <1>13

(* Secrets, timers and a resync.                                           *)
LEMMA AroundJustified ==
  ASSUME TypeOK, AccessJustified,
         \/ DeleteSecret \/ CollectSecret \/ DeliverSecret \/ Resync \/ TokenAges
         \/ \E t \in {"retry", "renewal"} : TimerFires(t)
  PROVE  AccessJustified'
<1> USE DEF AccessJustified
<1>1. UNCHANGED <<environment, granted, api, watch, cache, worker>>
  BY DEF DeleteSecret, CollectSecret, DeliverSecret, Resync, TokenAges, TimerFires, platform
<1>2. CopiesFaithful' /\ Claimed' = Claimed /\ (Past(cache))' = Past(cache)
  BY <1>1, SameCopies
<1>3. /\ edits \in Nat /\ incarnation \in Int
      /\ edits' = edits \/ (edits' = edits + 1 /\ secret' = NoSecret)
  BY DEF DeleteSecret, CollectSecret, DeliverSecret, Resync, TokenAges, TimerFires, Edit,
     budget, TypeOK, Incarnations
<1>4. /\ secret \in Secrets
      /\ \/ secret' = secret
         \/ secret # NoSecret /\ secret' = [secret EXCEPT !.due = TRUE]
         \/ secret' = NoSecret /\ (edits' # 0 \/ api.st = "gone")
  BY <1>3 DEF DeleteSecret, CollectSecret, DeliverSecret, Resync, TokenAges, TimerFires, Edit,
     TypeOK, platform
<1>5. HostKnown'
  <2>1. /\ secret'.inc = secret.inc \/ secret'.inc = 0
        /\ secret' # NoSecret => secret # NoSecret /\ secret'.inc = secret.inc
    BY <1>4 DEF Secrets, NoSecret
  <2>2. incarnation <= edits' + 1 /\ incarnation \in Nat
    BY <1>3, BoundsAssumption DEF HostKnown, TypeOK, Incarnations
  <2> QED
    BY <1>1, <2>1, <2>2 DEF HostKnown, environment, worker
<1>6. ViewFaithful' /\ PassJustified' /\ NoLeftoverAccess'
  BY <1>1, <1>2 DEF ViewFaithful, PassJustified, NoLeftoverAccess, environment, worker, copies
<1>7. secret = NoSecret => secret' = NoSecret
  BY <1>4
<1>8. secret' = NoSecret \/ (secret # NoSecret /\ secret'.inc = secret.inc)
  BY <1>4 DEF Secrets
<1>9. secret # NoSecret => secret' # NoSecret \/ edits' # 0 \/ api.st = "gone"
  BY <1>4, <1>8 DEF NoSecret, HostKnown
<1>10. SecretKept'
  <2>1. seen' # NoSecret => seen # NoSecret \/ secret' # NoSecret
    BY DEF DeleteSecret, CollectSecret, DeliverSecret, Resync, TokenAges, TimerFires, Edit,
       platform
  <2> QED
    BY <1>1, <1>3, <1>7, <1>9, <2>1 DEF SecretKept, worker, copies, Exists
<1>11. TokenBacked'
  BY <1>1, <1>8 DEF TokenBacked, environment
<1>12. NeverForgotten'
  <2>1. /\ timers' = timers \/ queued'
        /\ queued => queued'
    BY DEF DeleteSecret, CollectSecret, DeliverSecret, Resync, TokenAges, TimerFires, schedule
  <2> QED
    BY <1>1, <2>1 DEF NeverForgotten, worker, Exists
<1> QED
  BY <1>2, <1>5, <1>6, <1>10, <1>11, <1>12

(* The informer delivers the oldest version.                               *)
LEMMA DeliverJustified ==
  ASSUME TypeOK, AccessJustified, Deliver
  PROVE  AccessJustified'
<1> USE DEF AccessJustified
<1> DEFINE n == Len(watch)
<1>1. /\ n \in Nat /\ n > 0 /\ Len(watch') = n - 1
      /\ \A i \in 1..(n - 1) : watch'[i] = watch[i + 1]
      /\ watch' = <<>> <=> n = 1
      /\ cache' = watch[1]
  <2>1. watch \in Seq(Request) /\ watch # <<>>
    BY DEF Deliver, TypeOK
  <2>2. cache' = Head(watch) /\ watch' = Tail(watch)
    BY DEF Deliver
  <2>3. n \in Nat /\ n > 0 /\ Len(watch') = n - 1
    BY <2>1, <2>2
  <2>4. \A i \in 1..(n - 1) : watch'[i] = watch[i + 1]
    BY <2>1, <2>2
  <2>5. cache' = watch[1]
    BY <2>1, <2>2
  <2>6. watch' \in Seq(Request)
    BY <2>1, <2>2
  <2>7. watch' = <<>> <=> Len(watch') = 0
    BY <2>6
  <2> QED
    BY <2>3, <2>4, <2>5, <2>7
<1>2. UNCHANGED <<environment, granted, api, secret, seen, timers, worker, budget>> /\ queued'
  BY DEF Deliver
<1>3. Past(cache) => Past(cache')
  BY <1>1 DEF CopiesFaithful, CopiesInOrder
<1>5. CopiesFaithful'
  <2>1. Faithful(cache', api) /\ \A i \in 1..(n - 1) : Faithful(watch'[i], api)
    BY <1>1, CopyCases
  <2>2. \A v \in Copies' : Faithful(v, api)
    BY <1>1, <2>1 DEF Copies
  <2>3. \A v \in Copies' : Faithful(v, api')
    BY <1>2, <2>2
  <2>4. CopiesInOrder'
    <3>1. \A i \in 1..(n - 1) : Past(cache') => Past(watch'[i])
      BY <1>1 DEF CopiesFaithful, CopiesInOrder
    <3>2. ASSUME NEW i \in 1..(n - 1), NEW j \in 1..(n - 1), i < j, Past(watch'[i])
          PROVE  Past(watch'[j])
      <4>1. /\ i + 1 \in 1..n /\ j + 1 \in 1..n /\ i + 1 < j + 1
            /\ watch'[i] = watch[i + 1] /\ watch'[j] = watch[j + 1]
        BY <1>1, <3>2
      <4> QED
        BY <3>2, <4>1 DEF CopiesFaithful, CopiesInOrder
    <3>3. api = IF watch' = <<>> THEN cache' ELSE watch'[n - 1]
      <4>1. api = watch[n]
        BY <1>1 DEF CopiesFaithful, CopiesInOrder
      <4>2. CASE n = 1
        BY <1>1, <4>1, <4>2
      <4>3. CASE n > 1
        <5>1. n - 1 \in 1..(n - 1) /\ (n - 1) + 1 = n
          BY <1>1, <4>3
        <5> QED
          BY <1>1, <4>1, <4>3, <5>1
      <4> QED
        BY <1>1, <4>2, <4>3
    <3> QED
      BY <1>1, <1>2, <3>1, <3>2, <3>3 DEF CopiesInOrder, Past
  <2> QED
    BY <1>2, <2>3, <2>4 DEF CopiesFaithful
<1>6. HostKnown' /\ ViewFaithful' /\ SecretKept' /\ NoLeftoverAccess' /\ TokenBacked'
  BY <1>2 DEF HostKnown, ViewFaithful, SecretKept, NoLeftoverAccess, TokenBacked,
     environment, worker, copies, budget, Exists
<1>7. PassJustified'
  BY <1>2, <1>3 DEF PassJustified, Claimed, environment, worker, copies
<1>8. NeverForgotten'
  BY <1>2 DEF NeverForgotten
<1> QED
  BY <1>5, <1>6, <1>7, <1>8

(* A kind cluster comes or goes, and all that runs on it with it.          *)
LEMMA HostJustified ==
  ASSUME TypeOK, AccessJustified, HostMoves
  PROVE  AccessJustified'
<1> USE DEF AccessJustified
<1>1. UNCHANGED <<api, watch, cache, secret, seen, queued, timers, worker>>
  BY DEF HostMoves, platform, schedule
<1>2. CopiesFaithful' /\ Claimed' = Claimed /\ (Past(cache))' = Past(cache)
  BY <1>1, SameCopies
<1>3. edits \in Nat /\ incarnation \in Nat /\ conn \in Nat /\ secret.inc \in Nat
  BY BoundsAssumption DEF TypeOK, Incarnations, Secrets
<1>4. \/ /\ host[Cluster] # "absent" \/ host'[Cluster] = "absent"
         /\ UNCHANGED <<incarnation, edits>>
      \/ /\ incarnation' = incarnation + 1
         /\ edits' = edits + 1 \/ (incarnation = 0 /\ edits' = edits)
  BY <1>3 DEF HostMoves, Edit
<1>5. granted' = IF host'[Cluster] = "absent" THEN Nothing ELSE granted
  BY DEF HostMoves
<1>6. HostKnown'
  BY <1>1, <1>3, <1>4 DEF HostKnown, worker
<1>7. ViewFaithful' /\ NeverForgotten'
  BY <1>1 DEF ViewFaithful, NeverForgotten, worker, copies
<1>8. PassJustified'
  <2>1. pc = "issue" /\ conn = incarnation' /\ host'[Cluster] # "absent" => granted'.account
    BY <1>3, <1>4, <1>5 DEF PassJustified, HostKnown
  <2>2. pc = "removeFinalizer" => granted' = Nothing
    BY <1>5 DEF PassJustified
  <2> QED
    BY <1>1, <1>2, <2>1, <2>2 DEF PassJustified, worker, copies
<1>9. SecretKept'
  BY <1>1, <1>3, <1>4 DEF SecretKept, worker, copies
<1>10. NoLeftoverAccess'
  BY <1>1, <1>5 DEF NoLeftoverAccess
<1>11. TokenBacked'
  BY <1>1, <1>3, <1>4, <1>5 DEF TokenBacked, HostKnown
<1> QED
  BY <1>2, <1>6, <1>7, <1>8, <1>9, <1>10, <1>11

(* The worker takes the key.                                               *)
LEMMA TakeJustified ==
  ASSUME TypeOK, AccessJustified, Take
  PROVE  AccessJustified'
<1> USE DEF AccessJustified
<1>1. UNCHANGED <<environment, granted, platform, timers, conn, budget>> /\ pc = "idle"
  BY DEF Take, ReconcileMissing, ReconcileUnresolved, ReconcileDeleting, ReconcileLive,
     Reconcile, Dequeue, Outside
<1>2. CopiesFaithful' /\ Claimed' = Claimed /\ (Past(cache))' = Past(cache)
  BY <1>1, SameCopies DEF platform
<1>3. HostKnown' /\ NoLeftoverAccess' /\ TokenBacked'
  BY <1>1 DEF HostKnown, NoLeftoverAccess, TokenBacked, environment, platform, budget
<1>4. watch = <<>> => cache = api
  BY DEF CopiesFaithful, CopiesInOrder
<1>5. CASE ReconcileMissing
  <2>1. pc' = "idle" /\ ~Exists(cache)
    BY <1>5 DEF ReconcileMissing, Dequeue
  <2>2. ViewFaithful' /\ PassJustified' /\ SecretKept'
    BY <1>1, <2>1 DEF ViewFaithful, PassJustified, SecretKept, Providing, Removing, Exists,
       platform, budget
  <2>3. NeverForgotten'
    BY <1>1, <1>4, <2>1 DEF NeverForgotten, Exists, platform
  <2> QED
    BY <1>2, <1>3, <2>2, <2>3
<1>6. CASE ReconcileUnresolved \/ ReconcileDeleting \/ ReconcileLive
  <2>1. PICK label \in PCs :
          /\ Reconcile(label) /\ Exists(cache)
          /\ \/ label = "fail"
             \/ label = "clean" /\ cache.st = "deleting"
             \/ label = "address" /\ cache.st = "live" /\ cache.fin
             \/ label = "addFinalizer" /\ cache.st = "live"
    BY <1>6 DEF ReconcileUnresolved, ReconcileDeleting, ReconcileLive, PCs, Exists
  <2>2. /\ pc' = label /\ view' = cache /\ was' = cache.status
        /\ current' = (watch = <<>>)
    BY <2>1 DEF Reconcile, Dequeue
  <2>3. Faithful(cache, api)
    BY CopyCases
  <2>4. ViewFaithful'
    <3>1. cache = [cache EXCEPT !.address = cache.address]
      BY DEF TypeOK, Request
    <3>2. current' => view' = [api EXCEPT !.address = view'.address]
      BY <1>4, <2>2, <3>1
    <3> QED
      BY <1>1, <2>1, <2>2, <2>3, <3>2 DEF ViewFaithful, Faithful, Exists, platform
  <2>5. PassJustified'
    <3>1. label = "address" => Claimed
      BY <2>1, <2>3 DEF Faithful, Claimed
    <3> QED
      BY <1>2, <2>1, <2>2, <3>1 DEF PassJustified, Providing, Removing, Past
  <2>6. SecretKept'
    BY <1>1, <2>2, <2>3 DEF SecretKept, Faithful, Exists, platform, budget
  <2>7. NeverForgotten'
    BY <2>1, <2>2 DEF NeverForgotten
  <2> QED
    BY <1>2, <1>3, <2>4, <2>5, <2>6, <2>7
<1> QED
  BY <1>5, <1>6 DEF Take

(* Steps within a pass that write nothing to the request.                  *)
LEMMA WithinPass ==
  ASSUME TypeOK, AccessJustified, pc # "idle", pc' # "idle",
         UNCHANGED <<environment, api, watch, cache, edits>>
  PROVE  /\ CopiesFaithful' /\ NeverForgotten' /\ Claimed' = Claimed
         /\ (Past(cache))' = Past(cache)
<1>1. CopiesFaithful' /\ Claimed' = Claimed /\ (Past(cache))' = Past(cache)
  BY SameCopies DEF AccessJustified
<1> QED
  BY <1>1 DEF NeverForgotten

(* What the worker stores in the Secret.                                   *)
LEMMA StoredSecret ==
  ASSUME TypeOK, AccessJustified, Answers,
         \/ pc = "issue" /\ StoreSecret(conn)
         \/ pc = "oidc" /\ StoreSecret(incarnation)
  PROVE  /\ secret'.inc = incarnation /\ secret' # NoSecret
         /\ api.ask = "token" => granted.account
         /\ host[Cluster] # "absent" /\ incarnation > 0 /\ view.st # "none"
<1>1. host[Cluster] # "absent" /\ (pc = "issue" => conn = incarnation)
  BY DEF Answers, Connected
<1>2. secret'.inc = incarnation
  BY <1>1 DEF StoreSecret, Fresh
<1>3. incarnation > 0
  BY <1>1 DEF AccessJustified, HostKnown
<1>4. secret' # NoSecret
  BY <1>2, <1>3 DEF NoSecret
<1> QED
  BY <1>1, <1>2, <1>3, <1>4 DEF AccessJustified, PassJustified, ViewFaithful

(* A pass that fails: it has given only what was claimed, and taken no     *)
(* account.                                                                *)
LEMMA FailJustified ==
  ASSUME TypeOK, AccessJustified, pc # "idle", Goto("fail"),
         UNCHANGED <<environment, api, watch, cache, seen, edits>>,
         granted' # Nothing => Claimed,
         granted.account => granted'.account,
         \/ secret' = secret
         \/ /\ secret' # NoSecret /\ secret'.inc = incarnation /\ incarnation > 0
            /\ api.ask = "token" => granted.account
  PROVE  AccessJustified'
<1> USE DEF AccessJustified
<1>1. pc' = "fail" /\ UNCHANGED <<view, was, current, conn>>
  BY DEF Goto, copies
<1>2. CopiesFaithful' /\ NeverForgotten' /\ Claimed' = Claimed
  BY <1>1, WithinPass
<1>3. HostKnown'
  <2>1. incarnation \in Int
    BY DEF TypeOK, Incarnations
  <2> QED
    BY <1>1, <2>1 DEF HostKnown, environment
<1>4. ViewFaithful' /\ PassJustified'
  BY <1>1 DEF ViewFaithful, PassJustified, Providing, Removing
<1>5. SecretKept'
  <2>1. api.st # "none"
    BY DEF ViewFaithful
  <2> QED
    BY <1>1, <2>1 DEF SecretKept, Exists
<1>6. NoLeftoverAccess'
  BY <1>2 DEF NoLeftoverAccess, Claimed, Kept
<1>7. TokenBacked'
  BY DEF TokenBacked, environment
<1> QED
  BY <1>2, <1>3, <1>4, <1>5, <1>6, <1>7

-----------------------------------------------------------------------------
(* The worker's writes to the request.                                     *)

(* What the worker sends differs from the stored request by the address    *)
(* and the finalizer only, and the finalizer goes when nothing is left.    *)
LEMMA AcceptedKeeps ==
  ASSUME TypeOK, AccessJustified, pc \in Updating, Accepted
  PROVE  /\ CopiesFaithful' /\ (Past(cache))' = Past(cache)
         /\ api' \in Request /\ api'.ask = api.ask /\ api'.status = api.status
         /\ pc # "removeFinalizer" => api'.st = api.st /\ Exists(api) /\ api'.fin
         /\ pc = "removeFinalizer" => api'.st = "gone" /\ granted = Nothing
<1> USE DEF AccessJustified
<1>0. pc \in {"addFinalizer", "annotate", "removeFinalizer"} /\ Exists(api) /\ current
      /\ Post(Sent) /\ UNCHANGED cache
  BY DEF Accepted, CanUpdate, Updating
<1>1. PICK o \in Request : o = Sent
  BY SentType
<1>2. view = [api EXCEPT !.address = view.address]
  BY <1>0 DEF ViewFaithful, Removing
<1>3. /\ o.st = api.st /\ o.ask = api.ask /\ o.status = api.status
      /\ o.fin = (pc = "addFinalizer" \/ (pc = "annotate" /\ api.fin))
  <2>1. /\ api \in Request /\ view.st = api.st /\ view.ask = api.ask
        /\ view.status = api.status /\ view.fin = api.fin /\ view \in Request
    BY <1>2 DEF TypeOK, Request
  <2> QED
    BY <1>0, <1>1, <2>1 DEF Sent, Request
<1>4. pc # "removeFinalizer" => o.fin
  BY <1>0, <1>3 DEF PassJustified, Providing, Claimed, Kept
<1>5. pc = "removeFinalizer" => Past(cache) /\ api.st = "deleting" /\ api.fin
  <2> HAVE pc = "removeFinalizer"
  <2>1. Past(cache)
    BY DEF PassJustified, Removing
  <2>2. Past(api)
    BY <2>1, CopyCases DEF Faithful
  <2> QED
    BY <1>0, <2>1, <2>2 DEF Past, Exists, CopiesFaithful
<1>6. CopiesFaithful'
  <2>1. Past(cache) \/ (Claimed => Kept(o))
    BY <1>0, <1>3, <1>4, <1>5 DEF Kept, Exists
  <2>2. o.st # "none" /\ (Past(api) => Past(o))
    BY <1>0, <1>3 DEF Exists, Past
  <2> QED
    BY <1>0, <1>1, <1>3, <2>1, <2>2, PostCopies
<1>7. api' = IF o = api THEN api ELSE Settled(o)
  BY <1>0, <1>1 DEF Post
<1>8. /\ api' \in Request /\ api'.ask = api.ask /\ api'.status = api.status
      /\ api'.st = o.st \/ (o.st = "deleting" /\ ~o.fin /\ api'.st = "gone")
      /\ api'.fin = o.fin /\ (o # api /\ api'.st = "deleting" => o.fin)
  BY <1>1, <1>3, <1>7, SettledKeeps
<1>9. pc = "removeFinalizer" => api'.st = "gone" /\ granted = Nothing
  <2>1. pc = "removeFinalizer" => ~o.fin /\ o # api /\ o.st = "deleting"
    BY <1>3, <1>5
  <2> QED
    BY <1>8, <2>1 DEF PassJustified
<1>10. pc # "removeFinalizer" => api'.st = api.st /\ api'.fin
  BY <1>3, <1>4, <1>8
<1> QED
  BY <1>0, <1>6, <1>8, <1>9, <1>10 DEF Past

(* The finalizer, the address, and the end of the request.                 *)
LEMMA UpdateJustified ==
  ASSUME TypeOK, AccessJustified, pc \in Updating, Accepted, UNCHANGED edits,
         \/ AddFinalizer \/ Annotate \/ RemoveFinalizer
         \/ pc' = "fail" /\ UNCHANGED <<view, was, updated, conn, schedule>>
  PROVE  AccessJustified'
<1> USE DEF AccessJustified
<1>1. UNCHANGED <<environment, granted, cache, secret, seen>>
  BY DEF Accepted
<1>2. /\ CopiesFaithful' /\ (Past(cache))' = Past(cache)
      /\ api' \in Request /\ api'.ask = api.ask /\ api'.status = api.status
      /\ pc # "removeFinalizer" => api'.st = api.st /\ Exists(api) /\ api'.fin
      /\ pc = "removeFinalizer" => api'.st = "gone" /\ granted = Nothing
  BY AcceptedKeeps
<1>3. /\ pc # "removeFinalizer" => Claimed'
      /\ Exists(api)' => Exists(api)
      /\ api'.st = "live" => api.st = "live"
      /\ api'.st # "none"
  BY <1>2 DEF Claimed, Kept, Exists
<1>4. NoLeftoverAccess' /\ TokenBacked'
  BY <1>1, <1>2, <1>3 DEF NoLeftoverAccess, TokenBacked, Claimed, Kept, environment
<1>5. pc # "idle"
  BY DEF Updating
<1>6. CASE AddFinalizer \/ Annotate
  <2>1. /\ view' = api' /\ UNCHANGED <<was, conn>>
        /\ \/ pc = "addFinalizer" /\ pc' = "address"
           \/ pc = "annotate" /\ pc' = IF view.ask = "oidc" THEN "oidc" ELSE "inspect"
    BY <1>6 DEF AddFinalizer, Annotate, Decoded
  <2>2. view.ask = api'.ask /\ (was.granted => api.status.granted)
    BY <1>2, <1>5 DEF ViewFaithful
  <2>3. HostKnown'
    BY <1>1, <2>1 DEF HostKnown, environment
  <2>4. ViewFaithful'
    <3>1. api' = [api' EXCEPT !.address = api'.address]
      BY <1>2 DEF Request
    <3> QED
      BY <1>2, <1>3, <2>1, <2>2, <3>1 DEF ViewFaithful
  <2>5. PassJustified'
    <3>1. view.ask \in {"token", "oidc"}
      BY DEF TypeOK, Request
    <3> QED
      BY <1>3, <2>1, <2>2, <3>1 DEF PassJustified, Removing
  <2>6. SecretKept'
    BY <1>1, <1>2, <1>3, <2>1 DEF SecretKept
  <2>7. NeverForgotten'
    BY <2>1 DEF NeverForgotten
  <2> QED
    BY <1>2, <1>4, <2>3, <2>4, <2>5, <2>6, <2>7
<1>7. CASE RemoveFinalizer
  <2>1. pc' = "idle" /\ conn' = 0 /\ pc = "removeFinalizer"
    BY <1>7 DEF RemoveFinalizer, Finish, Idle
  <2>2. HostKnown'
    BY <1>1, <2>1, BoundsAssumption DEF HostKnown, environment, TypeOK, Incarnations
  <2>3. ViewFaithful' /\ PassJustified'
    BY <2>1 DEF ViewFaithful, PassJustified, Providing, Removing
  <2>4. SecretKept' /\ NeverForgotten'
    BY <1>2, <2>1 DEF SecretKept, NeverForgotten, Exists
  <2> QED
    BY <1>2, <1>4, <2>2, <2>3, <2>4
<1>8. CASE pc' = "fail" /\ UNCHANGED <<view, was, updated, conn, schedule>>
  <2>1. HostKnown'
    BY <1>1, <1>8 DEF HostKnown, environment
  <2>2. ViewFaithful'
    BY <1>2, <1>3, <1>5, <1>8 DEF ViewFaithful, Removing
  <2>3. PassJustified'
    BY <1>8 DEF PassJustified, Providing, Removing
  <2>4. SecretKept'
    BY <1>1, <1>2, <1>3, <1>5, <1>8 DEF SecretKept
  <2>5. NeverForgotten'
    BY <1>8 DEF NeverForgotten
  <2> QED
    BY <1>2, <1>4, <2>1, <2>2, <2>3, <2>4, <2>5
<1> QED
  BY <1>6, <1>7, <1>8

-----------------------------------------------------------------------------
(* The end of a pass.                                                      *)

(* A pass ends with a timer, or with OIDC access that is granted.          *)
LEMMA EndJustified ==
  ASSUME TypeOK, AccessJustified, NEW ts, Finish(ts), CopiesFaithful',
         UNCHANGED <<environment, granted, cache, secret, seen, edits>>,
         api'.st = api.st, api'.ask = api.ask, api'.fin = api.fin, Exists(api)' => pc # "idle",
         api'.status.granted => api.status.granted \/ view.status.granted,
         ts # {} \/ ~Exists(api)' \/ (api'.ask = "oidc" /\ api'.status.granted)
  PROVE  AccessJustified'
<1> USE DEF AccessJustified
<1>1. pc' = "idle" /\ conn' = 0 /\ timers' = timers \cup ts
  BY DEF Finish, Idle
<1>2. HostKnown'
  BY <1>1, BoundsAssumption DEF HostKnown, environment, TypeOK, Incarnations
<1>3. ViewFaithful' /\ PassJustified'
  BY <1>1 DEF ViewFaithful, PassJustified, Providing, Removing
<1>4. SecretKept'
  BY <1>1 DEF SecretKept, Exists
<1>5. NoLeftoverAccess' /\ TokenBacked'
  BY DEF NoLeftoverAccess, TokenBacked, Exists, environment
<1>6. NeverForgotten'
  BY <1>1 DEF NeverForgotten
<1> QED
  BY <1>2, <1>3, <1>4, <1>5, <1>6

(* A grant is never overwritten, and one of this pass is not left out.     *)
LEMMA MergeKeeps ==
  ASSUME TypeOK, AccessJustified, pc # "idle"
  PROVE  /\ api.status.granted => Merged.granted
         /\ view.status.granted => Merged.granted
         /\ Merged.granted => api.status.granted \/ view.status.granted
<1>1. Result.granted = view.status.granted
  BY DEF Result, TypeOK, Request, Status
<1>2. was.granted => view.status.granted /\ api.status.granted
  BY DEF AccessJustified, ViewFaithful
<1>3. Merged.granted = IF view.status.granted = was.granted
                       THEN api.status.granted ELSE view.status.granted
  BY <1>1 DEF Merged, Merge
<1>4. /\ view.status.granted \in BOOLEAN /\ was.granted \in BOOLEAN
      /\ api.status.granted \in BOOLEAN
  BY DEF TypeOK, Request, Status
<1> QED
  BY <1>2, <1>3, <1>4

(* The status the worker writes.                                           *)
LEMMA PatchedKeeps ==
  ASSUME TypeOK, AccessJustified, pc \in Saving, Patched
  PROVE  /\ CopiesFaithful' /\ UNCHANGED cache
         /\ api'.st = api.st /\ api'.ask = api.ask /\ api'.fin = api.fin
         /\ api'.status.granted = Merged.granted
<1> USE DEF AccessJustified
<1>1. PICK o \in Request : o = [api EXCEPT !.status = Merged]
  BY SentType
<1>2. /\ o.st = api.st /\ o.ask = api.ask /\ o.fin = api.fin
      /\ o.status = Merged
  BY <1>1 DEF TypeOK, Request
<1>3. Exists(api) /\ Post(o) /\ UNCHANGED cache /\ pc # "idle"
  BY <1>1 DEF Patched, CanPatch, Saving
<1>4. CopiesFaithful'
  <2>1. Claimed => Kept(o)
    BY <1>2 DEF Claimed, Kept, Exists
  <2>2. o.st # "none" /\ (Past(api) => Past(o))
    BY <1>2, <1>3 DEF Exists, Past
  <2>3. api.status.granted => o.status.granted
    BY <1>2, <1>3, MergeKeeps
  <2> QED
    BY <1>2, <1>3, <2>1, <2>2, <2>3, PostCopies
<1>5. api.st = "deleting" => api.fin
  BY DEF CopiesFaithful
<1>6. api' = o
  BY <1>2, <1>3, <1>5 DEF Post, Settled
<1> QED
  BY <1>2, <1>3, <1>4, <1>6

(* Saving the status, or failing to.                                       *)
LEMMA SaveJustified ==
  ASSUME TypeOK, AccessJustified, UNCHANGED edits,
         \/ SaveUnchanged \/ SaveStatus \/ PatchRejected
         \/ pc \in Saving /\ Patched /\ Finish({"retry"})
         \/ pc \in Saving /\ UNCHANGED <<environment, platform, granted>> /\ Finish({"retry"})
  PROVE  AccessJustified'
<1> USE DEF AccessJustified
<1>1. pc \in Saving /\ pc # "idle"
  BY DEF SaveUnchanged, SaveStatus, PatchRejected, Saving
<1>2. UNCHANGED <<environment, granted, cache, secret, seen>>
  BY DEF SaveUnchanged, SaveStatus, PatchRejected, Patched, Outside, platform
<1>3. Wanted # {} \/ (view.ask = "oidc" /\ view.status.granted /\ api.ask = "oidc")
  BY <1>1 DEF Wanted, Saving, PassJustified, ViewFaithful
<1>4. CASE SaveStatus \/ (pc \in Saving /\ Patched /\ Finish({"retry"}))
  <2>1. PICK ts : Finish(ts) /\ Patched /\ ts \in {Wanted, {"retry"}}
    BY <1>4 DEF SaveStatus
  <2>2. /\ CopiesFaithful' /\ api'.st = api.st /\ api'.ask = api.ask /\ api'.fin = api.fin
        /\ api'.status.granted = Merged.granted
    BY <1>1, <2>1, PatchedKeeps
  <2>3. /\ view.status.granted => api'.status.granted
        /\ api'.status.granted => api.status.granted \/ view.status.granted
    BY <1>1, <2>2, MergeKeeps
  <2>4. ts # {} \/ (api'.ask = "oidc" /\ api'.status.granted)
    BY <1>3, <2>1, <2>2, <2>3
  <2> QED
    BY <1>1, <1>2, <2>1, <2>2, <2>3, <2>4, EndJustified
<1>5. CASE ~(SaveStatus \/ (pc \in Saving /\ Patched /\ Finish({"retry"})))
  <2>1. PICK ts : /\ Finish(ts) /\ UNCHANGED platform
                  /\ ts = {"retry"} \/ (ts = Wanted /\ Result = was)
    BY <1>5 DEF SaveUnchanged, PatchRejected, Outside
  <2>2. Result = was => (view.status.granted => api.status.granted)
    <3>1. Result.granted = view.status.granted
      BY DEF Result, TypeOK, Request, Status
    <3> QED
      BY <1>1, <3>1 DEF ViewFaithful
  <2>3. CopiesFaithful'
    BY <2>1, SameCopies DEF platform
  <2>4. api' = api
    BY <2>1 DEF platform
  <2>5. ts # {} \/ (api'.ask = "oidc" /\ api'.status.granted)
    BY <1>3, <2>1, <2>2, <2>4
  <2> QED
    BY <1>1, <1>2, <2>1, <2>3, <2>4, <2>5, EndJustified
<1> QED
  BY <1>4, <1>5

-----------------------------------------------------------------------------
(* The worker's other steps.                                               *)

(* Between the copy and the kind cluster.                                  *)
LEMMA LocalJustified ==
  ASSUME TypeOK, AccessJustified, Address \/ KeepToken \/ RefreshToken
  PROVE  AccessJustified'
<1> USE DEF AccessJustified
<1>1. UNCHANGED <<environment, granted, platform, budget, was, current, conn>>
  BY DEF Address, KeepToken, RefreshToken, Goto, Outside, copies
<1>2. /\ view' = [view EXCEPT !.address = view'.address] /\ view' \in Request
      /\ \/ pc = "address" /\ pc' = "annotate"
         \/ pc = "inspect" /\ pc' \in {"done", "grant"}
  <2>1. view \in Request /\ incarnation \in Incarnations
    BY DEF TypeOK
  <2>2. CASE Address
    <3>1. view' = [view EXCEPT !.address = incarnation]
      BY <2>2 DEF Address
    <3> QED
      BY <2>1, <2>2, <3>1 DEF Address, Request
  <2>3. CASE KeepToken \/ RefreshToken
    BY <2>1, <2>3 DEF KeepToken, RefreshToken, Goto, copies, Request
  <2> QED
    BY <2>2, <2>3
<1>3. view'.st = view.st /\ view'.ask = view.ask /\ view'.status = view.status
  BY <1>2 DEF TypeOK, Request
<1>4. CopiesFaithful' /\ NeverForgotten' /\ Claimed' = Claimed
  BY <1>1, <1>2, WithinPass DEF platform, budget
<1>5. HostKnown' /\ NoLeftoverAccess' /\ TokenBacked'
  BY <1>1 DEF HostKnown, NoLeftoverAccess, TokenBacked, environment, platform, budget
<1>6. ViewFaithful'
  <2>1. view = [api EXCEPT !.address = view.address]
          => view' = [api EXCEPT !.address = view'.address]
    BY <1>2 DEF TypeOK, Request
  <2> QED
    BY <1>1, <1>2, <1>3, <2>1 DEF ViewFaithful, Removing, platform
<1>7. PassJustified'
  BY <1>2, <1>3, <1>4 DEF PassJustified, Providing, Removing
<1>8. SecretKept'
  BY <1>1, <1>2, <1>3 DEF SecretKept, Exists, platform, budget
<1> QED
  BY <1>4, <1>5, <1>6, <1>7, <1>8

(* On the kind cluster.                                                    *)
LEMMA GrantJustified ==
  ASSUME TypeOK, AccessJustified, Grant \/ Prune \/ Clean
  PROVE  AccessJustified'
<1> USE DEF AccessJustified
<1>1. /\ UNCHANGED <<environment, platform, budget, view, was, current>>
      /\ conn' = incarnation \/ conn' = conn
  BY DEF Grant, Prune, Clean, Goto, Outside, copies
<1>2. \/ pc = "grant" /\ pc' = "issue" /\ granted'.account
      \/ pc = "prune" /\ pc' = "done" /\ granted'.account = granted.account
      \/ pc = "clean" /\ pc' = "removeFinalizer" /\ granted' = Nothing
  BY DEF Grant, Granting, Prune, Clean, Goto, TypeOK
<1>3. /\ CopiesFaithful' /\ NeverForgotten' /\ Claimed' = Claimed
      /\ (Past(cache))' = Past(cache)
  BY <1>1, <1>2, WithinPass DEF platform, budget
<1>4. HostKnown'
  <2>1. incarnation \in Int
    BY DEF TypeOK, Incarnations
  <2> QED
    BY <1>1, <2>1 DEF HostKnown, environment, platform, budget
<1>5. ViewFaithful'
  BY <1>1, <1>2 DEF ViewFaithful, Removing, platform
<1>6. PassJustified'
  BY <1>1, <1>2, <1>3 DEF PassJustified, Providing, Removing
<1>7. SecretKept'
  BY <1>1, <1>2 DEF SecretKept, Exists, platform, budget
<1>8. NoLeftoverAccess'
  BY <1>1, <1>2 DEF NoLeftoverAccess, PassJustified, Providing, Claimed, Kept, platform
<1>9. TokenBacked'
  <2>1. pc = "clean" => api.st # "live"
    BY CopyCases DEF PassJustified, Removing, Faithful, Past
  <2> QED
    BY <1>1, <1>2, <2>1 DEF TokenBacked, environment, platform
<1> QED
  BY <1>3, <1>4, <1>5, <1>6, <1>7, <1>8, <1>9

(* The Secret, and after it the grant.                                     *)
LEMMA SecretJustified ==
  ASSUME TypeOK, AccessJustified, IssueToken \/ ReconcileOIDCAccess
  PROVE  AccessJustified'
<1> USE DEF AccessJustified
<1>1. /\ UNCHANGED <<environment, granted, api, watch, cache, seen, budget, was, current, conn>>
      /\ view' = [view EXCEPT !.status.granted = TRUE]
      /\ \/ pc = "issue" /\ pc' = "prune"
         \/ pc = "oidc" /\ pc' = "done"
  BY DEF IssueToken, ReconcileOIDCAccess, StoreSecret, MarkGranted, platform
<1>2. /\ view.st # "none" /\ incarnation > 0
      /\ api.ask = "token" => pc = "issue"
  BY DEF IssueToken, ReconcileOIDCAccess, Answers, HostKnown, ViewFaithful, PassJustified
<1>3. \/ /\ secret'.inc = incarnation /\ secret' # NoSecret
         /\ api.ask = "token" => granted.account
      \/ pc = "oidc" /\ secret' = secret /\ seen # NoSecret
  <2>1. \/ pc = "issue" /\ StoreSecret(conn)
        \/ pc = "oidc" /\ StoreSecret(incarnation)
        \/ InPlace /\ UNCHANGED platform
    BY DEF IssueToken, ReconcileOIDCAccess
  <2>2. Answers
    BY DEF IssueToken, ReconcileOIDCAccess
  <2>3. InPlace => pc = "oidc" /\ seen # NoSecret
    BY <1>2 DEF InPlace, Fresh, NoSecret
  <2> QED
    BY <2>1, <2>2, <2>3, StoredSecret DEF platform
<1>4. view'.st = view.st /\ view'.ask = view.ask /\ view'.status.granted
  BY <1>1 DEF TypeOK, Request, Status
<1>5. CopiesFaithful' /\ NeverForgotten' /\ Claimed' = Claimed
  BY <1>1, WithinPass DEF budget
<1>6. HostKnown'
  <2>1. incarnation \in Int
    BY DEF TypeOK, Incarnations
  <2> QED
    BY <1>1, <1>2, <1>3, <2>1 DEF HostKnown, environment, budget
<1>7. ViewFaithful'
  BY <1>1, <1>4 DEF ViewFaithful, Removing
<1>8. PassJustified'
  BY <1>1, <1>4, <1>5 DEF PassJustified, Providing, Removing
<1>9. SecretKept'
  <2>1. api' = api /\ api.st # "none" /\ edits' = edits
    BY <1>1 DEF ViewFaithful, budget
  <2>2. secret' # NoSecret \/ (secret' = secret /\ seen # NoSecret)
    BY <1>3
  <2> QED
    BY <2>1, <2>2 DEF SecretKept, Exists
<1>10. NoLeftoverAccess' /\ TokenBacked'
  <2>1. host[Cluster]' = host[Cluster] /\ incarnation' = incarnation
    BY <1>1 DEF environment
  <2>2. api.ask = "token" => secret' = secret \/ granted.account
    BY <1>3
  <2> QED
    BY <1>1, <2>1, <2>2 DEF NoLeftoverAccess, TokenBacked
<1> QED
  BY <1>5, <1>6, <1>7, <1>8, <1>9, <1>10

(* All steps of the worker.                                                *)
LEMMA StepJustified ==
  ASSUME TypeOK, AccessJustified, Step
  PROVE  AccessJustified'
<1>1. CASE AddFinalizer \/ Annotate \/ RemoveFinalizer
  <2>1. pc \in Updating /\ Accepted /\ UNCHANGED edits
    BY <1>1 DEF AddFinalizer, Annotate, RemoveFinalizer, Updating, budget
  <2> QED
    BY <1>1, <2>1, UpdateJustified
<1>2. CASE SaveUnchanged \/ SaveStatus \/ PatchRejected
  <2>1. UNCHANGED edits
    BY <1>2 DEF SaveUnchanged, SaveStatus, PatchRejected, Outside, budget
  <2> QED
    BY <1>2, <2>1, SaveJustified
<1>3. CASE Rejected \/ Unreachable \/ SecretRejected
  <2>1. Goto("fail") /\ UNCHANGED <<environment, granted, platform, budget>> /\ pc # "idle"
    BY <1>3 DEF Rejected, Unreachable, SecretRejected, Outside, Updating, Connected
  <2>2. UNCHANGED <<environment, api, watch, cache, seen, edits, secret>>
    BY <2>1 DEF platform, budget
  <2>3. granted # Nothing => Claimed
    BY DEF AccessJustified, NoLeftoverAccess, Claimed, Kept
  <2> QED
    BY <2>1, <2>2, <2>3, FailJustified
<1> QED
  BY <1>1, <1>2, <1>3, LocalJustified, GrantJustified, SecretJustified DEF Step

-----------------------------------------------------------------------------
(* Failures, and the theorem.                                              *)

(* What is put on, or taken off, before an error.                          *)
LEMMA HalfDoneJustified ==
  ASSUME TypeOK, AccessJustified, GrantFails \/ CleanFails
  PROVE  AccessJustified'
<1>1. Goto("fail") /\ UNCHANGED <<environment, platform, edits>> /\ pc # "idle"
  BY DEF GrantFails, CleanFails, Fault
<1>2. UNCHANGED <<environment, api, watch, cache, seen, edits, secret>>
  BY <1>1 DEF platform
<1>3. granted.account => granted'.account
  BY DEF GrantFails, CleanFails, Granting, TypeOK
<1>4. granted' # Nothing => Claimed
  <2>1. CASE GrantFails
    BY <2>1 DEF GrantFails, AccessJustified, PassJustified, Providing
  <2>2. CASE CleanFails
    <3>1. granted = Nothing => granted' = Nothing
      <4> HAVE granted = Nothing
      <4>1. PICK ps : granted' = [granted EXCEPT !.perms = granted.perms \ ps]
        BY <2>2 DEF CleanFails
      <4> QED
        BY <4>1 DEF Nothing
    <3> QED
      BY <3>1 DEF AccessJustified, NoLeftoverAccess, Claimed, Kept
  <2> QED
    BY <2>1, <2>2
<1> QED
  BY <1>1, <1>2, <1>3, <1>4, FailJustified

(* A restart: the informer starts with what the API server has.            *)
LEMMA CrashJustified ==
  ASSUME TypeOK, AccessJustified, Crash
  PROVE  AccessJustified'
<1> USE DEF AccessJustified
<1>1. /\ UNCHANGED <<environment, granted, api, secret, edits>>
      /\ cache' = api /\ watch' = <<>> /\ queued' = Exists(api) /\ seen' = secret
      /\ pc' = "idle" /\ conn' = 0
  BY DEF Crash, Idle
<1>2. CopiesFaithful'
  <2>1. \A v \in Copies' : v = api
    BY <1>1 DEF Copies
  <2>2. Faithful(api, api)
    BY DEF Faithful, Kept, Exists, CopiesFaithful
  <2>3. CopiesInOrder'
    BY <1>1 DEF CopiesInOrder
  <2> QED
    BY <1>1, <2>1, <2>2, <2>3 DEF CopiesFaithful
<1>3. HostKnown'
  BY <1>1, BoundsAssumption DEF HostKnown, environment, TypeOK, Incarnations
<1>4. ViewFaithful' /\ PassJustified' /\ SecretKept' /\ NeverForgotten'
  BY <1>1 DEF ViewFaithful, PassJustified, SecretKept, NeverForgotten, Providing, Removing,
     Exists
<1>5. NoLeftoverAccess' /\ TokenBacked'
  BY <1>1 DEF NoLeftoverAccess, TokenBacked, environment, Exists
<1> QED
  BY <1>2, <1>3, <1>4, <1>5

(* All failures.                                                           *)
LEMMA FailureJustified ==
  ASSUME TypeOK, AccessJustified, Failure
  PROVE  AccessJustified'
<1>1. CASE AnswerLost
  <2>1. UNCHANGED edits
    BY <1>1 DEF AnswerLost, Fault
  <2>2. CASE /\ pc \in Updating /\ Accepted
             /\ pc' = "fail" /\ UNCHANGED <<view, was, updated, conn, schedule>>
    BY <2>1, <2>2, UpdateJustified
  <2>3. CASE /\ \/ pc = "issue" /\ Answers /\ StoreSecret(conn)
                \/ pc = "oidc" /\ Answers /\ StoreSecret(incarnation)
             /\ Goto("fail")
    <3>1. /\ secret'.inc = incarnation /\ secret' # NoSecret
          /\ api.ask = "token" => granted.account
          /\ incarnation > 0
      BY <2>3, StoredSecret
    <3>2. UNCHANGED <<environment, api, watch, cache, seen, edits, granted>> /\ pc # "idle"
      BY <2>1, <2>3 DEF StoreSecret
    <3>3. granted # Nothing => Claimed
      BY DEF AccessJustified, NoLeftoverAccess, Claimed, Kept
    <3> QED
      BY <2>3, <3>1, <3>2, <3>3, FailJustified
  <2>4. CASE pc \in Saving /\ Patched /\ Finish({"retry"})
    BY <2>1, <2>4, SaveJustified
  <2> QED
    BY <1>1, <2>2, <2>3, <2>4 DEF AnswerLost
<1>2. CASE CallFails
  <2>1. UNCHANGED <<environment, platform, granted, edits>> /\ pc # "idle"
    BY <1>2 DEF CallFails, Fault
  <2>2. CASE pc \in Saving
    BY <1>2, <2>1, <2>2, SaveJustified DEF CallFails
  <2>3. CASE pc \notin Saving
    <3>1. Goto("fail")
      BY <1>2, <2>3 DEF CallFails
    <3>2. UNCHANGED <<environment, api, watch, cache, seen, edits, secret>>
      BY <2>1 DEF platform
    <3>3. granted # Nothing => Claimed
      BY DEF AccessJustified, NoLeftoverAccess, Claimed, Kept
    <3> QED
      BY <2>1, <3>1, <3>2, <3>3, FailJustified
  <2> QED
    BY <2>2, <2>3
<1> QED
  BY <1>1, <1>2, HalfDoneJustified, CrashJustified DEF Failure

(* Every step of the system, whoever takes it.                             *)
LEMMA NextJustified ==
  ASSUME TypeOK, AccessJustified, [Next]_vars
  PROVE  AccessJustified'
<1>1. CASE UNCHANGED vars
  <2>1. UNCHANGED <<environment, granted, platform, schedule, worker, budget>>
    BY <1>1 DEF vars
  <2>2. CopiesFaithful' /\ Claimed' = Claimed /\ (Past(cache))' = Past(cache)
    BY <2>1, SameCopies DEF AccessJustified, platform
  <2>3. HostKnown' /\ NoLeftoverAccess' /\ TokenBacked'
    BY <2>1 DEF AccessJustified, HostKnown, NoLeftoverAccess, TokenBacked, environment,
       platform, budget, worker
  <2>4. ViewFaithful' /\ SecretKept' /\ NeverForgotten'
    BY <2>1 DEF AccessJustified, ViewFaithful, SecretKept, NeverForgotten, Removing, platform,
       schedule, worker, copies, budget
  <2>5. PassJustified'
    BY <2>1, <2>2 DEF AccessJustified, PassJustified, environment, worker, copies
  <2> QED
    BY <2>2, <2>3, <2>4, <2>5 DEF AccessJustified
<1> QED
  BY <1>1, UserJustified, AroundJustified, DeliverJustified, HostJustified, TakeJustified,
     StepJustified, FailureJustified DEF Next, Users

(* In every state the worker, its copies and the kind cluster agree as far *)
(* as the controller relies on it.                                         *)
THEOREM AccessKept == Spec => []AccessJustified
<1>1. Init => AccessJustified
  <2> SUFFICES ASSUME Init PROVE AccessJustified
    OBVIOUS
  <2> USE DEF Init
  <2>1. CopiesFaithful
    <3>1. \A v \in Copies : v = NoRequest
      BY DEF Copies
    <3>2. Faithful(NoRequest, NoRequest)
      BY DEF Faithful, NoRequest, NoStatus, Past
    <3>3. CopiesInOrder
      BY DEF CopiesInOrder
    <3> QED
      BY <3>1, <3>2, <3>3 DEF CopiesFaithful, NoRequest
  <2>2. HostKnown /\ ViewFaithful /\ PassJustified
    BY DEF HostKnown, ViewFaithful, PassJustified, Lifecycle!Init, NoSecret, Providing, Removing
  <2>3. SecretKept /\ NeverForgotten
    BY DEF SecretKept, NeverForgotten, NoRequest, Exists
  <2>4. NoLeftoverAccess /\ TokenBacked
    BY DEF NoLeftoverAccess, TokenBacked, NoRequest
  <2> QED
    BY <2>1, <2>2, <2>3, <2>4 DEF AccessJustified
<1>2. TypeOK /\ AccessJustified /\ [Next]_vars => AccessJustified'
  BY NextJustified
<1> QED
  BY <1>1, <1>2, TypeCorrect, PTL DEF Spec

(* No stale copy, failure or crash leaves anything on a kind cluster that  *)
(* no reconcile will remove.                                               *)
THEOREM NothingLeft == Spec => []NoLeftoverAccess
<1>1. AccessJustified => NoLeftoverAccess
  BY DEF AccessJustified
<1> QED
  BY <1>1, AccessKept, PTL

(* A token for the kind cluster that runs belongs to an account that is    *)
(* there, until the request is deleted.                                    *)
THEOREM TokensBacked == Spec => []TokenBacked
<1>1. AccessJustified => TokenBacked
  BY DEF AccessJustified
<1> QED
  BY <1>1, AccessKept, PTL

(* A request that needs the controller is always going to be looked at.    *)
THEOREM NothingForgotten == Spec => []NeverForgotten
<1>1. AccessJustified => NeverForgotten
  BY DEF AccessJustified
<1> QED
  BY <1>1, AccessKept, PTL

(* Phase Granted comes after the Secret it refers to.                      *)
THEOREM SecretBeforeGrant == Spec => []GrantedHasSecret
<1>1. AccessJustified => GrantedHasSecret
  BY DEF AccessJustified, SecretKept, GrantedHasSecret
<1> QED
  BY <1>1, AccessKept, PTL

(* A pass that fails on an old copy does not take a grant back.            *)
THEOREM GrantsStay == Spec => GrantNotLost
<1>1. TypeOK /\ AccessJustified /\ [Next]_vars
        => [api.status.granted => api'.status.granted]_vars
  <2> SUFFICES ASSUME TypeOK, AccessJustified, Next, api.status.granted
               PROVE  api'.status.granted
    BY DEF vars, platform
  <2>1. CASE UNCHANGED api
    BY <2>1
  <2>2. ASSUME NEW o \in Request, o.status = api.status, Post(o)
        PROVE  api'.status.granted
    BY <2>2, SettledKeeps DEF Post
  <2>3. CASE Users \/ CollectSecret \/ Deliver \/ DeliverSecret \/ Resync \/ TokenAges
    <3>1. CASE CreateRequest \/ BindRequest \/ EditRequest \/ DeleteRequest
      <4>1. PICK o \in Request : Post(o) /\ o.status = api.status
        BY <3>1, UserSends DEF AccessJustified, User
      <4> QED
        BY <2>2, <4>1
    <3>2. CASE UNCHANGED api
      BY <3>2
    <3> QED
      BY <2>3, <3>1, <3>2
      DEF Users, DeleteSecret, CollectSecret, Deliver, DeliverSecret, Resync, TokenAges, platform
  <2>4. CASE (\E t \in {"retry", "renewal"} : TimerFires(t)) \/ HostMoves \/ Take
    BY <2>1, <2>4 DEF TimerFires, HostMoves, Take, ReconcileMissing, ReconcileUnresolved,
       ReconcileDeleting, ReconcileLive, Reconcile, Outside, platform
  <2>5. CASE pc \in Updating /\ Accepted
    BY <2>5, AcceptedKeeps
  <2>6. CASE pc \in Saving /\ Patched
    <3>1. pc # "idle"
      BY <2>6 DEF Saving
    <3> QED
      BY <2>6, <3>1, PatchedKeeps, MergeKeeps
  <2>7. CASE Step
    BY <2>1, <2>5, <2>6, <2>7 DEF Step, AddFinalizer, Annotate, Rejected, RemoveFinalizer,
       SaveUnchanged, SaveStatus, PatchRejected, Unreachable, Address, KeepToken, RefreshToken,
       Grant, IssueToken, ReconcileOIDCAccess, SecretRejected, Prune, Clean, StoreSecret,
       Outside, Updating, platform
  <2>8. CASE Failure
    BY <2>1, <2>5, <2>6, <2>8 DEF Failure, GrantFails, CleanFails, AnswerLost, CallFails,
       Crash, StoreSecret, platform
  <2> QED
    BY <2>3, <2>4, <2>7, <2>8 DEF Next
<1> QED
  BY <1>1, TypeCorrect, AccessKept, PTL DEF Spec, GrantNotLost

-----------------------------------------------------------------------------
(* What is granted is there.                                               *)

(* What users send asks for the same, is an edit, or comes first.          *)
LEMMA UserAsks ==
  ASSUME TypeOK, CopiesFaithful,
         CreateRequest \/ BindRequest \/ EditRequest \/ DeleteRequest
  PROVE  /\ api = NoRequest \/ api'.want = api.want \/ edits' # 0
         /\ api'.gen \in Nat /\ api'.gen > api.gen /\ api'.status = api.status
<1>1. PICK o \in Request :
        /\ User(o) /\ o # api /\ o.status = api.status /\ o.gen > api.gen
        /\ api = NoRequest \/ o.want = api.want \/ edits' # 0
  BY UserSends
<1>2. api'.want = o.want /\ api'.gen = o.gen /\ api'.status = o.status /\ o.gen \in Nat
  BY <1>1, SettledKeeps DEF User, Post, Request
<1> QED
  BY <1>1, <1>2

(* Copies ask for the same after a write as long as the write does.        *)
LEMMA PostWants ==
  ASSUME TypeOK, CopiesFaithful, UNCHANGED cache,
         UNCHANGED <<api, watch>> \/ watch' = Append(watch, api'),
         api = NoRequest \/ api'.want = api.want,
         NEW v \in Copies', v.st # "none",
         \A o \in Copies : o.st # "none" => o.want = api.want
  PROVE  v.want = api'.want
<1>1. CASE UNCHANGED <<api, watch>>
  BY <1>1 DEF Copies
<1>2. CASE watch' = Append(watch, api')
  <2>1. v = cache \/ v = api' \/ \E i \in 1..Len(watch) : v = watch[i]
    BY <1>2 DEF Copies, TypeOK
  <2>2. v = api' \/ v \in Copies
    BY <2>1 DEF Copies
  <2>3. v \in Copies => api # NoRequest
    BY DEF CopiesFaithful, Faithful, NoRequest
  <2> QED
    BY <2>2, <2>3
<1> QED
  BY <1>1, <1>2

(* Writes of the worker change neither the generation nor what is asked    *)
(* for, and the status as in Merged only.                                  *)
LEMMA WorkerPosts ==
  ASSUME TypeOK, AccessJustified,
         (pc \in Updating /\ Accepted) \/ (pc \in Saving /\ Patched)
  PROVE  /\ UNCHANGED cache /\ (UNCHANGED <<api, watch>> \/ watch' = Append(watch, api'))
         /\ api'.want = api.want /\ api'.gen = api.gen /\ api'.ask = api.ask
         /\ api'.st = api.st \/ api'.st = "gone"
         /\ pc \in Updating => api'.status = api.status /\ view = [api EXCEPT !.address = view.address]
         /\ pc \in Saving => api'.status = Merged
<1>1. CASE pc \in Updating /\ Accepted
  <2>1. current /\ Post(Sent) /\ UNCHANGED cache /\ Sent \in Request /\ pc # "idle"
    BY <1>1, SentType DEF Accepted, CanUpdate, Updating
  <2>2. view = [api EXCEPT !.address = view.address]
    BY <1>1, <2>1 DEF AccessJustified, ViewFaithful, Updating, Removing
  <2>3. view.want = api.want /\ view.gen = api.gen
    BY <2>2 DEF TypeOK, Request
  <2>4. Sent.want = api.want /\ Sent.gen = api.gen
    BY <1>1, <2>3 DEF Sent, Updating, TypeOK, Request
  <2>5. api'.want = api.want /\ api'.gen = api.gen
    BY <2>1, <2>4, SettledKeeps DEF Post
  <2>6. pc \notin Saving
    BY <1>1 DEF Updating, Saving
  <2> QED
    BY <1>1, <2>1, <2>2, <2>5, <2>6, AcceptedKeeps DEF Post
<1>2. CASE pc \in Saving /\ Patched
  <2>1. PICK o \in Request : o = [api EXCEPT !.status = Merged]
    BY SentType
  <2>2. Post(o) /\ o.want = api.want /\ o.gen = api.gen /\ o.ask = api.ask /\ o.st = api.st
        /\ o.status = Merged
    BY <1>2, <2>1 DEF Patched, TypeOK, Request
  <2>3. /\ api'.want = api.want /\ api'.gen = api.gen /\ api'.ask = api.ask
        /\ api'.status = Merged /\ (api'.st = api.st \/ api'.st = "gone")
    BY <2>2, SettledKeeps DEF Post
  <2>4. pc \notin Updating
    BY <1>2 DEF Updating, Saving
  <2> QED
    BY <1>2, <2>2, <2>3, <2>4 DEF Post, Patched
<1> QED
  BY <1>1, <1>2

(* Users.                                                                  *)
LEMMA UserServed ==
  ASSUME TypeOK, AccessJustified, AccessServed,
         CreateRequest \/ BindRequest \/ EditRequest \/ DeleteRequest
  PROVE  AccessServed'
<1> USE DEF AccessServed
<1>1. /\ CopiesFaithful /\ api'.status = api.status
      /\ api = NoRequest \/ api'.want = api.want \/ edits' # 0
  BY UserAsks DEF AccessJustified
<1>2. PICK o \in Request :
        /\ User(o) /\ o # api
        /\ \/ api = NoRequest
           \/ api.st = "live" /\ o.ask = api.ask
  BY <1>1, UserSends
<1>3. /\ UNCHANGED <<environment, granted, cache, seen, pc, view>>
      /\ watch' = Append(watch, api') /\ api' = Settled(o)
  BY <1>2 DEF User, Post
<1>4. api # NoRequest => api'.ask = api.ask
  BY <1>2, <1>3, SettledKeeps
<1>5. edits' = 0 => edits = 0
  <2>1. edits \in Nat
    BY BoundsAssumption DEF TypeOK
  <2>2. edits' = edits \/ edits' = edits + 1
    BY DEF CreateRequest, BindRequest, EditRequest, DeleteRequest, Edit
  <2> QED
    BY <2>1, <2>2
<1>6. api = NoRequest => pc = "idle" /\ ~api.status.granted
  BY DEF AccessJustified, ViewFaithful, NoRequest, NoStatus
<1>7. PassKind'
  BY <1>3 DEF PassKind, Past
<1>8. WantKept'
  <2> SUFFICES ASSUME edits' = 0 PROVE WantKept'
    BY DEF WantKept
  <2>1. edits = 0 /\ (api = NoRequest \/ api'.want = api.want)
    BY <1>1, <1>5
  <2>2. \A v \in Copies' : v.st # "none" => v.want = api'.want
    BY <1>1, <1>3, <2>1, PostWants DEF WantKept
  <2>3. pc' # "idle" => view'.want = api'.want
    BY <1>3, <1>6, <2>1 DEF WantKept
  <2> QED
    BY <2>2, <2>3 DEF WantKept
<1>9. GrantKnown'
  BY <1>1, <1>3 DEF GrantKnown, environment
<1>10. GrantServed'
  BY <1>1, <1>3, <1>4, <1>5, <1>6 DEF GrantServed, Served, Past, environment
<1> QED
  BY <1>7, <1>8, <1>9, <1>10

(* Secrets, timers, a resync, and the informer.                            *)
LEMMA AroundServed ==
  ASSUME TypeOK, AccessJustified, AccessServed,
         \/ DeleteSecret \/ CollectSecret \/ Deliver \/ DeliverSecret \/ Resync \/ TokenAges
         \/ \E t \in {"retry", "renewal"} : TimerFires(t)
  PROVE  AccessServed'
<1> USE DEF AccessServed
<1>1. UNCHANGED <<environment, granted, api, pc, view>>
  BY DEF DeleteSecret, CollectSecret, Deliver, DeliverSecret, Resync, TokenAges, TimerFires,
     worker, copies, platform
<1>2. edits' = 0 => edits = 0
  BY BoundsAssumption DEF DeleteSecret, CollectSecret, Deliver, DeliverSecret, Resync,
     TokenAges, TimerFires, Edit, budget, TypeOK
<1>3. (Past(cache) => Past(cache')) /\ Copies' \subseteq Copies
  <2>1. CASE Deliver
    <3>1. /\ watch \in Seq(Request) /\ watch # <<>>
          /\ cache' = Head(watch) /\ watch' = Tail(watch)
      BY <2>1 DEF Deliver, TypeOK
    <3>2. cache' = watch[1] /\ 1 \in 1..Len(watch)
      BY <3>1
    <3>3. \A i \in 1..Len(watch') : i + 1 \in 1..Len(watch) /\ watch'[i] = watch[i + 1]
      BY <3>1
    <3>4. Past(cache) => Past(cache')
      BY <3>2 DEF AccessJustified, CopiesFaithful, CopiesInOrder
    <3> QED
      BY <3>2, <3>3, <3>4 DEF Copies
  <2>2. CASE UNCHANGED <<cache, watch>>
    BY <2>2 DEF Copies, Past
  <2> QED
    BY <2>1, <2>2 DEF DeleteSecret, CollectSecret, DeliverSecret, Resync, TokenAges, TimerFires,
       platform
<1>4. PassKind'
  BY <1>1, <1>3 DEF PassKind, Past
<1>5. WantKept'
  BY <1>1, <1>2, <1>3 DEF WantKept
<1>6. GrantKnown'
  <2>1. seen' = seen \/ seen' = secret \/ (seen' # NoSecret => seen # NoSecret /\ seen'.inc = seen.inc)
    BY DEF DeleteSecret, CollectSecret, Deliver, DeliverSecret, Resync, TokenAges, TimerFires,
       platform, TypeOK, Secrets
  <2>2. seen' # NoSecret => seen'.inc > 0 /\ seen'.inc <= incarnation
    BY <2>1 DEF GrantKnown, AccessJustified, HostKnown
  <2> QED
    BY <1>1, <2>2 DEF GrantKnown, environment
<1>7. GrantServed'
  BY <1>1, <1>2, <1>3 DEF GrantServed, Served, Past, environment
<1> QED
  BY <1>4, <1>5, <1>6, <1>7

(* A kind cluster comes, when nothing has been granted, or goes.           *)
LEMMA HostServed ==
  ASSUME TypeOK, AccessJustified, AccessServed, HostMoves
  PROVE  AccessServed'
<1> USE DEF AccessServed
<1>1. UNCHANGED <<api, watch, cache, seen, pc, view>>
  BY DEF HostMoves, platform, worker, copies
<1>2. edits \in Nat /\ incarnation \in Nat /\ seen.inc \in Nat
  BY BoundsAssumption DEF TypeOK, Incarnations, Secrets
<1>3. \/ /\ host[Cluster] # "absent" \/ host'[Cluster] = "absent"
         /\ UNCHANGED <<incarnation, edits>>
      \/ /\ incarnation' = incarnation + 1
         /\ edits' = edits + 1 \/ (incarnation = 0 /\ edits' = edits)
  BY <1>2 DEF HostMoves, Edit
<1>4. granted' = IF host'[Cluster] = "absent" THEN Nothing ELSE granted
  BY DEF HostMoves
<1>5. PassKind' /\ WantKept'
  BY <1>1, <1>2, <1>3 DEF PassKind, WantKept, Copies, Past
<1>6. GrantKnown'
  BY <1>1, <1>2, <1>3 DEF GrantKnown
<1>7. GrantServed'
  <2> SUFFICES ASSUME edits' = 0, host'[Cluster] # "absent", api'.ask = "token"
               PROVE  GrantServed'
    BY DEF GrantServed
  <2>1. granted' = granted /\ edits = 0
    BY <1>2, <1>3, <1>4
  <2>2. CASE host[Cluster] # "absent"
    BY <1>1, <2>1, <2>2 DEF GrantServed, Served, Past
  <2>3. CASE incarnation = 0
    BY <1>1, <1>2, <2>3 DEF GrantServed, GrantKnown
  <2> QED
    BY <1>2, <1>3, <2>1, <2>2, <2>3
<1> QED
  BY <1>5, <1>6, <1>7

(* The worker takes the key, and with it a copy.                           *)
LEMMA TakeServed ==
  ASSUME TypeOK, AccessJustified, AccessServed, Take
  PROVE  AccessServed'
<1> USE DEF AccessServed
<1>1. UNCHANGED <<environment, granted, api, watch, cache, seen, edits>> /\ pc = "idle"
  BY DEF Take, ReconcileMissing, ReconcileUnresolved, ReconcileDeleting, ReconcileLive,
     Reconcile, Dequeue, Outside, platform, budget
<1>2. CASE ReconcileMissing
  <2>1. pc' = "idle"
    BY <1>2 DEF ReconcileMissing, Dequeue
  <2> QED
    BY <1>1, <2>1 DEF PassKind, WantKept, GrantKnown, GrantServed, Providing, Removing, Copies,
       Past, Served, environment
<1>3. CASE ReconcileUnresolved \/ ReconcileDeleting \/ ReconcileLive
  <2>1. /\ view' = cache /\ Exists(cache)
        /\ pc' \in {"fail", "clean", "address", "addFinalizer"}
        /\ pc' = "clean" => cache.st = "deleting"
        /\ pc' \in {"address", "addFinalizer"} => cache.st = "live"
    BY <1>3 DEF ReconcileUnresolved, ReconcileDeleting, ReconcileLive, Reconcile, Dequeue, Exists
  <2>2. cache.status.granted => api.status.granted
    BY CopyCases DEF AccessJustified, Faithful
  <2>3. PassKind'
    BY <1>1, <2>1 DEF PassKind, Providing, Removing, Past, Exists
  <2>4. WantKept'
    BY <1>1, <2>1 DEF WantKept, Copies, Exists
  <2>5. GrantKnown'
    BY <1>1, <2>1, <2>2 DEF GrantKnown, environment
  <2>6. GrantServed'
    BY <1>1, <2>1, <2>2 DEF GrantServed, Served, Past, environment
  <2> QED
    BY <2>3, <2>4, <2>5, <2>6
<1> QED
  BY <1>2, <1>3 DEF Take

(* The worker writes to the request.                                       *)
LEMMA WriteServed ==
  ASSUME TypeOK, AccessJustified, AccessServed, UNCHANGED edits,
         \/ AddFinalizer \/ Annotate
         \/ /\ (pc \in Updating /\ Accepted) \/ (pc \in Saving /\ Patched)
            /\ pc' = "idle" \/ (pc' = "fail" /\ view' = view)
  PROVE  AccessServed'
<1> USE DEF AccessServed
<1>1. /\ (pc \in Updating /\ Accepted) \/ (pc \in Saving /\ Patched)
      /\ pc # "idle" /\ UNCHANGED <<environment, granted, seen>>
  BY DEF AddFinalizer, Annotate, Updating, Saving, Accepted, Patched
<1>2. /\ UNCHANGED cache
      /\ UNCHANGED <<api, watch>> \/ watch' = Append(watch, api')
      /\ api'.want = api.want /\ api'.ask = api.ask
      /\ api'.st = api.st \/ api'.st = "gone"
      /\ pc \in Updating => api'.status = api.status /\ view = [api EXCEPT !.address = view.address]
      /\ pc \in Saving => api'.status = Merged
  BY <1>1, WorkerPosts
<1>3. api'.status.granted => api.status.granted \/ view.status.granted
  BY <1>1, <1>2, MergeKeeps DEF Updating, Saving
<1>4. /\ pc' # "idle" => /\ view'.st = view.st /\ view'.status.granted = view.status.granted
                         /\ view'.want = view.want
      /\ pc' \in {"address", "inspect", "oidc"} => view.st = "live"
      /\ pc' \in {"idle", "address", "inspect", "oidc", "fail"}
  <2>1. CASE AddFinalizer \/ Annotate
    <3>1. view' = api' /\ pc \in {"addFinalizer", "annotate"} /\ Exists(api)
      BY <2>1 DEF AddFinalizer, Annotate, Decoded, Accepted, CanUpdate
    <3>2. view.st = "live"
      BY <3>1 DEF PassKind, Providing
    <3>3. api'.st = api.st
      BY <3>1, <1>1, AcceptedKeeps DEF Updating, Saving
    <3>4. view.st = api.st /\ view.status = api.status /\ view.want = api.want
      BY <1>2, <3>1 DEF Updating, TypeOK, Request
    <3> QED
      BY <1>2, <2>1, <3>1, <3>2, <3>3, <3>4 DEF Updating, AddFinalizer, Annotate
  <2>2. CASE pc' = "idle" \/ (pc' = "fail" /\ view' = view)
    BY <2>2
  <2> QED
    BY <2>1, <2>2
<1>5. PassKind'
  BY <1>1, <1>2, <1>4 DEF PassKind, Providing, Removing, Past
<1>6. WantKept'
  <2> SUFFICES ASSUME edits = 0 PROVE WantKept'
    BY DEF WantKept
  <2>1. \A v \in Copies' : v.st # "none" => v.want = api'.want
    BY <1>2, PostWants DEF AccessJustified, WantKept
  <2>2. pc' # "idle" => view'.want = api'.want
    BY <1>1, <1>2, <1>4 DEF WantKept
  <2> QED
    BY <2>1, <2>2 DEF WantKept
<1>7. GrantKnown'
  BY <1>1, <1>3, <1>4 DEF GrantKnown, environment
<1>8. GrantServed'
  <2> SUFFICES ASSUME edits = 0, host[Cluster] # "absent", api.ask = "token"
               PROVE  GrantServed'
    BY <1>1, <1>2 DEF GrantServed, environment
  <2>1. ~Past(cache) /\ api'.status.granted => Served(api.want)
    BY <1>1, <1>3 DEF GrantServed, PassKind
  <2>2. pc' # "idle" /\ view'.st = "live" /\ view'.status.granted => Served(api.want)
    BY <1>1, <1>4 DEF GrantServed
  <2>3. (Served(api.want))' = Served(api.want) /\ (Past(cache))' = Past(cache)
    BY <1>1, <1>2 DEF Served, Past
  <2>4. pc' # "issue"
    BY <1>4
  <2> QED
    BY <2>1, <2>2, <2>3, <2>4 DEF GrantServed
<1> QED
  BY <1>5, <1>6, <1>7, <1>8

(* The worker fails, or ends its pass: nothing that was served is gone.    *)
LEMMA StopServed ==
  ASSUME TypeOK, AccessJustified, AccessServed, pc # "idle",
         pc' = "idle" \/ (pc' = "fail" /\ view' = view),
         UNCHANGED <<environment, api, watch, cache, seen, edits>>,
         edits = 0 /\ view.st = "live" /\ api.ask = "token" /\ Served(api.want)
           => (Served(api.want))'
  PROVE  AccessServed'
<1> USE DEF AccessServed
<1>1. PassKind' /\ WantKept' /\ GrantKnown'
  BY DEF PassKind, WantKept, GrantKnown, Providing, Removing, Past, Copies, environment
<1>2. GrantServed'
  BY DEF GrantServed, PassKind, Past, environment
<1> QED
  BY <1>1, <1>2

(* The worker's other steps.                                               *)
LEMMA WorkServed ==
  ASSUME TypeOK, AccessJustified, AccessServed,
         \/ Address \/ KeepToken \/ RefreshToken \/ Grant \/ IssueToken
         \/ ReconcileOIDCAccess \/ Prune \/ Clean
  PROVE  AccessServed'
<1> USE DEF AccessServed
<1>1. /\ UNCHANGED <<environment, api, watch, cache, seen, edits>>
      /\ pc \in {"address", "inspect", "grant", "issue", "oidc", "prune", "clean"}
      /\ pc' \in {"annotate", "done", "grant", "issue", "prune", "removeFinalizer"}
  BY DEF Address, KeepToken, RefreshToken, Grant, IssueToken, ReconcileOIDCAccess, StoreSecret,
     MarkGranted, Prune, Clean, Goto, Outside, platform, budget
<1>2. /\ view'.st = view.st /\ view'.want = view.want
      /\ view'.status.granted = view.status.granted \/ IssueToken \/ ReconcileOIDCAccess
  BY DEF Address, KeepToken, RefreshToken, Grant, IssueToken, ReconcileOIDCAccess, MarkGranted,
     Prune, Clean, Goto, copies, TypeOK, Request
<1>3. pc' = "removeFinalizer" => pc = "clean"
  BY DEF Address, KeepToken, RefreshToken, Grant, IssueToken, ReconcileOIDCAccess, MarkGranted,
     Prune, Clean, Goto
<1>4. pc # "clean" => view.st = "live"
  BY <1>1 DEF PassKind, Providing
<1>5. PassKind'
  <2>1. pc' \in Providing => pc # "clean"
    BY DEF Clean, Goto, Providing, Address, KeepToken, RefreshToken, Grant, IssueToken,
       ReconcileOIDCAccess, MarkGranted, Prune
  <2>2. pc = "clean" => view.st = "deleting"
    BY DEF PassKind, Removing
  <2> QED
    BY <1>1, <1>2, <1>3, <1>4, <2>1, <2>2 DEF PassKind, Removing, Past
<1>6. WantKept'
  BY <1>1, <1>2 DEF WantKept, Copies
<1>7. pc' = "issue" \/ IssueToken \/ ReconcileOIDCAccess => host[Cluster] # "absent" /\ incarnation > 0
  <2>1. pc' = "issue" => Grant
    BY <1>1 DEF Address, KeepToken, RefreshToken, IssueToken, ReconcileOIDCAccess, MarkGranted,
       Prune, Clean, Goto
  <2> QED
    BY <2>1 DEF Grant, IssueToken, ReconcileOIDCAccess, Answers, AccessJustified, HostKnown
<1>8. GrantKnown'
  BY <1>1, <1>2, <1>7 DEF GrantKnown, environment
<1>9. GrantServed'
  <2> SUFFICES ASSUME edits = 0, host[Cluster] # "absent", api.ask = "token"
               PROVE  GrantServed'
    BY <1>1 DEF GrantServed, environment
  <2>1. view.want = api.want
    BY <1>1 DEF WantKept
  <2>2. view.st = "live" /\ Served(api.want) => (Served(api.want))'
    <3>1. pc # "clean" => granted' = granted \/ Grant \/ Prune
      BY DEF Address, KeepToken, RefreshToken, IssueToken, ReconcileOIDCAccess, StoreSecret, Clean
    <3>2. view.st = "live" => pc # "clean"
      BY DEF PassKind, Removing
    <3>3. Grant \/ Prune => (Served(api.want) => (Served(api.want))')
      BY <1>1, <2>1 DEF Grant, Granting, Prune, Served, TypeOK
    <3> QED
      BY <1>1, <3>1, <3>2, <3>3 DEF Served
  <2>3. pc' = "issue" => (Served(api.want))'
    <3>1. pc' = "issue" => Grant
      BY <1>1 DEF Address, KeepToken, RefreshToken, IssueToken, ReconcileOIDCAccess, MarkGranted,
         Prune, Clean, Goto
    <3> QED
      BY <1>1, <2>1, <3>1 DEF Grant, Granting, Served, TypeOK
  <2>4. IssueToken => Served(api.want)
    BY DEF IssueToken, GrantServed
  <2>5. ~ReconcileOIDCAccess
    BY DEF ReconcileOIDCAccess, AccessJustified, PassJustified, ViewFaithful
  <2>6. ~Past(cache) /\ api.status.granted => view.st = "live" /\ Served(api.want)
    BY <1>1 DEF GrantServed, PassKind
  <2>7. view'.st = "live" /\ view'.status.granted => view.st = "live" /\ Served(api.want)
    BY <1>1, <1>2, <2>4, <2>5 DEF GrantServed
  <2> QED
    BY <1>1, <2>2, <2>3, <2>6, <2>7 DEF GrantServed, Past
<1> QED
  BY <1>5, <1>6, <1>8, <1>9

(* A write, whether the answer comes or not, and a pass that ends or fails. *)
LEMMA EndServed ==
  ASSUME TypeOK, AccessJustified, AccessServed,
         \/ AddFinalizer \/ Annotate \/ RemoveFinalizer \/ SaveStatus
         \/ Rejected \/ SaveUnchanged \/ PatchRejected \/ Unreachable \/ SecretRejected
         \/ GrantFails \/ CleanFails \/ AnswerLost \/ CallFails
  PROVE  AccessServed'
<1>1. CASE AddFinalizer \/ Annotate
  <2>1. UNCHANGED edits
    BY <1>1 DEF AddFinalizer, Annotate, budget
  <2> QED
    BY <1>1, <2>1, WriteServed
<1>2. CASE RemoveFinalizer \/ SaveStatus
  <2>1. /\ UNCHANGED edits /\ pc' = "idle"
        /\ (pc \in Updating /\ Accepted) \/ (pc \in Saving /\ Patched)
    BY <1>2 DEF RemoveFinalizer, SaveStatus, Finish, Idle, budget, Updating
  <2> QED
    BY <2>1, WriteServed
<1>3. CASE Rejected \/ SaveUnchanged \/ PatchRejected \/ Unreachable \/ SecretRejected \/ CallFails
  <2>1. /\ pc # "idle" /\ UNCHANGED <<environment, platform, edits, granted>>
        /\ pc' = "idle" \/ (pc' = "fail" /\ view' = view)
    BY <1>3 DEF Rejected, SaveUnchanged, PatchRejected, Unreachable, SecretRejected, CallFails,
       Fault, Goto, Finish, Idle, Outside, copies, budget, Updating, Saving, Connected
  <2>2. (Served(api.want))' = Served(api.want)
    BY <2>1 DEF Served, platform
  <2> QED
    BY <2>1, <2>2, StopServed DEF platform
<1>4. CASE GrantFails \/ CleanFails
  <2>1. /\ pc # "idle" /\ UNCHANGED <<environment, platform, edits>>
        /\ pc' = "fail" /\ view' = view
    BY <1>4 DEF GrantFails, CleanFails, Fault, Goto, copies
  <2>2. ASSUME edits = 0, view.st = "live", Served(api.want) PROVE (Served(api.want))'
    <3>1. view.want = api.want /\ pc # "clean"
      BY <2>1, <2>2 DEF AccessServed, WantKept, PassKind, Removing
    <3>2. CASE GrantFails
      BY <2>1, <2>2, <3>2 DEF GrantFails, Granting, Served, platform
    <3>3. CASE CleanFails
      <4>1. PICK ps \in SUBSET (granted.perms \ view.want) :
              granted' = [granted EXCEPT !.perms = granted.perms \ ps]
        BY <3>1, <3>3 DEF CleanFails
      <4>2. granted'.account = granted.account /\ granted'.perms = granted.perms \ ps
        BY <4>1 DEF TypeOK
      <4> QED
        BY <2>1, <2>2, <3>1, <4>1, <4>2 DEF Served, platform
    <3> QED
      BY <1>4, <3>2, <3>3
  <2> QED
    BY <2>1, <2>2, StopServed DEF platform
<1>5. CASE AnswerLost
  <2>1. UNCHANGED edits
    BY <1>5 DEF AnswerLost, Fault
  <2>2. CASE pc \in {"issue", "oidc"}
    <3>1. /\ pc # "idle" /\ UNCHANGED <<environment, api, watch, cache, seen, granted>>
          /\ pc' = "fail" /\ view' = view
      BY <1>5, <2>2 DEF AnswerLost, StoreSecret, Goto, copies, Updating, Saving
    <3>2. (Served(api.want))' = Served(api.want)
      BY <3>1 DEF Served
    <3> QED
      BY <2>1, <3>1, <3>2, StopServed
  <2>3. CASE pc \notin {"issue", "oidc"}
    <3>1. /\ (pc \in Updating /\ Accepted) \/ (pc \in Saving /\ Patched)
          /\ pc' = "idle" \/ (pc' = "fail" /\ view' = view)
      BY <1>5, <2>3 DEF AnswerLost, Finish, Idle
    <3> QED
      BY <2>1, <3>1, WriteServed
  <2> QED
    BY <2>2, <2>3
<1> QED
  BY <1>1, <1>2, <1>3, <1>4, <1>5

(* A restart.                                                              *)
LEMMA CrashServed ==
  ASSUME TypeOK, AccessJustified, AccessServed, Crash
  PROVE  AccessServed'
<1> USE DEF AccessServed
<1>1. /\ UNCHANGED <<environment, granted, api, secret, edits>>
      /\ cache' = api /\ watch' = <<>> /\ seen' = secret /\ pc' = "idle"
  BY DEF Crash, Idle
<1>2. Past(cache) => Past(api)
  BY CopyCases DEF AccessJustified, Faithful
<1>3. \A v \in Copies' : v = api
  BY <1>1 DEF Copies
<1>4. PassKind' /\ WantKept'
  BY <1>1, <1>3 DEF PassKind, WantKept, Providing, Removing
<1>5. GrantKnown' /\ GrantServed'
  BY <1>1, <1>2 DEF GrantKnown, GrantServed, AccessJustified, HostKnown, Served, Past, environment
<1> QED
  BY <1>4, <1>5

(* Every step of the system.                                               *)
LEMMA NextServed ==
  ASSUME TypeOK, AccessJustified, AccessServed, [Next]_vars
  PROVE  AccessServed'
<1>1. CASE UNCHANGED vars
  BY <1>1 DEF AccessServed, PassKind, WantKept, GrantKnown, GrantServed, Providing, Removing,
     Past, Copies, Served, vars, environment, platform, worker, copies, budget
<1>2. CASE Next
  BY <1>2, UserServed, AroundServed, HostServed, TakeServed, WorkServed, EndServed, CrashServed
  DEF Next, Users, Step, Failure
<1> QED
  BY <1>1, <1>2

(* In every state what the request was granted, or is about to be, is on   *)
(* the kind cluster, as far as no deletion has overtaken it.               *)
THEOREM GrantsServed == Spec => []AccessServed
<1>1. Init => AccessServed
  BY DEF Init, AccessServed, PassKind, WantKept, GrantKnown, GrantServed, Providing, Removing,
     Copies, NoRequest, NoStatus, NoSecret
<1>2. TypeOK /\ AccessJustified /\ AccessServed /\ [Next]_vars => AccessServed'
  BY NextServed
<1> QED
  BY <1>1, <1>2, TypeCorrect, AccessKept, PTL DEF Spec

(* Phase Granted tells the truth unless somebody has interfered: account   *)
(* and permissions are there, whatever failed or was cleaned up since.     *)
THEOREM GrantsBacked == Spec => []GrantBacked
<1>1. AccessJustified /\ AccessServed => GrantBacked
  <2> SUFFICES ASSUME AccessJustified, AccessServed, api.st = "live" PROVE GrantBacked
    BY DEF GrantBacked
  <2>1. ~Past(cache)
    BY CopyCases DEF AccessJustified, Faithful, Past
  <2> QED
    BY <2>1 DEF AccessServed, GrantServed, GrantBacked
<1> QED
  BY <1>1, AccessKept, GrantsServed, PTL

(* A token the worker keeps is for the kind cluster there is, and backed,  *)
(* unless somebody has interfered.                                         *)
THEOREM KeptTokensSound == Spec => KeptTokenSound
<1>1. TypeOK /\ AccessJustified /\ AccessServed /\ [Next]_vars
        => [pc = "inspect" /\ pc' = "done" /\ host[Cluster] # "absent" /\ edits = 0 =>
              seen.inc = incarnation /\ Served(view.want)]_vars
  <2> SUFFICES ASSUME TypeOK, AccessJustified, AccessServed, Next,
                      pc = "inspect", pc' = "done", host[Cluster] # "absent", edits = 0
               PROVE  seen.inc = incarnation /\ Served(view.want)
    OBVIOUS
  <2>1. KeepToken
    <3>1. Step \/ CallFails \/ Crash \/ AnswerLost
      BY DEF Next, Users, CreateRequest, BindRequest, EditRequest, DeleteRequest, User,
         DeleteSecret, CollectSecret, Deliver, DeliverSecret, Resync, TokenAges, TimerFires,
         HostMoves, Take, ReconcileMissing, ReconcileUnresolved, ReconcileDeleting,
         ReconcileLive, Reconcile, Dequeue, Failure, GrantFails, CleanFails, worker
    <3> QED
      BY <3>1 DEF Step, AddFinalizer, Annotate, Rejected, RemoveFinalizer, SaveUnchanged,
         SaveStatus, PatchRejected, Unreachable, Address, RefreshToken, Grant, IssueToken,
         ReconcileOIDCAccess, SecretRejected, Prune, Clean, CallFails, Crash, AnswerLost,
         Updating, Saving, Connected, Idle, Goto
  <2>2. view.status.granted /\ seen # NoSecret
    BY <2>1 DEF KeepToken, StillFresh
  <2>3. seen.inc = incarnation
    <3>1. seen.inc \in Nat /\ incarnation \in Nat
      BY BoundsAssumption DEF TypeOK, Secrets, Incarnations
    <3> QED
      BY <2>2, <3>1 DEF AccessJustified, HostKnown, AccessServed, GrantKnown
  <2>4. view.st = "live" /\ view.want = api.want /\ api.ask = "token"
    BY DEF AccessServed, PassKind, WantKept, Providing, AccessJustified, PassJustified, ViewFaithful
  <2> QED
    BY <2>2, <2>3, <2>4 DEF AccessServed, GrantServed
<1> QED
  BY <1>1, TypeCorrect, AccessKept, GrantsServed, PTL DEF Spec, KeptTokenSound

-----------------------------------------------------------------------------
(* What is observed.                                                       *)

(* No copy is of a later generation than the stored request.               *)
LEMMA NoneAhead ==
  ASSUME TypeOK, CopiesFaithful, ObservedKnown
  PROVE  /\ cache.gen <= api.gen /\ \A i \in 1..Len(watch) : watch[i].gen <= api.gen
         /\ cache.gen \in Nat /\ api.gen \in Nat /\ view.gen \in Nat
         /\ \A i \in 1..Len(watch) : watch[i].gen \in Nat
         /\ api.status.obsGen \in Nat
<1>1. /\ cache.gen \in Nat /\ api.gen \in Nat /\ view.gen \in Nat /\ api.status.obsGen \in Nat
      /\ \A i \in 1..Len(watch) : watch[i].gen \in Nat
      /\ Len(watch) \in Nat /\ (watch = <<>> <=> Len(watch) = 0)
  <2>1. watch \in Seq(Request) /\ api \in Request /\ cache \in Request /\ view \in Request
    BY DEF TypeOK
  <2>2. \A o \in Request : o.gen \in Nat /\ o.status.obsGen \in Nat
    BY DEF Request, Status
  <2>3. \A i \in 1..Len(watch) : watch[i] \in Request
    BY <2>1
  <2> QED
    BY <2>1, <2>2, <2>3
<1>2. CASE watch = <<>>
  BY <1>1, <1>2 DEF CopiesFaithful, CopiesInOrder
<1>3. CASE watch # <<>>
  <2>1. Len(watch) \in 1..Len(watch) /\ api = watch[Len(watch)]
    BY <1>1, <1>3 DEF CopiesFaithful, CopiesInOrder
  <2>2. \A i \in 1..Len(watch) : i < Len(watch) \/ i = Len(watch)
    BY <1>1
  <2>3. \A i \in 1..Len(watch) : watch[i].gen <= api.gen
    BY <1>1, <2>1, <2>2 DEF ObservedKnown
  <2> QED
    BY <1>1, <2>1, <2>3 DEF ObservedKnown
<1> QED
  BY <1>2, <1>3

(* A write of a generation that is not older keeps the order.              *)
LEMMA PostInOrder ==
  ASSUME TypeOK, CopiesFaithful, ObservedKnown, UNCHANGED cache, api.gen <= api'.gen,
         api'.gen \in Nat,
         UNCHANGED <<api, watch>> \/ watch' = Append(watch, api')
  PROVE  /\ \A i \in 1..Len(watch') : cache'.gen <= watch'[i].gen
         /\ \A i, j \in 1..Len(watch') : i < j => watch'[i].gen <= watch'[j].gen
<1>1. CASE UNCHANGED <<api, watch>>
  BY <1>1 DEF ObservedKnown
<1>2. CASE watch' = Append(watch, api')
  <2> DEFINE n == Len(watch)
  <2>1. /\ n \in Nat /\ Len(watch') = n + 1 /\ watch'[n + 1] = api'
        /\ \A i \in 1..n : watch'[i] = watch[i]
    BY <1>2 DEF TypeOK
  <2>2. \A i \in 1..(n + 1) : i \in 1..n \/ i = n + 1
    BY <2>1
  <2>3. cache.gen <= api'.gen /\ \A i \in 1..n : watch[i].gen <= api'.gen
    BY NoneAhead
  <2>4. \A i \in 1..(n + 1) : cache.gen <= watch'[i].gen
    BY <2>1, <2>2, <2>3 DEF ObservedKnown
  <2>5. ASSUME NEW i \in 1..(n + 1), NEW j \in 1..(n + 1), i < j
        PROVE  watch'[i].gen <= watch'[j].gen
    <3>1. i \in 1..n
      BY <2>1, <2>5
    <3>2. CASE j \in 1..n
      BY <2>1, <2>5, <3>1, <3>2 DEF ObservedKnown
    <3>3. CASE j = n + 1
      BY <2>1, <2>3, <3>1, <3>3
    <3> QED
      BY <2>2, <3>2, <3>3
  <2> QED
    BY <2>1, <2>4, <2>5
<1> QED
  BY <1>1, <1>2

(* What is written as observed is what was, or the generation of the copy. *)
LEMMA MergedObserved ==
  ASSUME TypeOK
  PROVE  Merged.obsGen \in {api.status.obsGen, view.gen}
<1>1. Result.obsGen = view.gen
  BY DEF Result, TypeOK, Request, Status
<1> QED
  BY <1>1 DEF Merged, Merge

(* A pass begins with the cached copy, or goes on with one that is not     *)
(* ahead.                                                                  *)
LEMMA ViewMoves ==
  ASSUME TypeOK, AccessJustified, Next, pc' # "idle"
  PROVE  \/ pc = "idle" /\ view' = cache /\ UNCHANGED <<api, watch, cache>>
         \/ pc \in Updating /\ Accepted /\ view' \in {view, api'}
         \/ pc # "idle" /\ view'.gen = view.gen
<1>1. CASE Users \/ CollectSecret \/ Deliver \/ DeliverSecret \/ Resync \/ TokenAges \/ HostMoves
           \/ \E t \in {"retry", "renewal"} : TimerFires(t)
  BY <1>1 DEF Users, CreateRequest, BindRequest, EditRequest, DeleteRequest, User, DeleteSecret,
     CollectSecret, Deliver, DeliverSecret, Resync, TokenAges, TimerFires, HostMoves, worker, copies
<1>2. CASE Take
  BY <1>2 DEF Take, ReconcileMissing, ReconcileUnresolved, ReconcileDeleting, ReconcileLive,
     Reconcile, Dequeue, Outside, platform
<1>3. CASE AddFinalizer \/ Annotate
  BY <1>3 DEF AddFinalizer, Annotate, Decoded, Updating
<1>4. CASE Address \/ IssueToken \/ ReconcileOIDCAccess
  BY <1>4 DEF Address, IssueToken, ReconcileOIDCAccess, MarkGranted, StoreSecret, Outside, platform,
     TypeOK, Request
<1>5. CASE Failure
  BY <1>5 DEF Failure, GrantFails, CleanFails, AnswerLost, CallFails, Crash, Goto, Finish, Idle,
     copies
<1>6. CASE Step /\ ~(AddFinalizer \/ Annotate \/ Address \/ IssueToken \/ ReconcileOIDCAccess)
  BY <1>6 DEF Step, Rejected, RemoveFinalizer, SaveUnchanged, SaveStatus, PatchRejected,
     Unreachable, KeepToken, RefreshToken, Grant, SecretRejected, Prune, Clean, Goto, Finish,
     Idle, copies, Updating, Saving, Connected
<1> QED
  BY <1>1, <1>2, <1>3, <1>4, <1>5, <1>6 DEF Next

(* What a step does to the request and to the copies of it.                *)
LEMMA RequestMoves ==
  ASSUME TypeOK, AccessJustified, Next
  PROVE  \/ UNCHANGED <<api, watch, cache>>
         \/ Deliver
         \/ Crash
         \/ /\ CreateRequest \/ BindRequest \/ EditRequest \/ DeleteRequest
         \/ pc \in Updating /\ Accepted
         \/ pc \in Saving /\ Patched /\ pc' = "idle"
<1>1. CASE Users \/ CollectSecret \/ Deliver \/ DeliverSecret \/ Resync \/ TokenAges \/ HostMoves
           \/ (\E t \in {"retry", "renewal"} : TimerFires(t)) \/ Take
  BY <1>1 DEF Users, DeleteSecret, CollectSecret, DeliverSecret, Resync, TokenAges, TimerFires,
     HostMoves, Take, ReconcileMissing, ReconcileUnresolved, ReconcileDeleting, ReconcileLive,
     Reconcile, Outside, platform
<1>2. CASE Step
  BY <1>2 DEF Step, AddFinalizer, Annotate, Rejected, RemoveFinalizer, SaveUnchanged, SaveStatus,
     PatchRejected, Unreachable, Address, KeepToken, RefreshToken, Grant, IssueToken,
     ReconcileOIDCAccess, SecretRejected, Prune, Clean, StoreSecret, Outside, Updating, platform,
     Finish, Idle
<1>3. CASE Failure
  BY <1>3 DEF Failure, GrantFails, CleanFails, AnswerLost, CallFails, StoreSecret, platform,
     Finish, Idle
<1> QED
  BY <1>1, <1>2, <1>3 DEF Next

(* Every step of the system.                                               *)
LEMMA NextObserved ==
  ASSUME TypeOK, AccessJustified, ObservedKnown, [Next]_vars
  PROVE  /\ ObservedKnown'
         /\ api.status.obsGen <= api'.status.obsGen
         /\ api'.status.obsGen <= api'.gen
<1>1. /\ cache.gen <= api.gen /\ api.gen \in Nat /\ cache.gen \in Nat /\ view.gen \in Nat
      /\ api.status.obsGen \in Nat /\ api.status.obsGen <= cache.gen /\ CopiesFaithful
      /\ pc # "idle" => api.status.obsGen <= view.gen /\ view.gen <= cache.gen
  BY NoneAhead DEF AccessJustified, ObservedKnown
<1>2. CASE UNCHANGED vars
  BY <1>1, <1>2 DEF vars, platform, worker, copies, ObservedKnown
<1>3. CASE Next /\ Deliver
  <2>1. /\ watch \in Seq(Request) /\ watch # <<>>
        /\ cache' = Head(watch) /\ watch' = Tail(watch) /\ UNCHANGED <<api, pc, view>>
    BY <1>3 DEF Deliver, TypeOK, worker, copies
  <2>2. /\ cache' = watch[1] /\ 1 \in 1..Len(watch) /\ Len(watch) \in Nat
        /\ Len(watch') = Len(watch) - 1
        /\ \A i \in 1..Len(watch') : i + 1 \in 1..Len(watch) /\ watch'[i] = watch[i + 1]
    BY <2>1
  <2>3. cache.gen <= cache'.gen /\ cache'.gen \in Nat /\ cache'.gen <= api.gen
    BY <1>1, <2>2, NoneAhead DEF ObservedKnown
  <2>4. \A i \in 1..Len(watch') : cache'.gen <= watch'[i].gen
    <3>1. \A i \in 1..Len(watch') : 1 < i + 1
      BY <2>2
    <3> QED
      BY <2>2, <3>1 DEF ObservedKnown
  <2>5. \A i, j \in 1..Len(watch') : i < j => watch'[i].gen <= watch'[j].gen
    <3>1. \A i, j \in 1..Len(watch') : i < j => i + 1 < j + 1
      BY <2>2
    <3> QED
      BY <2>2, <3>1 DEF ObservedKnown
  <2> QED
    BY <1>1, <2>1, <2>3, <2>4, <2>5 DEF ObservedKnown
<1>4. CASE Next /\ Crash
  <2>1. api' = api /\ cache' = api /\ watch' = <<>> /\ pc' = "idle"
    BY <1>4 DEF Crash, Idle
  <2> QED
    BY <1>1, <2>1 DEF ObservedKnown
<1>5. ASSUME Next, pc' # "idle", UNCHANGED cache PROVE api.status.obsGen <= view'.gen /\ view'.gen <= cache.gen
  <2>1. CASE pc \in Updating /\ Accepted /\ view' \in {view, api'}
    <3>1. api'.gen = api.gen /\ view = [api EXCEPT !.address = view.address] /\ pc # "idle"
      BY <2>1, WorkerPosts DEF Updating
    <3>2. view.gen = api.gen
      BY <3>1 DEF TypeOK, Request
    <3> QED
      BY <1>1, <2>1, <3>1, <3>2
  <2> QED
    BY <1>1, <1>5, <2>1, ViewMoves
<1>6. ASSUME Next, UNCHANGED cache, api'.status.obsGen = api.status.obsGen,
             api'.gen \in Nat, api.gen <= api'.gen,
             UNCHANGED <<api, watch>> \/ watch' = Append(watch, api')
      PROVE  /\ ObservedKnown' /\ api.status.obsGen <= api'.status.obsGen
             /\ api'.status.obsGen <= api'.gen
  <2>1. /\ \A i \in 1..Len(watch') : cache'.gen <= watch'[i].gen
        /\ \A i, j \in 1..Len(watch') : i < j => watch'[i].gen <= watch'[j].gen
    BY <1>1, <1>6, PostInOrder
  <2> QED
    BY <1>1, <1>5, <1>6, <2>1 DEF ObservedKnown
<1>7. CASE Next /\ UNCHANGED <<api, watch, cache>>
  BY <1>1, <1>6, <1>7
<1>8. CASE Next /\ (CreateRequest \/ BindRequest \/ EditRequest \/ DeleteRequest)
  <2>1. api'.gen \in Nat /\ api'.gen > api.gen /\ api'.status = api.status
    BY <1>1, <1>8, UserAsks
  <2>2. UNCHANGED cache /\ (UNCHANGED <<api, watch>> \/ watch' = Append(watch, api'))
    BY <1>8 DEF CreateRequest, BindRequest, EditRequest, DeleteRequest, User, Post
  <2> QED
    BY <1>1, <1>6, <1>8, <2>1, <2>2
<1>9. CASE Next /\ pc \in Updating /\ Accepted
  <2>1. /\ UNCHANGED cache /\ (UNCHANGED <<api, watch>> \/ watch' = Append(watch, api'))
        /\ api'.gen = api.gen /\ api'.status = api.status
    BY <1>9, WorkerPosts
  <2> QED
    BY <1>1, <1>6, <1>9, <2>1
<1>10. CASE Next /\ pc \in Saving /\ Patched /\ pc' = "idle"
  <2>1. /\ UNCHANGED cache /\ (UNCHANGED <<api, watch>> \/ watch' = Append(watch, api'))
        /\ api'.gen = api.gen /\ api'.status.obsGen \in {api.status.obsGen, view.gen}
    BY <1>10, WorkerPosts, MergedObserved
  <2>2. /\ \A i \in 1..Len(watch') : cache'.gen <= watch'[i].gen
        /\ \A i, j \in 1..Len(watch') : i < j => watch'[i].gen <= watch'[j].gen
    BY <1>1, <2>1, PostInOrder
  <2>3. pc # "idle"
    BY <1>10 DEF Saving
  <2> QED
    BY <1>1, <1>10, <2>1, <2>2, <2>3 DEF ObservedKnown
<1> QED
  BY <1>2, <1>3, <1>4, <1>7, <1>8, <1>9, <1>10, RequestMoves

(* No copy the worker can write from is older than what was observed.      *)
THEOREM CopiesObserved == Spec => []ObservedKnown
<1>1. Init => ObservedKnown
  BY DEF Init, ObservedKnown, NoRequest, NoStatus
<1>2. TypeOK /\ AccessJustified /\ ObservedKnown /\ [Next]_vars => ObservedKnown'
  BY NextObserved
<1> QED
  BY <1>1, <1>2, TypeCorrect, AccessKept, PTL DEF Spec

(* The observed generation never goes back, nor ahead of the stored one.   *)
THEOREM ObservationsForward == Spec => ObservedForward
<1>1. TypeOK /\ AccessJustified /\ ObservedKnown /\ [Next]_vars
        => [/\ api.status.obsGen <= api'.status.obsGen
            /\ api'.status.obsGen <= api'.gen]_vars
  BY NextObserved
<1> QED
  BY <1>1, TypeCorrect, AccessKept, CopiesObserved, PTL DEF Spec, ObservedForward

-----------------------------------------------------------------------------
(* Access and the Cluster.                                                 *)

(* Where access is there is a kind cluster, and the cluster controller     *)
(* holds the Cluster and will take the kind cluster down before it lets go. *)
AccessUnderClaim ==
  /\ granted # Nothing => host[Cluster] # "absent"
  /\ host[Cluster] # "absent" => claim[Cluster] \in Lifecycle!Held

(* A kind cluster is there only under the claim.                           *)
LEMMA LifecycleHeld ==
  ASSUME TypeOK, host[Cluster] # "absent" => claim[Cluster] \in Lifecycle!Held, Lifecycle!Next
  PROVE  host'[Cluster] # "absent" => claim'[Cluster] \in Lifecycle!Held
<1>1. /\ \/ Lifecycle!Claim(Cluster) \/ Lifecycle!Decline(Cluster) \/ Lifecycle!Leave(Cluster)
         \/ Lifecycle!Release(Cluster) \/ Lifecycle!Provision(Cluster)
         \/ Lifecycle!TearDown(Cluster) \/ Lifecycle!Vanish(Cluster)
      /\ Cluster \in DOMAIN claim /\ Cluster \in DOMAIN host
  BY DEF Lifecycle!Next, TypeOK, Lifecycle!TypeInvariant
<1>2. ASSUME NEW from, NEW to, Lifecycle!Move(Cluster, from, to),
             to \in Lifecycle!Held \/ host[Cluster] = "absent"
      PROVE  host'[Cluster] # "absent" => claim'[Cluster] \in Lifecycle!Held
  BY <1>1, <1>2 DEF Lifecycle!Move
<1>3. ASSUME NEW from, NEW to, Lifecycle!Turn(Cluster, from, to),
             to = "absent" \/ claim[Cluster] \in Lifecycle!Held
      PROVE  host'[Cluster] # "absent" => claim'[Cluster] \in Lifecycle!Held
  BY <1>1, <1>3 DEF Lifecycle!Turn
<1>4. CASE Lifecycle!Claim(Cluster) \/ Lifecycle!Leave(Cluster) \/ Lifecycle!Release(Cluster)
  BY <1>2, <1>4 DEF Lifecycle!Claim, Lifecycle!Leave, Lifecycle!Release, Lifecycle!Held
<1>5. CASE Lifecycle!Decline(Cluster)
  BY <1>2, <1>5 DEF Lifecycle!Decline, Lifecycle!Move, Lifecycle!Held
<1>6. CASE Lifecycle!Provision(Cluster) \/ Lifecycle!TearDown(Cluster) \/ Lifecycle!Vanish(Cluster)
  BY <1>3, <1>6 DEF Lifecycle!Provision, Lifecycle!TearDown, Lifecycle!Vanish, Lifecycle!Held
<1> QED
  BY <1>1, <1>4, <1>5, <1>6

(* Access is given only on a kind cluster that is there, goes with it, and *)
(* so never outlives the claim on the Cluster.                             *)
THEOREM AccessNeedsClaim == Spec => []AccessUnderClaim
<1>1. Init => AccessUnderClaim
  BY DEF Init, Lifecycle!Init, AccessUnderClaim
<1>2. TypeOK /\ AccessUnderClaim /\ [Next]_vars => AccessUnderClaim'
  <2> SUFFICES ASSUME TypeOK, AccessUnderClaim, [Next]_vars PROVE AccessUnderClaim'
    OBVIOUS
  <2>1. CASE UNCHANGED <<environment, granted>>
    BY <2>1 DEF AccessUnderClaim, environment
  <2>2. CASE HostMoves
    <3>1. host'[Cluster] # "absent" => claim'[Cluster] \in Lifecycle!Held
      BY <2>2, LifecycleHeld DEF HostMoves, AccessUnderClaim
    <3> QED
      BY <2>2, <3>1 DEF HostMoves, AccessUnderClaim
  <2>3. CASE UNCHANGED environment /\ Answers
    BY <2>3 DEF AccessUnderClaim, Answers, environment
  <2>4. CASE UNCHANGED vars
    BY <2>1, <2>4 DEF vars
  <2>5. CASE Step
    BY <2>1, <2>3, <2>5 DEF Step, AddFinalizer, Annotate, Rejected, RemoveFinalizer, Accepted,
       SaveUnchanged, SaveStatus, PatchRejected, Patched, Unreachable, Address, KeepToken,
       RefreshToken, Grant, IssueToken, ReconcileOIDCAccess, SecretRejected, StoreSecret, Prune,
       Clean, Outside
  <2>6. CASE Failure
    BY <2>1, <2>3, <2>6 DEF Failure, GrantFails, CleanFails, AnswerLost, Accepted, StoreSecret,
       Patched, CallFails, Crash
  <2>7. CASE Users \/ CollectSecret \/ Deliver \/ DeliverSecret \/ Resync \/ TokenAges \/ Take
             \/ \E t \in {"retry", "renewal"} : TimerFires(t)
    BY <2>1, <2>7 DEF Users, CreateRequest, BindRequest, EditRequest, DeleteRequest, User,
       DeleteSecret, CollectSecret, Deliver, DeliverSecret, Resync, TokenAges, TimerFires, Take,
       ReconcileMissing, ReconcileUnresolved, ReconcileDeleting, ReconcileLive, Reconcile, Outside
  <2> QED
    BY <2>2, <2>4, <2>5, <2>6, <2>7 DEF Next
<1> QED
  BY <1>1, <1>2, TypeCorrect, PTL DEF Spec

-----------------------------------------------------------------------------
(* The refinement.                                                         *)

(* Steps of AccessLifecycle, in terms of the request and the kind cluster. *)
LEMMA AccessMove ==
  ASSUME TypeOK, TypeOK',
         \/ Hold' = Hold /\ granted' = granted
         \/ Hold' = Hold /\ (Hold = "held" \/ granted' = Nothing)
         \/ Hold = "none" /\ Hold' \in {"held", "released"} /\ granted' = granted
         \/ Hold = "held" /\ Hold' = "released" /\ granted' = granted /\ granted = Nothing
  PROVE  [Access!Next]_Access!vars
<1> DEFINE h == [r \in {"request"} |-> Hold]
           a == [r \in {"request"} |-> Placed]
<1>1. granted = granted' => a' = a
  BY DEF Placed
<1>2. Hold' = Hold => h' = h
  OBVIOUS
<1>3. \A v : Hold' = v => h' = [h EXCEPT !["request"] = v]
  OBVIOUS
<1>4. a' \in [{"request"} -> SUBSET ({"account"} \cup Perms)]
  BY DEF TypeOK, Placed
<1>5. granted = Nothing => Placed = {}
  BY DEF Nothing, Placed
<1>6. granted' = Nothing => a' = [r \in {"request"} |-> {}]
  BY DEF Nothing, Placed
<1>7. CASE Hold' = Hold /\ granted' = granted
  BY <1>1, <1>2, <1>7 DEF Access!vars
<1>8. CASE Hold' = Hold /\ Hold = "held"
  <2>1. Access!Adjust("request")
    BY <1>2, <1>4, <1>8 DEF Access!Adjust
  <2> QED
    BY <2>1 DEF Access!Next
<1>9. CASE Hold' = Hold /\ granted' = Nothing
  <2>1. Access!Vanish
    BY <1>2, <1>6, <1>9 DEF Access!Vanish
  <2> QED
    BY <2>1 DEF Access!Next
<1>10. CASE Hold = "none" /\ Hold' = "held" /\ granted' = granted
  <2>1. Access!Claim("request")
    BY <1>1, <1>3, <1>10 DEF Access!Claim
  <2> QED
    BY <2>1 DEF Access!Next
<1>11. CASE Hold = "none" /\ Hold' = "released" /\ granted' = granted
  <2>1. Access!Forgo("request")
    BY <1>1, <1>3, <1>11 DEF Access!Forgo
  <2> QED
    BY <2>1 DEF Access!Next
<1>12. CASE Hold = "held" /\ Hold' = "released" /\ granted' = granted /\ granted = Nothing
  <2>1. Access!Release("request")
    BY <1>1, <1>3, <1>5, <1>12 DEF Access!Release
  <2> QED
    BY <2>1 DEF Access!Next
<1> QED
  BY <1>7, <1>8, <1>9, <1>10, <1>11, <1>12

(* What is on the kind cluster changes under the claim, or is taken away.  *)
LEMMA GrantMoves ==
  ASSUME TypeOK, AccessJustified, Next, granted' # granted
  PROVE  api' = api /\ (Claimed \/ granted' = Nothing)
<1>1. CASE HostMoves
  BY <1>1 DEF HostMoves, platform
<1>2. CASE Grant \/ GrantFails
  BY <1>2 DEF Grant, GrantFails, Outside, platform, AccessJustified, PassJustified, Providing
<1>3. CASE Prune \/ Clean \/ CleanFails
  <2>1. api' = api
    BY <1>3 DEF Prune, Clean, CleanFails, Outside, platform
  <2>2. granted # Nothing \/ granted' = Nothing
    BY <1>3 DEF Prune, Clean, CleanFails, Nothing
  <2> QED
    BY <2>1, <2>2 DEF AccessJustified, NoLeftoverAccess, Claimed, Kept
<1>4. ASSUME Users \/ CollectSecret \/ Deliver \/ DeliverSecret \/ Resync \/ TokenAges
             \/ \E t \in {"retry", "renewal"} : TimerFires(t)
      PROVE  FALSE
  BY <1>4 DEF Users, CreateRequest, BindRequest, EditRequest, DeleteRequest, User, DeleteSecret,
     CollectSecret, Deliver, DeliverSecret, Resync, TokenAges, TimerFires
<1>5. ASSUME Take PROVE FALSE
  BY <1>5 DEF Take, ReconcileMissing, ReconcileUnresolved, ReconcileDeleting, ReconcileLive,
     Reconcile
<1>6. ASSUME Step PROVE Grant \/ Prune \/ Clean
  BY <1>6 DEF Step, AddFinalizer, Annotate, Rejected, RemoveFinalizer, Accepted, SaveUnchanged,
     SaveStatus, PatchRejected, Patched, Unreachable, Address, KeepToken, RefreshToken,
     IssueToken, ReconcileOIDCAccess, SecretRejected, StoreSecret
<1>7. ASSUME Failure PROVE GrantFails \/ CleanFails
  BY <1>7 DEF Failure, AnswerLost, Accepted, Patched, StoreSecret, CallFails, Crash
<1> QED
  BY <1>1, <1>2, <1>3, <1>4, <1>5, <1>6, <1>7 DEF Next

(* The request is claimed, goes unclaimed, or is let go with nothing left. *)
LEMMA HoldMoves ==
  ASSUME TypeOK, AccessJustified, Next
  PROVE  \/ Hold' = Hold
         \/ Hold = "none" /\ Hold' \in {"held", "released"}
         \/ Hold = "held" /\ Hold' = "released" /\ granted = Nothing
<1>1. CASE api' = api
  BY <1>1 DEF Hold, Exists
<1>2. CASE Users /\ api' # api
  <2>1. PICK o \in Request :
          /\ Post(o) /\ o # api /\ o.fin = api.fin
          /\ \/ api = NoRequest /\ o.st = "live"
             \/ api.st = "live" /\ o.st \in {"live", "deleting"}
    BY <1>2, UserSends DEF AccessJustified, Users, DeleteSecret, User
  <2>2. /\ api'.fin = api.fin
        /\ api'.st = IF o.st = "deleting" /\ ~api.fin THEN "gone" ELSE o.st
    BY <2>1, SettledKeeps DEF Post
  <2>3. CASE api = NoRequest /\ o.st = "live"
    BY <2>2, <2>3 DEF Hold, Exists, NoRequest
  <2>4. CASE api.st = "live" /\ o.st = "live"
    BY <2>2, <2>4 DEF Hold, Exists
  <2>5. CASE api.st = "live" /\ o.st = "deleting" /\ api.fin
    BY <2>2, <2>5 DEF Hold, Exists
  <2>6. CASE api.st = "live" /\ o.st = "deleting" /\ ~api.fin
    <3>1. api'.st = "gone"
      BY <2>2, <2>6
    <3> QED
      BY <2>6, <3>1 DEF Hold, Exists
  <2> QED
    BY <2>1, <2>3, <2>4, <2>5, <2>6
<1>3. CASE pc \in Updating /\ Accepted
  <2>1. /\ pc # "removeFinalizer" => api'.st = api.st /\ Exists(api) /\ api'.fin
        /\ pc = "removeFinalizer" => api'.st = "gone" /\ granted = Nothing
        /\ Exists(api)
    BY <1>3, AcceptedKeeps DEF Accepted, CanUpdate
  <2> QED
    BY <2>1 DEF Hold, Exists
<1>4. CASE pc \in Saving /\ Patched
  <2>1. api'.st = api.st /\ api'.fin = api.fin
    BY <1>4, PatchedKeeps
  <2> QED
    BY <2>1 DEF Hold, Exists
<1>5. CASE Step
  BY <1>1, <1>3, <1>4, <1>5 DEF Step, AddFinalizer, Annotate, Rejected, RemoveFinalizer,
     SaveUnchanged, SaveStatus, PatchRejected, Unreachable, Address, KeepToken, RefreshToken,
     Grant, IssueToken, ReconcileOIDCAccess, SecretRejected, Prune, Clean, StoreSecret, Outside,
     Updating, platform
<1>6. CASE Failure
  BY <1>1, <1>3, <1>4, <1>6 DEF Failure, GrantFails, CleanFails, AnswerLost, CallFails, Crash,
     StoreSecret, platform
<1>7. CASE Take \/ HostMoves \/ \E t \in {"retry", "renewal"} : TimerFires(t)
  BY <1>1, <1>7 DEF Take, ReconcileMissing, ReconcileUnresolved, ReconcileDeleting,
     ReconcileLive, Reconcile, Outside, HostMoves, TimerFires, platform
<1>8. CASE CollectSecret \/ Deliver \/ DeliverSecret \/ Resync \/ TokenAges
  BY <1>1, <1>8 DEF CollectSecret, Deliver, DeliverSecret, Resync, TokenAges, platform
<1> QED
  BY <1>1, <1>2, <1>5, <1>6, <1>7, <1>8 DEF Next

(* The controller gives and takes access only between the claim and the    *)
(* release of the request, and lets it go when nothing is left.            *)
THEOREM ControllerImplementsAccess == Spec => ImplementsAccess
<1>1. Init => Access!Init
  <2> SUFFICES ASSUME Init PROVE Access!Init
    OBVIOUS
  <2>1. Hold = "none" /\ Placed = {}
    BY DEF Init, Hold, Exists, NoRequest, Placed, Nothing
  <2> QED
    BY <2>1 DEF Access!Init
<1>2. TypeOK /\ AccessJustified /\ [Next]_vars /\ TypeOK' => [Access!Next]_Access!vars
  <2> SUFFICES ASSUME TypeOK, AccessJustified, [Next]_vars, TypeOK'
               PROVE  [Access!Next]_Access!vars
    OBVIOUS
  <2>1. CASE UNCHANGED vars
    <3>1. Hold' = Hold /\ granted' = granted
      BY <2>1 DEF vars, platform, Hold, Exists
    <3> QED
      BY <3>1, AccessMove
  <2>2. CASE Next /\ granted' # granted
    <3>1. api' = api /\ (Claimed \/ granted' = Nothing)
      BY <2>2, GrantMoves
    <3>2. Hold' = Hold /\ (Claimed => Hold = "held")
      BY <3>1 DEF Hold, Claimed, Kept, Exists
    <3> QED
      BY <3>1, <3>2, AccessMove
  <2>3. CASE Next /\ granted' = granted
    BY <2>3, HoldMoves, AccessMove
  <2> QED
    BY <2>1, <2>2, <2>3
<1> QED
  BY <1>1, <1>2, TypeCorrect, AccessKept, PTL DEF Spec, ImplementsAccess, Access!Spec

-----------------------------------------------------------------------------
(* Why SecretGoes fails, and that it fails for good.                       *)

(* A request that is being deleted when the kind cluster has been taken    *)
(* down and its Cluster let go, and whose cleanup is not over by then.     *)
Stranded ==
  /\ api.st = "deleting" /\ pc # "removeFinalizer"
  /\ claim[Cluster] = "released" /\ host[Cluster] = "absent"

(* Nothing the controller can do, in however many passes, lets a stranded  *)
(* request go, and its Secret goes only if somebody deletes it: handleDelete *)
(* asks for the kubeconfig of a kind cluster that will not be there again. *)
StrandedForGood ==
  [][Stranded => /\ Stranded'
                 /\ secret' = NoSecret => secret = NoSecret \/ edits' = edits + 1]_vars

(* A Cluster that was let go comes back neither itself nor on the host.    *)
LEMMA LifecycleOver ==
  ASSUME TypeOK, claim[Cluster] = "released", host[Cluster] = "absent", Lifecycle!Next
  PROVE  claim'[Cluster] = "released" /\ host'[Cluster] = "absent"
<1>1. ASSUME NEW from, NEW to, from # "released" PROVE ~Lifecycle!Move(Cluster, from, to)
  BY <1>1 DEF Lifecycle!Move
<1>2. ASSUME NEW from, NEW to, from # "absent" PROVE ~Lifecycle!Turn(Cluster, from, to)
  BY <1>2 DEF Lifecycle!Turn
<1>3. ~(\/ Lifecycle!Claim(Cluster) \/ Lifecycle!Decline(Cluster) \/ Lifecycle!Leave(Cluster)
        \/ Lifecycle!Release(Cluster))
  BY <1>1 DEF Lifecycle!Claim, Lifecycle!Decline, Lifecycle!Leave, Lifecycle!Release
<1>4. ~(Lifecycle!Provision(Cluster) \/ Lifecycle!TearDown(Cluster))
  BY DEF Lifecycle!Provision, Lifecycle!TearDown, Lifecycle!Held
<1>5. ~Lifecycle!Vanish(Cluster)
  BY <1>2 DEF Lifecycle!Vanish
<1> QED
  BY <1>3, <1>4, <1>5 DEF Lifecycle!Next

LEMMA StrandedStays ==
  ASSUME TypeOK, AccessJustified, Next, Stranded
  PROVE  Stranded' /\ (secret' = NoSecret => secret = NoSecret \/ edits' = edits + 1)
<1> USE DEF Stranded
<1>1. CASE HostMoves
  BY <1>1, LifecycleOver DEF HostMoves, platform, worker
<1>2. ASSUME UNCHANGED environment, UNCHANGED secret, api'.st = api.st, pc' # "removeFinalizer"
      PROVE  Stranded' /\ secret' = secret
  BY <1>2 DEF environment
<1>3. ~Answers
  BY DEF Answers
<1>4. CASE Users
  BY <1>2, <1>4 DEF Users, CreateRequest, BindRequest, EditRequest, DeleteRequest, DeleteSecret,
     Edit, worker, environment
<1>5. CASE CollectSecret \/ Deliver \/ DeliverSecret \/ Resync \/ TokenAges
           \/ \E t \in {"retry", "renewal"} : TimerFires(t)
  <2>1. CASE TokenAges
    <3>1. secret'.due
      BY <2>1 DEF TokenAges, TypeOK, Secrets
    <3> QED
      BY <2>1, <3>1 DEF TokenAges, NoSecret, environment, worker
  <2> QED
    BY <1>2, <1>5, <2>1 DEF CollectSecret, Deliver, DeliverSecret, Resync, TimerFires, platform,
       worker
<1>6. CASE Take
  BY <1>2, <1>6 DEF Take, ReconcileMissing, ReconcileUnresolved, ReconcileDeleting,
     ReconcileLive, Reconcile, Dequeue, Outside, platform
<1>7. CASE pc \in Updating /\ Accepted /\ pc' # "removeFinalizer"
  BY <1>2, <1>7, AcceptedKeeps DEF Accepted
<1>8. CASE pc \in Saving /\ Patched /\ pc' # "removeFinalizer"
  BY <1>2, <1>8, PatchedKeeps DEF Patched
<1>9. CASE Step
  <2>1. CASE AddFinalizer \/ Annotate
    BY <1>7, <2>1 DEF AddFinalizer, Annotate, Updating
  <2>2. CASE SaveStatus
    BY <1>8, <2>2 DEF SaveStatus, Finish, Idle
  <2>3. CASE Rejected \/ SaveUnchanged \/ PatchRejected \/ Unreachable \/ KeepToken
             \/ RefreshToken \/ SecretRejected
    BY <1>2, <2>3 DEF Rejected, SaveUnchanged, PatchRejected, Unreachable, KeepToken,
       RefreshToken, SecretRejected, Goto, Finish, Idle, Outside, platform
  <2> QED
    BY <1>3, <1>9, <2>1, <2>2, <2>3 DEF Step, RemoveFinalizer, Address, Grant, IssueToken,
       ReconcileOIDCAccess, Prune, Clean
<1>10. CASE Failure
  <2>1. CASE AnswerLost
    BY <1>3, <1>7, <1>8, <2>1 DEF AnswerLost, Finish, Idle
  <2>2. CASE CallFails \/ Crash
    BY <1>2, <2>2 DEF CallFails, Crash, Goto, Finish, Idle, platform
  <2> QED
    BY <1>3, <1>10, <2>1, <2>2 DEF Failure, GrantFails, CleanFails
<1> QED
  BY <1>1, <1>4, <1>5, <1>6, <1>9, <1>10 DEF Next

(* The finding SecretGoes is not a matter of patience: a request that is   *)
(* stranded stays so, with any number of passes, failures and restarts.    *)
THEOREM StrandedRequestsStay == Spec => StrandedForGood
<1>1. TypeOK /\ AccessJustified /\ [Next]_vars
        => [Stranded => /\ Stranded'
                        /\ secret' = NoSecret => secret = NoSecret \/ edits' = edits + 1]_vars
  BY StrandedStays
<1> QED
  BY <1>1, TypeCorrect, AccessKept, PTL DEF Spec, StrandedForGood

=============================================================================
