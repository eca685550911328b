--------------------------- MODULE AccessController ---------------------------
(***************************************************************************)
(* The access request controller: the reconcile loop that gives an         *)
(* AccessRequest a kubeconfig for the kind cluster of the Cluster it       *)
(* refers to.  It keeps a service account and its permissions on the kind  *)
(* cluster, a token for it in a Secret of the platform cluster, which it   *)
(* renews, and takes the account away before it lets the request go.       *)
(*                                                                         *)
(* The kind cluster comes and goes under it, as ClusterLifecycle allows;   *)
(* that is all it shares with the cluster controller.  Requests share      *)
(* nothing but the worker: the module follows one of them.                 *)
(***************************************************************************)
EXTENDS Integers, Sequences

CONSTANTS
  Cluster,          \* the Cluster resource spec.clusterRef names
  Perms,            \* permissions and role references one can ask for
  Bound,            \* spec.clusterRef is there from the start
  Asks,             \* what one can ask for: a token, or with spec.token nil
                    \* for OIDC access, which is the kubeconfig of kind
  Unsafe,           \* whether the kind cluster may vanish from the host
  Deletable,        \* bound: whether users delete the request
  Resynced,         \* bound: asks that are followed as long as a resync takes
  MaxEdits,         \* bound: changes of spec, deletions of the Secret, and
                    \* kind clusters created anew
  MaxLag,           \* bound: users act only while fewer events are undelivered
  MaxFaults,        \* bound: external calls that fail
  MaxCrashes        \* bound: restarts of the controller's process

ASSUME SwitchesAssumption == {Bound, Unsafe, Deletable} \subseteq BOOLEAN
ASSUME AsksAssumption == Asks \cup Resynced \subseteq {"token", "oidc"}
ASSUME BoundsAssumption ==
  /\ MaxEdits \in Nat /\ MaxLag \in Nat
  /\ MaxFaults \in Nat /\ MaxCrashes \in Nat

VARIABLES
  claim, host,  \* ClusterLifecycle: the Cluster resource and its kind cluster
  incarnation,  \* how many kind clusters there have been
  granted,      \* on the kind cluster: [account, perms] of the request
  api,          \* the AccessRequest on the API server
  watch,        \* its versions on their way to the informer, oldest first
  cache,        \* the one the informer has
  secret,       \* the kubeconfig Secret
  seen,         \* the one the informer has
  queued,       \* the request's key is in the work queue
  timers,       \* "retry": back-off; "renewal": RequeueAfter the renewal time
  pc,           \* the next external call of the reconcile worker
  view,         \* its copy of the request
  was,          \* the status of that copy as it was read, arCopy in the code
  current,      \* the copy has the resourceVersion the API server has
  updated,      \* an Update of this pass has given it a new one
  conn,         \* the incarnation its client for the kind cluster talks to
  edits, faults, crashes

environment == <<claim, host, incarnation>>
platform == <<api, watch, cache, secret, seen>>
schedule == <<queued, timers>>
copies == <<view, was, current, updated>>
worker == <<pc, copies, conn>>
budget == <<edits, faults, crashes>>
vars == <<environment, granted, platform, schedule, worker, budget>>

Lifecycle == INSTANCE ClusterLifecycle WITH
  Clusters <- {Cluster}, Unsafe <- IF Unsafe THEN {Cluster} ELSE {}

-----------------------------------------------------------------------------
(* The data.                                                               *)

Incarnations == 0..(MaxEdits + 1)

Status == [granted : BOOLEAN, ready : {"unknown", "False", "True"}, obsGen : Nat]

NoStatus == [granted |-> FALSE, ready |-> "unknown", obsGen |-> 0]

(* ask, want: spec.token; address: the incarnation whose localhost address the  *)
(* annotation names, 0 for none; fin: the controller's finalizer.          *)
Request == [st : {"none", "live", "deleting", "gone"}, bound : BOOLEAN,
            fin : BOOLEAN, address : Incarnations,
            ask : {"token", "oidc"}, want : SUBSET Perms, gen : Nat, status : Status]
NoRequest == [st |-> "none", bound |-> FALSE, fin |-> FALSE, address |-> 0,
              ask |-> "token", want |-> {}, gen |-> 0, status |-> NoStatus]

Exists(o) == o.st \in {"live", "deleting"}

(* inc: the incarnation the kubeconfig is for; due: the renewal time, 80%  *)
(* of the token's life, has come.                                          *)
Secrets == [inc : Incarnations, due : BOOLEAN]
NoSecret == [inc |-> 0, due |-> FALSE]

Nothing == [account |-> FALSE, perms |-> {}]

PCs == {"idle", "addFinalizer", "address", "annotate", "inspect", "grant",
        "issue", "prune", "oidc", "clean", "removeFinalizer", "done", "fail"}
Saving == {"done", "fail"}
Updating == {"addFinalizer", "annotate", "removeFinalizer"}
Connected == {"issue", "prune"}

-----------------------------------------------------------------------------
(* The API server.                                                         *)

Settled(o) == IF o.st = "deleting" /\ ~o.fin THEN [o EXCEPT !.st = "gone"] ELSE o

(* A write that changes nothing is neither stored nor published.           *)
Post(o) == IF o = api THEN UNCHANGED <<api, watch>>
           ELSE api' = Settled(o) /\ watch' = Append(watch, api')

(* Update and the Secret's Update fail on a version that is out of date.   *)
CanUpdate == Exists(api) /\ current
CanWriteSecret == seen = secret

User(o) == /\ Len(watch) < MaxLag /\ Post(o) /\ current' = FALSE
           /\ UNCHANGED <<environment, granted, cache, secret, seen, schedule,
                          pc, view, was, updated, conn, faults, crashes>>

CreateRequest == /\ api.st = "none" /\ UNCHANGED edits
                 /\ \E a \in Asks, w \in SUBSET Perms :
                      /\ a = "oidc" => w = {}
                      /\ User([api EXCEPT !.st = "live", !.bound = Bound,
                                          !.ask = a, !.want = w, !.gen = 1])

BindRequest == /\ api.st = "live" /\ ~api.bound /\ UNCHANGED edits
               /\ User([api EXCEPT !.bound = TRUE, !.gen = @ + 1])

Edit == edits < MaxEdits /\ edits' = edits + 1

EditRequest == /\ api.st = "live" /\ api.ask = "token" /\ Edit
               /\ \E w \in (SUBSET Perms) \ {api.want} :
                    User([api EXCEPT !.want = w, !.gen = @ + 1])

DeleteRequest == /\ Deletable /\ api.st = "live" /\ UNCHANGED edits
                 /\ User([api EXCEPT !.st = "deleting", !.gen = @ + 1])

DeleteSecret == /\ secret # NoSecret /\ Edit /\ secret' = NoSecret
                /\ UNCHANGED <<environment, granted, api, watch, cache, seen,
                               schedule, worker, faults, crashes>>

(* The Secret goes with its owner.                                         *)
CollectSecret == /\ secret # NoSecret /\ api.st = "gone" /\ secret' = NoSecret
                 /\ UNCHANGED <<environment, granted, api, watch, cache, seen,
                                schedule, worker, budget>>

-----------------------------------------------------------------------------
(* Informers, work queue and time.                                         *)

Deliver == /\ watch # <<>>
           /\ cache' = Head(watch) /\ watch' = Tail(watch) /\ queued' = TRUE
           /\ UNCHANGED <<environment, granted, api, secret, seen, timers, worker, budget>>

(* Nobody is called when the Secret changes.                               *)
DeliverSecret == /\ seen # secret /\ seen' = secret
                 /\ UNCHANGED <<environment, granted, api, watch, cache, secret,
                                schedule, worker, budget>>

Resync == /\ cache.ask \in Resynced /\ Exists(cache) /\ queued' = TRUE
          /\ UNCHANGED <<environment, granted, platform, timers, worker, budget>>

TimerFires(t) == /\ t \in timers
                 /\ t = "renewal" => secret = NoSecret \/ secret.due
                 /\ timers' = timers \ {t} /\ queued' = TRUE
                 /\ UNCHANGED <<environment, granted, platform, worker, budget>>

(* Time passes; an older token in the cache is due by then, too.           *)
TokenAges == /\ api.ask = "token" /\ secret # NoSecret /\ ~secret.due
             /\ secret' = [secret EXCEPT !.due = TRUE]
             /\ seen' = IF seen = NoSecret THEN seen ELSE [seen EXCEPT !.due = TRUE]
             /\ UNCHANGED <<environment, granted, api, watch, cache, schedule,
                            worker, budget>>

(* What runs on a kind cluster goes with it.                               *)
HostMoves == /\ Lifecycle!Next
             /\ CASE host[Cluster] # "absent" \/ host'[Cluster] = "absent" ->
                       UNCHANGED <<incarnation, edits>>
                  [] incarnation = 0 -> incarnation' = 1 /\ UNCHANGED edits
                  [] OTHER -> incarnation' = incarnation + 1 /\ Edit
             /\ granted' = IF host'[Cluster] = "absent" THEN Nothing ELSE granted
             /\ UNCHANGED <<platform, schedule, worker, faults, crashes>>

-----------------------------------------------------------------------------
(* The worker: Reconcile.                                                  *)

Outside == UNCHANGED <<environment, platform, budget>>

Goto(label) == pc' = label /\ UNCHANGED <<copies, conn, schedule>>
Fault == faults < MaxFaults /\ faults' = faults + 1 /\ UNCHANGED <<edits, crashes>>

Dequeue(label) == /\ pc = "idle" /\ queued /\ queued' = FALSE
                  /\ pc' = label /\ UNCHANGED timers

(* The cache has the stored version when every event has been delivered.   *)
Reconcile(label) == /\ Dequeue(label)
                    /\ view' = cache /\ was' = cache.status
                    /\ current' = (watch = <<>>) /\ updated' = FALSE
                    /\ Outside /\ UNCHANGED <<granted, conn>>

ReconcileMissing == /\ Dequeue("idle") /\ ~Exists(cache)
                    /\ UNCHANGED <<copies, conn, granted>> /\ Outside

(* No reference yet, or a Cluster that is not there or not of this         *)
(* provider; one the cluster controller has claimed is both.               *)
ReconcileUnresolved == /\ Exists(cache)
                       /\ ~cache.bound \/ claim[Cluster] \notin Lifecycle!Held
                       /\ Reconcile("fail")

ReconcileDeleting == cache.st = "deleting" /\ cache.bound /\ Reconcile("clean")

(* Mutant: the finalizer is not added.                                     *)
ReconcileLiveUnclaimed == cache.st = "live" /\ cache.bound /\ Reconcile("address")

ReconcileLive == /\ cache.st = "live" /\ cache.bound
                 /\ Reconcile(IF cache.fin THEN "address" ELSE "addFinalizer")

Take == ReconcileMissing \/ ReconcileUnresolved \/ ReconcileDeleting \/ ReconcileLive


-----------------------------------------------------------------------------
(* Writes of the worker to the request.                                    *)

Sent == CASE pc = "addFinalizer"    -> [view EXCEPT !.fin = TRUE]
          [] pc = "annotate"        -> view
          [] pc = "removeFinalizer" -> [view EXCEPT !.fin = FALSE]

(* Update: accepted, with the answer decoded into the copy.                *)
Accepted == /\ CanUpdate /\ Post(Sent)
            /\ UNCHANGED <<environment, granted, cache, secret, seen>>
Decoded == /\ view' = api' /\ updated' = (updated \/ api' # api)
           /\ UNCHANGED <<was, current>>

AddFinalizer ==
  /\ pc = "addFinalizer" /\ Accepted /\ Decoded
  /\ pc' = "address" /\ UNCHANGED <<conn, schedule, budget>>

(* Mutant: a granted OIDC request is not looked at.                        *)
AnnotateOnce ==
  /\ pc = "annotate" /\ Accepted /\ Decoded
  /\ pc' = (IF view.ask = "token" THEN "inspect" ELSE IF view.status.granted THEN "done" ELSE "oidc")
  /\ UNCHANGED <<conn, schedule, budget>>

(* The annotation is written on every pass, changed or not.                *)
Annotate ==
  /\ pc = "annotate" /\ Accepted /\ Decoded
  /\ pc' = (IF view.ask = "oidc" THEN "oidc" ELSE "inspect")
  /\ UNCHANGED <<conn, schedule, budget>>

Rejected ==
  /\ pc \in Updating /\ ~CanUpdate
  /\ Goto("fail") /\ Outside /\ UNCHANGED granted

Idle == /\ pc' = "idle" /\ view' = NoRequest /\ was' = NoStatus
        /\ current' = FALSE /\ updated' = FALSE /\ conn' = 0
Finish(ts) == Idle /\ timers' = timers \cup ts /\ UNCHANGED queued

(* The last step of handleDelete: no status is written.                    *)
RemoveFinalizer ==
  /\ pc = "removeFinalizer" /\ Accepted
  /\ Finish({}) /\ UNCHANGED budget

(* Mutant: the reason of the condition is stored as its status.            *)
ResultReason == [view.status EXCEPT
  !.ready = IF pc = "fail" THEN "ReconcileError" ELSE "ReconcileSuccess",
  !.obsGen = view.gen]

(* Mutant: an error replaces what was observed, too.                       *)
ResultAfresh == [view.status EXCEPT !.ready = IF pc = "fail" THEN "False" ELSE "True",
                                    !.obsGen = IF pc = "fail" THEN 0 ELSE view.gen]

(* updateStatus, with and without an error.                                *)
Result == [view.status EXCEPT !.ready = IF pc = "fail" THEN "False" ELSE "True",
                              !.obsGen = view.gen]

(* Mutant: nothing is scheduled after a success.                           *)
WantedOnError == IF pc = "fail" THEN {"retry"} ELSE {}

Wanted == IF pc = "fail" THEN {"retry"} ELSE IF view.ask = "oidc" THEN {} ELSE {"renewal"}

(* A merge patch carries the fields that differ from what was read, and    *)
(* the version only when an Update has changed it.                         *)
Merge(new, old, stored) == IF new = old THEN stored ELSE new

(* Mutant: the whole status is written.                                    *)
MergedWholesale == Result

(* The conditions are a list, which is sent whole when anything in it, the *)
(* generation included, differs.                                           *)
Merged == [granted |-> Merge(Result.granted, was.granted, api.status.granted),
           ready   |-> IF Result.ready = was.ready /\ Result.obsGen = was.obsGen
                       THEN api.status.ready ELSE Result.ready,
           obsGen  |-> Merge(Result.obsGen, was.obsGen, api.status.obsGen)]
CanPatch == Exists(api) /\ (updated => current)

Patched == /\ CanPatch /\ Post([api EXCEPT !.status = Merged])
           /\ UNCHANGED <<environment, granted, cache, secret, seen>>

SaveUnchanged ==
  /\ pc \in Saving /\ Result = was
  /\ Finish(Wanted) /\ Outside /\ UNCHANGED granted

SaveStatus ==
  /\ pc \in Saving /\ Result # was
  /\ Patched /\ Finish(Wanted) /\ UNCHANGED budget

PatchRejected ==
  /\ pc \in Saving /\ Result # was /\ ~CanPatch
  /\ Finish({"retry"}) /\ Outside /\ UNCHANGED granted

-----------------------------------------------------------------------------
(* Calls of the worker to the Docker host and to the kind cluster.         *)

(* A kind cluster that is being created, or half taken down, may answer    *)
(* already, or still; when it does not, that is one of the calls that fail. *)
Answers == host[Cluster] # "absent" /\ (pc \in Connected => conn = incarnation)

Unreachable ==
  /\ pc \in {"address", "oidc", "grant", "clean"} \cup Connected /\ ~Answers
  /\ Goto("fail") /\ Outside /\ UNCHANGED granted

Address ==
  /\ pc = "address" /\ Answers
  /\ view' = [view EXCEPT !.address = incarnation] /\ pc' = "annotate"
  /\ UNCHANGED <<was, current, updated, conn, schedule, granted>> /\ Outside

(* Mutant: the renewal time is not looked at.                              *)
StillThere == view.status.granted /\ seen # NoSecret

(* tokenRefreshRequired.                                                   *)
StillFresh == view.status.granted /\ seen # NoSecret /\ ~seen.due

KeepToken ==
  /\ pc = "inspect" /\ StillFresh
  /\ Goto("done") /\ Outside /\ UNCHANGED granted

RefreshToken ==
  /\ pc = "inspect" /\ ~StillFresh
  /\ Goto("grant") /\ Outside /\ UNCHANGED granted

(* reconcileTokenAccess: the account, its permissions, ...                 *)
Granting(ps) == granted' = [account |-> TRUE, perms |-> granted.perms \cup ps]

(* Mutant: the phase is set before the Secret is written.                  *)
GrantEarly ==
  /\ pc = "grant" /\ Answers /\ Granting(view.want)
  /\ conn' = incarnation /\ pc' = "issue"
  /\ view' = [view EXCEPT !.status.granted = TRUE]
  /\ UNCHANGED <<was, current, updated, schedule>> /\ Outside

Grant ==
  /\ pc = "grant" /\ Answers /\ Granting(view.want)
  /\ conn' = incarnation /\ pc' = "issue"
  /\ UNCHANGED <<copies, schedule>> /\ Outside

(* ... a token, and the Secret for it.                                     *)
Fresh(inc) == [inc |-> inc, due |-> FALSE]
StoreSecret(inc) == /\ CanWriteSecret /\ secret' = Fresh(inc)
                    /\ UNCHANGED <<environment, granted, api, watch, cache, seen>>
MarkGranted(label) == /\ view' = [view EXCEPT !.status.granted = TRUE] /\ pc' = label
                      /\ UNCHANGED <<was, current, updated, conn, schedule>>

IssueToken ==
  /\ pc = "issue" /\ Answers /\ StoreSecret(conn)
  /\ MarkGranted("prune") /\ UNCHANGED budget

(* CreateOrUpdate writes nothing when the Secret the informer has is what  *)
(* is wanted already.                                                      *)
InPlace == pc = "oidc" /\ seen = Fresh(incarnation)

ReconcileOIDCAccess ==
  /\ pc = "oidc" /\ Answers
  /\ \/ InPlace /\ UNCHANGED <<environment, granted, platform>>
     \/ ~InPlace /\ StoreSecret(incarnation)
  /\ MarkGranted("done") /\ UNCHANGED budget

SecretRejected ==
  /\ pc \in {"issue", "oidc"} /\ ~CanWriteSecret /\ ~InPlace
  /\ Goto("fail") /\ Outside /\ UNCHANGED granted

(* Mutant: the account is not on the list of what to keep.                 *)
PruneAccount ==
  /\ pc = "prune" /\ Answers
  /\ granted' = [account |-> FALSE, perms |-> granted.perms \cap view.want]
  /\ Goto("done") /\ Outside

(* cleanupResources, of what is not requested (any more).                  *)
Prune ==
  /\ pc = "prune" /\ Answers
  /\ granted' = [granted EXCEPT !.perms = @ \cap view.want]
  /\ Goto("done") /\ Outside

(* handleDelete: everything on the kind cluster, then the finalizer.  What *)
(* is being deleted has it: nobody else puts a finalizer on the request.   *)
Clean ==
  /\ pc = "clean" /\ Answers /\ granted' = Nothing
  /\ Goto("removeFinalizer") /\ Outside

-----------------------------------------------------------------------------
(* Failures.                                                               *)

(* Mutant: a token is issued for the permissions that did work.            *)
GrantErrorIgnored ==
  /\ pc = "grant" /\ Answers /\ Fault
  /\ \E ps \in SUBSET view.want : Granting(ps)
  /\ conn' = incarnation /\ pc' = "issue"
  /\ UNCHANGED <<environment, platform, copies, schedule>>

(* Permissions are granted as far as possible; cleanup goes on after an    *)
(* error with objects of the same kind, and removes the account last.      *)
GrantFails ==
  /\ pc = "grant" /\ Answers /\ Fault
  /\ \E ps \in SUBSET view.want : Granting(ps)
  /\ Goto("fail") /\ UNCHANGED <<environment, platform>>

(* Mutant: handleDelete ignores the error of the cleanup.                  *)
CleanErrorIgnored ==
  /\ pc \in {"prune", "clean"} /\ Answers /\ Fault
  /\ \E ps \in SUBSET (IF pc = "clean" THEN granted.perms ELSE granted.perms \ view.want) :
       granted' = [granted EXCEPT !.perms = @ \ ps]
  /\ Goto(IF pc = "clean" THEN "removeFinalizer" ELSE "fail")
  /\ UNCHANGED <<environment, platform>>

CleanFails ==
  /\ pc \in {"prune", "clean"} /\ Answers /\ Fault
  /\ \E ps \in SUBSET (IF pc = "clean" THEN granted.perms ELSE granted.perms \ view.want) :
       granted' = [granted EXCEPT !.perms = @ \ ps]
  /\ Goto("fail") /\ UNCHANGED <<environment, platform>>

(* The call has its effect and the answer is lost.                         *)
AnswerLost ==
  /\ Fault
  /\ \/ /\ pc \in Updating /\ Accepted
        /\ pc' = "fail" /\ current' = (api' = api)
        /\ UNCHANGED <<view, was, updated, conn, schedule>>
     \/ pc = "issue" /\ Answers /\ StoreSecret(conn) /\ Goto("fail")
     \/ pc = "oidc" /\ Answers /\ ~InPlace /\ StoreSecret(incarnation) /\ Goto("fail")
     \/ pc \in Saving /\ Result # was /\ Patched /\ Finish({"retry"})

(* Mutant: an error is logged and dropped.                                 *)
CallFailsUnseen ==
  /\ pc # "idle" /\ Fault /\ UNCHANGED <<environment, platform, granted>>
  /\ pc \in Saving => Result # was
  /\ Finish({})

CallFails ==
  /\ pc # "idle" /\ Fault /\ UNCHANGED <<environment, platform, granted>>
  /\ IF pc \in Saving THEN Result # was /\ Finish({"retry"}) ELSE Goto("fail")

Crash ==
  /\ crashes < MaxCrashes /\ crashes' = crashes + 1
  /\ Idle /\ timers' = {} /\ queued' = Exists(api)
  /\ cache' = api /\ watch' = <<>> /\ seen' = secret
  /\ UNCHANGED <<environment, granted, api, secret, edits, faults>>

-----------------------------------------------------------------------------
(* The specification.                                                      *)

Init ==
  /\ Lifecycle!Init /\ incarnation = 0 /\ granted = Nothing
  /\ api = NoRequest /\ watch = <<>> /\ cache = NoRequest
  /\ secret = NoSecret /\ seen = NoSecret
  /\ queued = FALSE /\ timers = {}
  /\ pc = "idle" /\ view = NoRequest /\ was = NoStatus
  /\ current = FALSE /\ updated = FALSE /\ conn = 0
  /\ edits = 0 /\ faults = 0 /\ crashes = 0

Users == CreateRequest \/ BindRequest \/ EditRequest \/ DeleteRequest \/ DeleteSecret

Step ==
  \/ AddFinalizer \/ Annotate \/ Rejected \/ RemoveFinalizer
  \/ SaveUnchanged \/ SaveStatus \/ PatchRejected
  \/ Unreachable \/ Address \/ KeepToken \/ RefreshToken \/ Grant \/ IssueToken
  \/ ReconcileOIDCAccess \/ SecretRejected \/ Prune \/ Clean

Failure == GrantFails \/ CleanFails \/ AnswerLost \/ CallFails \/ Crash

Next ==
  \/ Users \/ CollectSecret \/ Deliver \/ DeliverSecret \/ Resync \/ TokenAges
  \/ \E t \in {"retry", "renewal"} : TimerFires(t)
  \/ HostMoves \/ Take \/ Step \/ Failure

Spec == Init /\ [][Next]_vars

(* Watches deliver, timers fire, time passes, owned objects are collected, *)
(* the worker takes what is queued and its calls return.  A resync is      *)
(* counted on for OIDC access only.  Nothing is assumed of users, of the   *)
(* kind cluster, or of failures.                                           *)
Fairness == /\ WF_vars(Deliver) /\ WF_vars(DeliverSecret) /\ WF_vars(CollectSecret)
            /\ WF_vars(TokenAges) /\ \A t \in {"retry", "renewal"} : WF_vars(TimerFires(t))
            /\ WF_vars(Take) /\ WF_vars(Step)
            /\ WF_vars(api.ask = "oidc" /\ Resync)

FairSpec == Spec /\ Fairness

-----------------------------------------------------------------------------
(* Properties.                                                             *)

(* Every variable holds values of the kind the code gives it.              *)
TypeOK ==
  /\ Lifecycle!TypeInvariant /\ incarnation \in Incarnations
  /\ granted \in [account : BOOLEAN, perms : SUBSET Perms]
  /\ api \in Request /\ cache \in Request /\ watch \in Seq(Request)
  /\ secret \in Secrets /\ seen \in Secrets
  /\ queued \in BOOLEAN /\ timers \subseteq {"retry", "renewal"}
  /\ pc \in PCs /\ conn \in Incarnations
  /\ view \in Request /\ was \in Status /\ current \in BOOLEAN /\ updated \in BOOLEAN
  /\ edits \in 0..MaxEdits /\ faults \in 0..MaxFaults /\ crashes \in 0..MaxCrashes

(* Whatever the controller has put on a kind cluster belongs to a request  *)
(* that holds its finalizer: no stale copy, failure or crash leaves an     *)
(* account or a permission behind that no reconcile will remove.           *)
NoLeftoverAccess ==
  granted # Nothing => Exists(api) /\ api.fin

(* A token that was handed out for the kind cluster that runs belongs to   *)
(* an account that is there, until the request is deleted.                 *)
TokenBacked ==
  /\ api.st = "live" /\ host[Cluster] # "absent"
  /\ secret # NoSecret /\ secret.inc = incarnation /\ api.ask = "token"
  => granted.account

(* What phase Granted promises is there: unless somebody has interfered, a *)
(* granted request has its account, and all the permissions it asks for,   *)
(* on the kind cluster, whatever failed or was cleaned up since.           *)
Served(ps) == granted.account /\ ps \subseteq granted.perms
GrantBacked ==
  /\ api.st = "live" /\ api.status.granted /\ api.ask = "token"
  /\ edits = 0 /\ host[Cluster] # "absent"
  => Served(api.want)

(* "the request is granted, the secret still exists and the token is still *)
(* valid - nothing to do" is right as long as nobody edits the request,    *)
(* deletes the Secret or creates the kind cluster anew: the token the      *)
(* worker keeps is for the kind cluster there is, and backed.              *)
KeptTokenSound ==
  [][pc = "inspect" /\ pc' = "done" /\ host[Cluster] # "absent" /\ edits = 0 =>
       seen.inc = incarnation /\ Served(view.want)]_vars

(* The observed generation never goes back, nor ahead of the stored one:   *)
(* a pass on an old copy does not undo what a later version was told.      *)
ObservedForward ==
  [][api.status.obsGen <= api'.status.obsGen /\ api'.status.obsGen <= api'.gen]_vars

(* A request that is granted stays so: a pass that fails on an old copy    *)
(* writes its error beside the grant and not over it.                      *)
GrantNotLost == [][api.status.granted => api'.status.granted]_vars

(* A request that refers to a Cluster and still needs the controller, to   *)
(* be granted, renewed, retried or cleaned up, is always going to be       *)
(* looked at again, without a resync.                                      *)
NeverForgotten ==
  Exists(api) /\ api.bound =>
    \/ queued \/ timers # {} \/ pc # "idle" \/ watch # <<>>
    \/ api.ask = "oidc" /\ api.status.granted

(* Phase Granted comes after the Secret it refers to.                      *)
GrantedHasSecret ==
  Exists(api) /\ api.status.granted /\ edits = 0 => secret # NoSecret

Settling == api.st # "live" \/ host[Cluster] # "running"

(* As long as the kind cluster runs a request with a reference is granted. *)
BecomesGranted ==
  api.st = "live" /\ api.bound ~> Settling \/ api.status.granted

(* A token that reaches its renewal time is replaced.                      *)
TokenRenewed ==
  secret.due ~> Settling \/ ~secret.due

(* What is on the kind cluster is at last what was requested, and the      *)
(* token one for the kind cluster that runs: at the latest a renewal       *)
(* makes up for an edit, for a cleanup that failed and for a kind cluster  *)
(* that was created anew.                                                  *)
AccessConverges ==
  api.st = "live" /\ api.bound /\ api.ask = "token" ~>
    Settling \/ (granted.perms = api.want /\ secret.inc = incarnation)

(* A request that is deleted goes as long as the kind cluster runs.        *)
DeletionCompletes ==
  api.st = "deleting" ~> api.st = "gone" \/ host[Cluster] # "running"

(* A request for OIDC access ends up with the kubeconfig of the kind       *)
(* cluster that runs, by a resync if by nothing else.                      *)
OidcRepaired ==
  api.st = "live" /\ api.bound /\ api.ask = "oidc" ~>
    Settling \/ secret.inc = incarnation

(* What the code says of itself and the model refutes.                     *)

(* "the request is granted, the secret still exists and the token is still *)
(* valid - nothing to do": the token that is kept is one for the kind      *)
(* cluster that runs.                                                      *)
KeptTokenValid ==
  [][pc = "inspect" /\ pc' = "done" /\ host[Cluster] = "running" =>
       seen.inc = incarnation]_vars

(* "remove finalizer - Secret will automatically get deleted because of    *)
(* OwnerReference": the Secret goes once the request is deleted.           *)
SecretGoes == api.st = "deleting" ~> secret = NoSecret

=============================================================================
