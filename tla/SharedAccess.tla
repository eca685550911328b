----------------------------- MODULE SharedAccess -----------------------------
(***************************************************************************)
(* What the access request controller does on one kind cluster for several *)
(* AccessRequests, object by object: the service account, the role and the *)
(* binding of each permission, the binding of each role reference, and the *)
(* cleanup by kind.  Objects carry the request they belong to in their     *)
(* labels.  A permission may be given a name, and two requests may give    *)
(* theirs the same one.                                                    *)
(*                                                                         *)
(* This is the inside of Grant, Prune and Clean of AccessController.  What *)
(* happens to one request besides (a lagging informer, the status patch, a *)
(* kind cluster that goes) is shown there: here the kind cluster runs, and *)
(* the informer is up to date when a pass begins.                          *)
(***************************************************************************)
EXTENDS Naturals

CONSTANTS
  Requests,    \* AccessRequests that refer to the same Cluster
  Names,       \* of permissions and role references: roleName, roleBindingName
  References,  \* the names that come from spec.token.roleRefs
  Namespaced,  \* the names that are for a namespace
  Askable,     \* the names each request can ask for
  Nobody,      \* no request
  Editable,    \* bound: requests whose permissions are changed, once
  MaxFaults    \* bound: external calls that fail, and restarts of the process

(* The name of a role reference is made from the request: it is nobody     *)
(* else's.                                                                 *)
ASSUME NamesAssumption ==
  /\ References \subseteq Names /\ Namespaced \subseteq Names
  /\ Nobody \notin Requests
  /\ Askable \in [Requests -> SUBSET Names]
  /\ \A p, q \in Requests : p # q => References \cap Askable[p] \cap Askable[q] = {}
ASSUME BoundsAssumption == Editable \subseteq Requests /\ MaxFaults \in Nat

VARIABLES
  objects,  \* on the kind cluster, [kind, name, owner]
  api,      \* the AccessRequests on the API server
  due,      \* those whose token has reached its renewal time
  pending,  \* the keys that are queued or wait for their back-off
  pc,       \* the next call of the reconcile worker
  cur,      \* the request it is working on
  view,     \* its copy of that request
  current,  \* the copy is still what the API server has
  todo,     \* names it has not got to yet
  item,     \* the name whose role it has just ensured
  denied,   \* errlist is not empty
  edited,   \* requests whose permissions have been changed
  faults

worker == <<pc, cur, view, current, todo, item, denied>>
budget == <<edited, faults>>
vars == <<objects, api, due, pending, worker, budget>>

-----------------------------------------------------------------------------
(* The data.                                                               *)

Request == [st : {"none", "live", "deleting", "gone"}, fin : BOOLEAN,
            want : SUBSET Names, granted : BOOLEAN]
NoRequest == [st |-> "none", fin |-> FALSE, want |-> {}, granted |-> FALSE]

Exists(o) == o.st \in {"live", "deleting"}

Kinds == {"RoleBinding", "Role", "ClusterRoleBinding", "ClusterRole", "ServiceAccount"}

Objects == [kind : Kinds, name : Names \cup Requests, owner : Requests]

Account(r) == [kind |-> "ServiceAccount", name |-> r, owner |-> r]
(* Mutant: the labels are not passed on.                                   *)
RoleUnlabelled(n, r) ==
  [kind |-> IF n \in Namespaced THEN "Role" ELSE "ClusterRole", name |-> n, owner |-> Nobody]

Role(n, r) == [kind |-> IF n \in Namespaced THEN "Role" ELSE "ClusterRole",
               name |-> n, owner |-> r]
Binding(n, r) == [kind |-> IF n \in Namespaced THEN "RoleBinding" ELSE "ClusterRoleBinding",
                  name |-> n, owner |-> r]

Owned(r) == {o \in objects : o.owner = r}

(* What a request asks for; the roles of role references are not ours.     *)
Needed(r, ns) == {Account(r)} \cup {Role(n, r) : n \in ns \ References}
                              \cup {Binding(n, r) : n \in ns}

(* The object is there and has another request in its labels.              *)
Foreign(o) == \E x \in objects : x.kind = o.kind /\ x.name = o.name /\ x.owner # o.owner

(* Mutant: roles and accounts go before their bindings.                    *)
FollowingRolesFirst ==
  [RoleBinding |-> "ClusterRole", ClusterRole |-> "ClusterRoleBinding",
   ClusterRoleBinding |-> "Role", Role |-> "ServiceAccount"]

(* Mutant: cluster roles are left out.                                     *)
FollowingShort ==
  [RoleBinding |-> "Role", Role |-> "ClusterRoleBinding",
   ClusterRoleBinding |-> "ServiceAccount", ClusterRole |-> "ServiceAccount"]

(* cleanupResources goes through the kinds in this order.                  *)
Following == [RoleBinding |-> "Role", Role |-> "ClusterRoleBinding",
              ClusterRoleBinding |-> "ClusterRole", ClusterRole |-> "ServiceAccount"]

PCs == {"idle", "claim", "account", "permissions", "bind", "references", "token",
        "release", "done", "fail"} \cup Kinds

-----------------------------------------------------------------------------
(* Users, and time.                                                        *)

(* The API server drops a deleted object with its last finalizer.          *)
Settled(o) == IF o.st = "deleting" /\ ~o.fin THEN [o EXCEPT !.st = "gone"] ELSE o

(* A change of a request queues its key, and makes copies of it stale.     *)
Write(r, o) == /\ api' = [api EXCEPT ![r] = Settled(o)]
               /\ pending' = pending \cup {r}

User(r, o) == /\ Write(r, o) /\ current' = (current /\ cur # r)
              /\ UNCHANGED <<objects, due, pc, cur, view, todo, item, denied, faults>>

CreateRequest(r) ==
  /\ api[r].st = "none" /\ UNCHANGED edited
  /\ \E ns \in SUBSET Askable[r] : User(r, [api[r] EXCEPT !.st = "live", !.want = ns])

EditRequest(r) ==
  /\ api[r].st = "live" /\ r \in Editable \ edited /\ edited' = edited \cup {r}
  /\ \E ns \in (SUBSET Askable[r]) \ {api[r].want} : User(r, [api[r] EXCEPT !.want = ns])

DeleteRequest(r) ==
  /\ api[r].st = "live" /\ UNCHANGED edited
  /\ User(r, [api[r] EXCEPT !.st = "deleting"])

(* RequeueAfter: the key comes back when the token is due.                 *)
TokenAges(r) ==
  /\ api[r].st = "live" /\ api[r].granted /\ r \notin due
  /\ due' = due \cup {r} /\ pending' = pending \cup {r}
  /\ UNCHANGED <<objects, api, worker, budget>>

-----------------------------------------------------------------------------
(* The worker: Reconcile.                                                  *)

Goto(label) == pc' = label /\ UNCHANGED <<cur, view, current, todo, item, denied>>

Idle == /\ pc' = "idle" /\ cur' = Nobody /\ view' = NoRequest /\ current' = FALSE
        /\ todo' = {} /\ item' = Nobody /\ denied' = FALSE

TakeMissing(r) == /\ ~Exists(api[r])
                  /\ UNCHANGED worker

(* Mutant: a granted request is never looked at again.                     *)
TakeRequestOnce(r) ==
  /\ Exists(api[r])
  /\ cur' = r /\ view' = api[r] /\ current' = TRUE
  /\ pc' = IF api[r].st = "deleting" THEN "RoleBinding"
           ELSE IF ~api[r].fin THEN "claim"
           ELSE IF api[r].granted THEN "done" ELSE "account"
  /\ UNCHANGED <<todo, item, denied>>

(* handleDelete, or handleCreateOrUpdate with its finalizer and with       *)
(* tokenRefreshRequired.                                                   *)
TakeRequest(r) ==
  /\ Exists(api[r])
  /\ cur' = r /\ view' = api[r] /\ current' = TRUE
  /\ pc' = IF api[r].st = "deleting" THEN "RoleBinding"
           ELSE IF ~api[r].fin THEN "claim"
           ELSE IF api[r].granted /\ r \notin due THEN "done" ELSE "account"
  /\ UNCHANGED <<todo, item, denied>>

Take(r) == /\ pc = "idle" /\ r \in pending /\ pending' = pending \ {r}
           /\ TakeMissing(r) \/ TakeRequest(r)
           /\ UNCHANGED <<objects, api, due, budget>>

(* Update: rejected when the copy is old.                                  *)
AddFinalizer ==
  /\ pc = "claim" /\ current
  /\ Write(cur, [view EXCEPT !.fin = TRUE])
  /\ view' = api'[cur] /\ pc' = "account"
  /\ UNCHANGED <<objects, due, cur, current, todo, item, denied, budget>>

RemoveFinalizer ==
  /\ pc = "release" /\ current
  /\ Write(cur, [view EXCEPT !.fin = FALSE]) /\ Idle
  /\ UNCHANGED <<objects, due, budget>>

Rejected == /\ pc \in {"claim", "release"} /\ ~current
            /\ Goto("fail") /\ UNCHANGED <<objects, api, due, pending, budget>>

-----------------------------------------------------------------------------
(* reconcileTokenAccess.                                                   *)

OnKind == UNCHANGED <<api, due, pending, cur, view, current>>

(* Mutant: whoever comes last puts its labels on what is there.            *)
PutOver(o) ==
  objects' = {x \in objects : x.kind # o.kind \/ x.name # o.name} \cup {o}

Put(o) == ~Foreign(o) /\ objects' = objects \cup {o}

EnsureAccount ==
  /\ pc = "account" /\ Put(Account(cur))
  /\ pc' = "permissions" /\ todo' = view.want \ References
  /\ OnKind /\ UNCHANGED <<item, denied, budget>>

(* The role, and then its binding.  Permissions are taken in any order.    *)
EnsureRole(n) ==
  /\ pc = "permissions" /\ n \in todo /\ Put(Role(n, cur))
  /\ pc' = "bind" /\ item' = n
  /\ OnKind /\ UNCHANGED <<todo, denied, budget>>

EnsureRoleBinding ==
  /\ pc = "bind" /\ Put(Binding(item, cur))
  /\ pc' = "permissions" /\ todo' = todo \ {item} /\ item' = Nobody
  /\ OnKind /\ UNCHANGED <<denied, budget>>

EnsureReference(n) ==
  /\ pc = "references" /\ n \in todo /\ Put(Binding(n, cur))
  /\ todo' = todo \ {n}
  /\ OnKind /\ UNCHANGED <<pc, item, denied, budget>>

(* Mutant: the loop goes on without a note of the error.                   *)
SkipNameUnnoticed(n) ==
  /\ UNCHANGED denied /\ todo' = todo \ {n} /\ item' = Nobody
  /\ pc' = IF pc = "bind" THEN "permissions" ELSE pc
  /\ OnKind

(* An object that is somebody else's is an error, and the loop goes on.    *)
SkipName(n) == /\ denied' = TRUE /\ todo' = todo \ {n} /\ item' = Nobody
               /\ pc' = IF pc = "bind" THEN "permissions" ELSE pc
               /\ OnKind

Refused(n) ==
  /\ n \in todo
  /\ \/ pc = "permissions" /\ Foreign(Role(n, cur))
     \/ pc = "bind" /\ n = item /\ Foreign(Binding(n, cur))
  /\ SkipName(n) /\ UNCHANGED <<objects, budget>>

PermissionsDone ==
  /\ pc = "permissions" /\ todo = {}
  /\ IF denied THEN pc' = "fail" /\ UNCHANGED todo
               ELSE pc' = "references" /\ todo' = view.want \cap References
  /\ OnKind /\ UNCHANGED <<objects, item, denied, budget>>

ReferencesDone ==
  /\ pc = "references" /\ todo = {}
  /\ Goto(IF denied THEN "fail" ELSE "token")
  /\ UNCHANGED <<objects, api, due, pending, budget>>

(* The token, the Secret for it, and the phase in memory.                  *)
IssueToken ==
  /\ pc = "token" /\ view' = [view EXCEPT !.granted = TRUE]
  /\ due' = due \ {cur} /\ pc' = "RoleBinding"
  /\ UNCHANGED <<objects, api, pending, cur, current, todo, item, denied, budget>>

-----------------------------------------------------------------------------
(* cleanupResources, for handleCreateOrUpdate and handleDelete.            *)

Keep == IF view.st = "deleting" THEN {} ELSE Needed(cur, view.want)

(* Mutant: objects of any request are selected.                            *)
DoomedUnlabelled(k) == {o \in objects : o.kind = k} \ Keep

(* The objects with the labels of the request, but for those to be kept.   *)
Doomed(k) == {o \in objects : o.kind = k /\ o.owner = cur} \ Keep

CleanUp(k) ==
  /\ pc = k /\ objects' = objects \ Doomed(k)
  /\ Goto(IF k # "ServiceAccount" THEN Following[k]
          ELSE IF view.st = "deleting" THEN "release" ELSE "done")
  /\ UNCHANGED <<api, due, pending, budget>>

-----------------------------------------------------------------------------
(* updateStatus, and failures.                                             *)

(* Mutant: an error is not returned, and the key not queued again.         *)
RetryNever == pending

Retry == IF pc = "fail" THEN pending \cup {cur} ELSE pending

(* The patch sets the phase, unless the request has gone; its own event    *)
(* queues the key, too.                                                    *)
SaveStatus ==
  /\ pc \in {"done", "fail"} /\ Exists(api[cur])
  /\ api' = [api EXCEPT ![cur].granted = @ \/ view.granted]
  /\ pending' = Retry \cup (IF api' = api THEN {} ELSE {cur}) /\ Idle
  /\ UNCHANGED <<objects, due, budget>>

(* It may be rejected when the request has been changed: whether it        *)
(* carries a version is followed in AccessController.                      *)
PatchRejected ==
  /\ pc \in {"done", "fail"} /\ ~current
  /\ pending' = pending \cup {cur} /\ Idle
  /\ UNCHANGED <<objects, api, due, budget>>

Fault == faults < MaxFaults /\ faults' = faults + 1 /\ UNCHANGED edited

(* A call for one permission fails, with its effect or without: the loop   *)
(* goes on with the next.                                                  *)
EnsureFails(n) ==
  /\ Fault /\ n \in todo
  /\ \/ pc = "permissions" /\ (Put(Role(n, cur)) \/ UNCHANGED objects)
     \/ pc = "bind" /\ n = item /\ (Put(Binding(n, cur)) \/ UNCHANGED objects)
     \/ pc = "references" /\ (Put(Binding(n, cur)) \/ UNCHANGED objects)
  /\ SkipName(n)

(* Mutant: handleDelete drops the error.                                   *)
CleanUpFailsUnseen(k) ==
  /\ Fault /\ pc = k
  /\ \E os \in SUBSET Doomed(k) : objects' = objects \ os
  /\ Goto(IF view.st = "deleting" THEN "release" ELSE "fail")
  /\ UNCHANGED <<api, due, pending>>

(* An error while a kind is cleaned up: other objects of the kind may or   *)
(* may not be gone, the next kind is not begun.                            *)
CleanUpFails(k) ==
  /\ Fault /\ pc = k
  /\ \E os \in SUBSET Doomed(k) : objects' = objects \ os
  /\ Goto("fail") /\ UNCHANGED <<api, due, pending>>

(* Any other call fails without effect, or its answer is lost.             *)
CallFails ==
  /\ Fault
  /\ \/ /\ pc \in {"claim", "release", "account", "token"}
        /\ Goto("fail") /\ UNCHANGED <<objects, api, due, pending>>
     \/ /\ pc = "account" /\ Put(Account(cur)) /\ Goto("fail")
        /\ UNCHANGED <<api, due, pending>>
     \/ /\ pc \in {"claim", "release"} /\ current
        /\ Write(cur, [view EXCEPT !.fin = (pc = "claim")])
        /\ pc' = "fail" /\ current' = FALSE
        /\ UNCHANGED <<objects, due, cur, view, todo, item, denied>>
     \/ /\ pc \in {"done", "fail"} /\ pending' = pending \cup {cur} /\ Idle
        /\ UNCHANGED <<objects, api, due>>

(* updateStatus of a request that has gone: the patch finds nothing.       *)
SaveMissing == /\ pc \in {"done", "fail"} /\ ~Exists(api[cur])
               /\ pending' = pending \cup {cur} /\ Idle
               /\ UNCHANGED <<objects, api, due, budget>>

Crash ==
  /\ Fault /\ Idle /\ pending' = {r \in Requests : Exists(api[r])}
  /\ UNCHANGED <<objects, api, due>>

-----------------------------------------------------------------------------
(* The specification.                                                      *)

Init ==
  /\ objects = {} /\ api = [r \in Requests |-> NoRequest]
  /\ due = {} /\ pending = {}
  /\ pc = "idle" /\ cur = Nobody /\ view = NoRequest /\ current = FALSE
  /\ todo = {} /\ item = Nobody /\ denied = FALSE
  /\ edited = {} /\ faults = 0

Step ==
  \/ AddFinalizer \/ RemoveFinalizer \/ Rejected
  \/ EnsureAccount \/ EnsureRoleBinding \/ PermissionsDone \/ ReferencesDone \/ IssueToken
  \/ \E n \in Names : EnsureRole(n) \/ EnsureReference(n) \/ Refused(n)
  \/ \E k \in Kinds : CleanUp(k)
  \/ SaveStatus \/ SaveMissing \/ PatchRejected

Failure == \/ \E n \in Names : EnsureFails(n)
           \/ \E k \in Kinds : CleanUpFails(k)
           \/ CallFails \/ Crash

Next ==
  \/ \E r \in Requests : \/ CreateRequest(r) \/ EditRequest(r) \/ DeleteRequest(r)
                         \/ TokenAges(r) \/ Take(r)
  \/ Step \/ Failure

Spec == Init /\ [][Next]_vars

(* Time passes, calls return, and the queue hands out its keys in turn.    *)
FairSpec == /\ Spec /\ WF_vars(Step)
            /\ \A r \in Requests : WF_vars(TokenAges(r)) /\ SF_vars(Take(r))

-----------------------------------------------------------------------------
(* Properties.                                                             *)

(* Every variable holds values of the kind the code gives it.              *)
TypeOK ==
  /\ objects \subseteq Objects /\ api \in [Requests -> Request]
  /\ due \subseteq Requests /\ pending \subseteq Requests
  /\ pc \in PCs /\ cur \in Requests \cup {Nobody} /\ view \in Request
  /\ current \in BOOLEAN /\ todo \subseteq Names /\ item \in Names \cup {Nobody}
  /\ denied \in BOOLEAN
  /\ edited \subseteq Editable /\ faults \in 0..MaxFaults

(* A binding never stands without the account it is for, and, unless it is *)
(* for a role reference, without the role of its name and request: there   *)
(* is no moment at which a role of that name made by somebody else would   *)
(* be bound to the account.                                                *)
BindingsBacked ==
  \A r \in Requests, n \in Names :
    Binding(n, r) \in objects =>
      /\ Account(r) \in objects
      /\ n \notin References => Role(n, r) \in objects

(* What is on the kind cluster for a request is there only while the       *)
(* request holds the finalizer, however a cleanup has failed.              *)
NoLeftovers == \A r \in Requests : Owned(r) # {} => Exists(api[r]) /\ api[r].fin

(* A request that was granted and not changed since has everything it asks *)
(* for: a token is issued only when no permission was refused, and no      *)
(* other request, nor its own cleanup, takes any of it away.               *)
GrantBacked ==
  \A r \in Requests : api[r].st = "live" /\ api[r].granted /\ r \notin edited =>
                        Needed(r, api[r].want) \subseteq objects

(* A pass for one request neither takes nor changes what is there for      *)
(* another, even under a name both ask for.                                *)
Isolation ==
  [][\A r \in Requests : Owned(r)' # Owned(r) => cur = r]_vars

(* The role that a binding refers to by its name is the one made for the   *)
(* same request, not one with the rules another request has given it.      *)
BoundToOwnRole ==
  \A r \in Requests, n \in Names \ References, o \in objects :
    Binding(n, r) \in objects /\ o.kind = Role(n, r).kind /\ o.name = n => o.owner = r

(* A pass that issues a token and ends without an error leaves on the kind *)
(* cluster exactly what its copy of the request asks for: what earlier     *)
(* passes or an earlier text of the request have left is gone.             *)
PassExact ==
  [][pc = "ServiceAccount" /\ pc' = "done" => Owned(cur)' = Needed(cur, view.want)]_vars

(* A name the request asks for is in use by another.                       *)
Blocked(r) == \E n \in api[r].want, o \in objects : o.name = n /\ o.owner # r

(* What a request has is at last what it asks for, neither less nor more,  *)
(* unless another one has a name it wants: when that lets it go, the       *)
(* waiting one gets it.                                                    *)
AccessConverges ==
  \A r \in Requests :
    api[r].st = "live" ~>
      api[r].st # "live" \/ Blocked(r) \/ Owned(r) = Needed(r, api[r].want)

(* A request that is deleted goes, and all it had goes before it.          *)
DeletionCompletes ==
  \A r \in Requests : api[r].st = "deleting" ~> api[r].st = "gone" /\ Owned(r) = {}

(* What a request has, and its finalizer, follow AccessLifecycle.          *)
Hold(r) == IF api[r].st = "gone" THEN "released"
           ELSE IF Exists(api[r]) /\ api[r].fin THEN "held" ELSE "none"

Lifecycle == INSTANCE AccessLifecycle WITH
  Things <- Objects,
  hold <- [r \in Requests |-> Hold(r)],
  access <- [r \in Requests |-> Owned(r)]
ImplementsAccess == Lifecycle!Spec

=============================================================================
