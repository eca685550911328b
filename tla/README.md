# cluster-provider-kind in TLA+

`cluster-provider-kind` is a controller-runtime program. On the platform cluster it
watches `Cluster` resources with profile `kind` and gives each of them a kind cluster on
the Docker host, with MetalLB installed and a load balancer subnet of its own; and it
watches `AccessRequest` resources and gives each of them a kubeconfig for the kind cluster
of the `Cluster` it refers to. This directory models the two reconcile loops, the
arithmetic of subnets and the init command, checks them with TLC, and proves the central
safety properties with TLAPS.

## The system

| Component | Code | State it keeps | Operations |
|---|---|---|---|
| Cluster controller | `internal/controller/cluster_controller.go` | finalizer, subnet annotation and status of a `Cluster` | `Reconcile`, `handleCreateOrUpdate`, `handleDelete`, `assignSubnet` |
| Subnet allocation | `pkg/kind/networking.go` | none; a mutex around one List | `NextAvailableLBNetwork`, `isIPNetTaken`, `calculateV4Subnet` |
| kind provider | `pkg/kind/provider.go` | the containers on the Docker host | `ClusterExists`, `CreateCluster`, `DeleteCluster`, `KubeConfig` |
| MetalLB installation | `pkg/metallb/` | objects on the kind cluster | `Install`, `IsReady`, `ConfigureSubnet` |
| Access request controller | `internal/controller/accessrequest_controller.go` | finalizer, annotation and status of an `AccessRequest`; its Secret; account and roles on the kind cluster | `Reconcile`, `handleCreateOrUpdate`, `handleDelete`, `reconcileTokenAccess`, `reconcileOIDCAccess`, `tokenRefreshRequired`, `cleanupResources`, `updateStatus` |
| Process | `cmd/cluster-provider-kind/main.go`, `internal/controller/config.go` | flags in package variables | starts the manager; `init` creates CRDs and the profile |
| API types, CRDs, manifests, scripts | `api/`, `config/`, `hack/` | none | none |

How they interact:

* **API server.** Both controllers read through an informer cache that lags behind the
  server, and write with `Update`, which fails unless the resourceVersion is the stored
  one. The status of a `Cluster` is also written with an update; the status of an
  `AccessRequest` with a merge patch, which carries a resourceVersion only if an `Update`
  of the same pass has changed it.
* **Work queue.** An event of the informer queues the resource's key. An error, or
  `IsProgressing`/`IsStable` of the requeue store, queues it again after a while.
  `StopRequeue` and an empty result do not. Each controller has one worker. After ten
  hours the informer hands out everything again.
* **Docker host and kind clusters.** Calls there are guarded by nothing. They take
  minutes (`CreateCluster`), may fail half way, and may be cut off by a restart; the
  host changes without telling anybody.
* **Between the two controllers** there is only the kind cluster: the cluster controller
  makes it appear and disappear, the access controller finds it there or not.

What is hard, and what each part must get right (`PROJECT.json` lists the hazards with
their lines):

* *Cluster controller*: no kind cluster without a resource that will remove it; none
  created anew for a resource that is being deleted; none removed while others hold the
  resource; every resource that needs attention is looked at again; Ready means ready.
* *Subnet allocation*: no subnet twice; an assigned one is never changed; exhaustion is
  waited out.
* *MetalLB*: the pool is the annotated subnet; a partial installation is completed.
* *Access controller*: nothing stays on a kind cluster once the request is gone; a grant
  is not overwritten by a failing pass; tokens are renewed; access converges to what is
  asked for; deletion completes; requests that ask for permissions of the same name do not
  take them from one another, and no binding outlives its role or its account.
* *Init command*: when it reports success, everything is stored, and is its own version.

## Modules

| Module | What it is |
|---|---|
| `KindNetworking` | the pure part of `networking.go`: Docker's network, the subnet of an octet |
| `ClusterController` | the cluster controller, with API server, informer, queue, Docker host and MetalLB |
| `ClusterLifecycle` | what it promises: claim, provision, tear down, release, in that order |
| `ClusterRefinement` | `ClusterController` implements `ClusterLifecycle` (refinement mapping) |
| `ClusterInvariant`, `ClusterHistory`, `ClusterReadiness` | the inductive invariants: behind `NoOrphanKind` and `PoolInNetwork`, behind the order of a resource's life, and behind `ReadyBacked`, `PoolMatchesSubnet` and `NeverForgotten`; what the finding about subnets depends on |
| `ClusterControllerProofs`, `ClusterRefinementProofs`, `ClusterReadinessProofs`, `ClusterNetworkProofs` | the theorems about `ClusterController`, its refinement of `ClusterLifecycle`, and `KindNetworking` |
| `AccessController` | the access request controller, one request; its environment is `ClusterLifecycle` |
| `SharedAccess` | the same controller on the kind cluster, object by object, for several requests |
| `AccessLifecycle` | what both promise: claim the request, give and take access, release it |
| `AccessRefinement` | `AccessController` implements `AccessLifecycle` |
| `AccessInvariant`, `AccessControllerProofs` | why `AccessController` leaves nothing behind, forgets nothing and gives what it says, and the theorems about it |
| `SharedInvariant`, `SharedAccessProofs` | the same for `SharedAccess` |
| `ProviderInit`, `ProviderInitProofs` | the init command, and the theorems about it |
| `LifecycleProofs` | what the two lifecycles promise, whoever implements them |
| `MC...` | instances for TLC; each `.cfg` is one run |

`ClusterController` extends `KindNetworking` and implements `ClusterLifecycle`;
`AccessController` runs against `ClusterLifecycle`, so it is composed with what every
cluster controller promises; `SharedAccess` opens the steps that `AccessController` takes
as one (`Grant`, `Prune`, `Clean`), and the two meet in `AccessLifecycle`.

### ClusterController

`api`, `cache` and `watch` are the stored objects, the informer's copies and the events
between them; `queue` and `delayed` are the work queue and the keys that wait for a timer.
The worker is a program counter (`pc`: the next external call), the key (`cur`), its
in-memory object (`view`) and the status built up in it (`stat`). `kind` is the Docker
host: for every kind cluster whether it is absent, half there or running, the state of
MetalLB's pods, and the pool and advertisement configured.

A pass of `Reconcile` is one action per external call, so that anything can happen between
two of them: `Take` dequeues a key, reads the cache and chooses the first call (the filter
on the profile, the deletion timestamp, the finalizers and the annotation are its guards);
`AddFinalizer`, `PickSubnet`, `AssignSubnet`, `BeginCreate`/`EndCreate`, `Connect`,
`Install`, `NotReady`/`MetalLBReady` and `ConfigureSubnet` follow `handleCreateOrUpdate`;
`DeleteCluster`, `NothingLeft` and `RemoveFinalizer` follow `handleDelete`;
`SaveUnchanged` and `SaveStatus` are the end of `Reconcile`. Every write has the outcomes
accepted, rejected (`Rejected`) and accepted with the answer lost (`AnswerLost`); every
other call may fail without effect (`CallFails`) or half way (`CreateFails`,
`InstallFails`, `ConfigureFails`, `DeleteFails`). `Crash` restarts the process: memory is
gone and the cache starts from a fresh list. Users create and delete resources and put
foreign finalizers on them; the host may lose a kind cluster; pods come up and fail.

`KindNetworking` computes with octets and masks: `ParseDockerV4Network` is the first entry
of Docker's IPAM configuration that is not IPv6 (it may be unreadable, or missing),
`Supported` the sizes that are accepted, `CalculateV4Subnet` the subnet with the offset as
its third octet, modulo 256. `PickSubnet` uses them on the constant `Docker`. An annotation
that does not parse (`Malformed`) fails the allocation of everybody who still needs a
subnet (`SubnetUnreadable`), and its own Cluster before MetalLB is installed
(`Connect`).

Abstractions: in the state a subnet is its third octet; a phase and a set of true conditions stand for
the status (conditions are never set to anything else); MetalLB's manifests are their
workloads with a pod. The answer to an `Update` is decoded into the object in memory, which
may or may not bring back the stored phase (`Decoded` allows both). A resource that is
deleted is not created again: a new one has another UID and is another member of
`Clusters`. The list after a restart is taken to be current.

### AccessController

One request (what several do to one another is in `SharedAccess`), the Secret and its cached copy, and
`granted`, what the controller has put on the kind cluster. The kind cluster itself is
`ClusterLifecycle`, instantiated for one `Cluster`: `HostMoves` is any step of it, so what
is shown holds with every cluster controller that implements the lifecycle. Kind clusters
are told apart by `incarnation`, which a kubeconfig, a token and a client connection
remember. Time is abstracted to `due`: a token's renewal time has come or has not.
Versions are abstracted too: the cache is current iff no event is under way (`current`),
and `updated` says whether an `Update` of the pass makes the final patch carry a version.

`Reconcile...` choose the first call; `AddFinalizer`, `Address`/`Annotate`,
`KeepToken`/`RefreshToken` (`tokenRefreshRequired`), `Grant`, `IssueToken`, `Prune` follow
`handleCreateOrUpdate`, `ReconcileOIDCAccess` the other kind of access, `Clean` and
`RemoveFinalizer` `handleDelete`, and `SaveUnchanged`, `SaveStatus`, `PatchRejected`
`updateStatus`. A status patch (`Merged`) carries the fields that differ from what was read,
the list of conditions as a whole; the text of a condition is left out. `ReconcileOIDCAccess`
writes nothing when the Secret the informer has is what is wanted (`InPlace`): a Secret that
has just been deleted is then missed until the next resync. A kind cluster that is half
there may answer or not; that it does not is one of the calls that fail. Expiry itself is not modelled: whether a renewal is in time is a
matter of the 20% that are left.

### SharedAccess

`objects` is what the controller has on one kind cluster: accounts, roles and bindings,
each with its kind, its name and the request in its labels. A permission may be named, and
two requests may use one name; a role reference gets a name made from its request.
`EnsureRole`, `EnsureRoleBinding` and `EnsureReference` put an object there unless it has
somebody else's labels; then the loop over the permissions notes the error and goes on
(`Refused`), as after a call that fails (`EnsureFails`), and no token is issued.
`CleanUp` takes one kind after the other, bindings before what they bind, and stops at the
first kind with an error (`CleanUpFails`). Around it are the passes of `Reconcile`, with
the finalizer, the renewal of the token, restarts and retries, and a request that is
changed; the informer's lag and the loss of kind clusters stay in `AccessController`. The
API server's answer to a changed `roleRef` of an existing binding is not modelled: role
references are told apart by name.

Both modules implement `AccessLifecycle`: a request's access changes only between its claim
and its release, by its own passes or because the kind cluster goes, and a request is
released with nothing left. In `SharedAccess` this is checked with two requests, so that
`Adjust` says that a pass touches nobody else.

### ProviderInit

The init command, call by call: `CreateOrUpdate` is a get, which decodes the stored object
over the one from the program, a mutate function that changes nothing, and a create if
there was nothing. An error exits the process, and the Job starts it again; a new version
of the provider runs it again.

## Runs

Passing:

| Run | Instance | Shows |
|---|---|---|
| `MCFaults` | one Cluster, one failure, one restart, a foreign finalizer, up to three undelivered events | the safety properties and the refinement. With its one subnet `SubnetSticky` shows that an annotation is not lost; that another subnet does not replace it is the theorem's part |
| `MCOneSubnet` | two Clusters, one subnet (octet 255), annotations that do not parse | a Cluster without a subnet is retried; `PoolInNetwork`: what MetalLB hands out is Docker's, at the last octet and with annotations nobody can read; `SharedOnlyByLag`: the informer's lag is the only way to share one |
| `MCProgress` | one Cluster of ours, one of another provider with a malformed annotation, one failure, a kind cluster that vanishes | `BecomesReady`, `DeletionCompletes`, `LossRepaired` |
| `MCAccessFaults` | one request, one failure, one restart, resyncs, the Cluster coming and going | the safety properties of the access controller, among them that Granted tells the truth (`GrantBacked`), a token that is kept is a good one (`KeptTokenSound`) and the observed generation only grows (`ObservedForward`); `ImplementsAccess` |
| `MCAccessRetry` | a reference that is set late, one failure | `BecomesGranted`, `DeletionCompletes` |
| `MCAccessConverge` | token and OIDC access; a change of the request, a deletion of the Secret, or a second kind cluster after the first has vanished; resyncs for OIDC | `TokenRenewed`, `AccessConverges`, `OidcRepaired` |
| `MCShared` | two requests on one kind cluster with a permission of the same name, one of them changed; one failure or restart | `BindingsBacked`, `BoundToOwnRole`, `NoLeftovers`, `GrantBacked`, `PassExact`, `Isolation`, `AccessConverges`, `DeletionCompletes`, `ImplementsAccess` |

Where the code does not do what it says, one run each finds the counterexample:

| Run | Property | What happens |
|---|---|---|
| `MCStaleSubnet` | `UniqueSubnets` | the second Cluster is assigned from a cache without the first one's annotation |
| `MCHalfCreated` | `EventuallyRunning` | a restart during `CreateCluster` leaves half a kind cluster that is never completed |
| `MCAccessKeptToken` | `KeptTokenValid` | a fresh token is kept although the kind cluster it is for was lost and created anew |
| `MCAccessDeletion` | `SecretGoes` | a request deleted after its Cluster never goes |
| `MCInit` | `InitUpgrades` | the second version of the provider finds the CRDs of the first |

Three more disagreements are in the model without a run of their own. While its token is
fresh a request whose `spec.token` has changed keeps the permissions it had until the
renewal, but is reported Ready, with the new generation observed
(`accessrequest_controller.go:179`, "AccessRequest is ready"; line 424 says of the token
that it "reflects the requested cluster access"); `AccessConverges` shows that the renewal
brings the change. Condition Ready, like
every condition, is only ever set to True, so it stays True when the phase falls back to
Progressing (`cluster_controller.go:250-255`; `hack/local-dev.sh:473` waits for it). And
`metallb.IsReady`, which "checks if the MetalLB components are ready" (`status.go:11`),
only looks at the pods there are, so that `MetalLBReady` is set with reason AllPodsReady
before MetalLB's pods exist; `ConfigureSubnet` then fails at the webhook and is retried.

**Bounds.** One failure and one restart at every possible place, together, and a lag of
two or three events reach every interleaving of one stale pass with one disturbed one; a
second failure of a retried call leads back to a state the first has reached. Two
components distinguish "all", "some" and "none" of a partial installation and separate
the webhook from the rest. Two Clusters suffice for sharing: allocation compares pairs. The one subnet of
`MCOneSubnet` is the last octet there is, where the conversion to a byte could go wrong.
One incarnation after another is enough for a token to be of the wrong one. `MaxLag`
bounds users only: the controller's own writes may exceed it. `MaxEdits` is one budget for
changes of the request, deletions of its Secret and kind clusters created anew: after each
of them the request has to converge, from whatever state the pass in progress has reached.
`MaxFaults` of `SharedAccess` counts restarts as well. `Resynced`
limits resyncs to the requests whose liveness needs them; `MCAccessFaults` has them for all.
`MCAccessConverge` does not delete its request; its Cluster still comes and goes.
`Unannotated` and `Misannotated` say how users may create a Cluster: without an annotation,
or with one that does not parse. In `MCProgress` the Cluster with the malformed annotation
is another provider's and stays: while it is there, ours may be left without a subnet
(`Unreadable` in `BecomesReady`). `Docker` in the runs is Docker's usual
pair of an IPv6 and an IPv4 entry; the theorems hold for every configuration. In `MCShared`
one name is shared and one is a reference in a namespace, so that all five kinds of objects
occur.
`CHECK_DEADLOCK FALSE`: the system may really come to rest, when every resource has gone.

**Fairness** (`FairSpec`). The informer delivers, timers fire, the worker's calls return
(they all have an error outcome) and pods come up: weak fairness. The work queue hands its
keys out in turn, so a key that is queued again and again is taken in the end: strong
fairness of `Take` per Cluster. Holders of foreign finalizers release them. Nothing is
assumed of users, of the kind cluster behind a request, or of failures, which are bounded.
The ten-hourly resync is counted on for requests for OIDC access only, which depend on it.
In `SharedAccess` time passes, so that a token comes to its renewal, steps of a pass return,
and the queue is served in turn; users promise nothing, which is why `AccessConverges`
excepts a request as long as another one has a name it wants.

## Proofs

Eight modules hold theorems. They are proved for every value of the constants that meets
the named assumptions of the modules, so for any number of Clusters, subnets, workloads,
permissions and requests, and with no bound on lag, failures or restarts. Each rests on an
inductive invariant. TLC has checked each of these before it was proved, on the run named
with the module or on an instance like it; now that they are proved, the runs list what
they imply, and a change of the model is best tried by adding them to the `.cfg` again.

Five theorems say of a finding what it depends on, which no single counterexample can:
`SubnetsUniqueIfInformed`, `HalfByFailureAlone` and `KeptTokensSound` bound it from one
side (it needs a lagging informer; a failure or a restart; an edit or a new kind cluster),
`StrandedRequestsStay` and `NeverUpgraded` from the other (no retry ever repairs it).

**`ClusterControllerProofs`** (`MCFaults`): `TypeCorrect`; `CopiesGuarantee`
(`ClaimInvariant`); `NoOrphans` (`NoOrphanKind`). `KindName` is any function, so this
covers Clusters that share a kind cluster by their name annotation, which no run does.

`NoOrphanKind` is not inductive: the worker decides from copies that may be old. The
invariant (`ClusterInvariant`) says why that is safe. `CopiesFaithful`: a copy that has the
stored resourceVersion is the stored object, and a *live* copy with the finalizer, however
old, means that the finalizer is still stored, because only a pass that saw the deletion
timestamp removes it. `CopiesInOrder`: once the cache shows the timestamp no live copy can
follow. `ViewCurrent`: the worker's own copy is the stored object, or its next write is
rejected. `WorkJustified` draws the conclusion for each program counter: while it provides
the resource is claimed; while it removes, the cache is past the deletion; and when it
takes the finalizer off, the kind cluster is absent. Each action preserves `TypeOK` and each part
of the invariant; the writes to the API server share one lemma on `Post`, and the
calls to the host one on steps that leave the API server alone.

**`ClusterRefinementProofs`** (`MCFaults`): `HistoryKept` (`HistoryInvariant`);
`SubnetsStick` (`SubnetSticky`); `NeverRecreated` (`NoRecreation`); `OnlyDeletedOnRelease`
(`DeletedOnRelease`); `ControllerImplementsLifecycle`. The invariant adds the order of
events to the claim: a copy without foreign finalizers of a resource that is being deleted
is one of a resource that is let go for ever; *Terminating* is reported only when the cache
no longer shows a live resource, so that no later pass provides for it; a subnet is given
only to a copy without one, and stored only if that copy is current. The lemma `EveryStep`
then sorts the steps into writes of users, writes of the worker, changes of one kind
cluster, and the rest, and the refinement is shown for each sort. It assumes
`OwnKindCluster`, that no two Clusters name the same kind cluster: with a shared one the
controller does not implement the lifecycle, since each Cluster configures it for its own
subnet and either deletion takes it from both.

**`ClusterReadinessProofs`** (`MCFaults`): `ReadinessKept` (`ReadinessInvariant`);
`ReadyMeansReady` (`ReadyBacked`); `PoolsMatch` (`PoolMatchesSubnet`); `NothingForgotten`
(`NeverForgotten`); `SharedByLagAlone` (`SharedOnlyByLag`, run `MCOneSubnet`). What a copy
says of the subnet, of a claim that was given up, and of readiness is never taken back (`CopiesSound`), because the kind cluster of a resource, once
complete, stays so until the resource is deleted or the kind cluster is taken from under
the controller (`BackedStays`); `EveryHost` says what one step can do to a kind cluster.
`LastArrives` ties the informer to the API server: the last event of a resource carries
what is stored, so that a pass that finds nothing to do, or stops without a requeue,
forgets nothing, and all that is delivered is in the list `NextAvailableLBNetwork` looks
at.

`UniqueSubnets` is false (run `MCStaleSubnet`), and `SubnetsUniqueIfInformed` says by what
alone: it holds of every behaviour in which, at each choice of a subnet, the list shows
what the undelivered events carry (`InformedChoice`; the code does not see to that).
`SharedOnlyByLag` speaks of the moment of the choice only; the invariant (`SubnetsApart`)
also covers the chosen subnet in the worker's hands until it is stored, and is kept because
nobody but the one worker assigns. From there, under
`OwnKindCluster`, `PoolsApartIfInformed` goes on to what sharing would do: pools belong to
running kind clusters (`PoolRuns`), match their subnets, and different subnets have no
address in common (`SubnetsDisjoint`). `HalfByFailureAlone` (`HalfByFailure`) does the same
for `MCHalfCreated`: a kind cluster stays half there only after a failure or a restart.

**`ClusterNetworkProofs`** (`MCOneSubnet`): `SubnetInside` and `SubnetsDisjoint` on the
arithmetic of `CalculateV4Subnet`, for every network of a supported size; `SubnetKept`
(`SubnetInHand`: the worker never gets to MetalLB without a subnet it could read) and
`PoolsInNetwork` (`PoolInNetwork`), for every configuration Docker may have.

**`AccessControllerProofs`** (`MCAccessFaults`): `TypeCorrect`; `AccessKept`
(`AccessJustified`); `NothingLeft` (`NoLeftoverAccess`); `TokensBacked` (`TokenBacked`);
`NothingForgotten` (`NeverForgotten`); `SecretBeforeGrant` (`GrantedHasSecret`);
`GrantsStay` (`GrantNotLost`); `GrantsServed` (`AccessServed`); `GrantsBacked`
(`GrantBacked`); `KeptTokensSound` (`KeptTokenSound`); `ObservationsForward`
(`ObservedForward`); `AccessNeedsClaim`; `StrandedRequestsStay`;
`ControllerImplementsAccess` (`ImplementsAccess`). The argument is again one about copies
(`AccessInvariant`): what was asked for, a deletion and a grant are never taken back, and copies arrive in order. The worker's copy differs from a
current one only by an address that is still to be written. It provides only under the
claim, removes only what no live copy can reach any more, and gives the claim up when
nothing is left; a connection and a token are for a kind cluster there has been, and a
token for the one that runs has its account.

For what *is* there, rather than what must not be, a second invariant is needed
(`AccessServed`): a grant may stand for hours after the pass that made it, and in between
passes with old copies prune, fail and clean up. As long as nobody edits the request,
deletes its Secret or creates the kind cluster anew (`edits = 0`), all copies ask for the
same (`WantKept`), and whatever is granted, or about to be, is on the kind cluster
unless the informer knows that the request is deleted (`GrantServed`). `KeptTokensSound` draws
the conclusion for `tokenRefreshRequired`. `ObservationsForward` rests on `ObservedKnown`:
generations grow along the copies, and what is observed is not ahead of any copy that
can still be written from; without it a status patch, which carries no version, could take
an observation back. `AccessNeedsClaim` uses of the cluster controller only what
`ClusterLifecycle` promises.

**`SharedAccessProofs`** (`MCShared`): `TypeCorrect`; `PassesJustified` (`PassInvariant`);
`NoUnbackedBinding` (`BindingsBacked`); `NothingLeftOver` (`NoLeftovers`); `GrantsHold`
(`GrantBacked`); `RequestsIsolated` (`Isolation`); `SharedImplementsAccess`. The invariant
(`SharedInvariant`) says, for each place in a pass, what the copy still guarantees, what
the pass has ensured so far and what the cleanup has finished with; that another request's
labels keep its objects from being touched gives the isolation. `NamesApart` (`OneOwner`)
is inductive because of that refusal alone, and with `BindingsBacked` gives `BoundToOwn`
(`BoundToOwnRole`): a binding refers to its role by name, and the role of that name is
never another request's. `PassesExact` (`PassExact`) puts what was ensured and what was
cleaned up together: a pass that ends well leaves neither too little nor too much.

**`ProviderInitProofs`**: `InitCompletes`, that everything is stored, in some version, when
the init command reports success; `NeverUpgraded`, that this version is the first one, for
any number of versions and repetitions.

**`LifecycleProofs`**: what `ClusterLifecycle` and `AccessLifecycle` themselves promise, and
so everything that implements them: `ClusterNoOrphan`, `ClusterReleasedForGood`,
`ClusterKept` (a kind cluster that only the controller can remove runs until its resource
may go), `AccessClaimed`, `AccessReleasedForGood`.

**Model-checked only.** Liveness (`BecomesReady`, `DeletionCompletes`, `LossRepaired`,
`BecomesGranted`, `TokenRenewed`, `AccessConverges`, `OidcRepaired`), because the prover
handles neither fairness nor `ENABLED`. The runs that find a counterexample stay with TLC,
too: that something can happen is not a safety property.

## Not modelled

* The endpoints and the provider status of a Cluster, the text of conditions, names and
  labels, the contents of kubeconfigs, the rules of roles: nothing in the program reads
  them back, or only the API server interprets them.
* The rendering of MetalLB's manifests, with the panic that `build` recovers
  (`pkg/metallb/install.go:140`): a matter of one library call on embedded data.
* What the library's `Ensure...` calls and the API server do inside; they are modelled by
  their effect (external). Objects that are replaced because their `roleRef` changed at the
  same index of a request are told apart by name; namespaces are created, never removed.
* A name annotation that changes, and a kind cluster that existed before its Cluster (how
  `hack/local-dev.sh` adopts the platform cluster): `KindName` is a constant. The theorems
  hold for every function, but for one that stays as it is.
* Annotations with a valid subnet that users set themselves: only missing and unreadable
  ones are created.
* A Docker network that is removed and created with another range while subnets are
  assigned: kind keeps the network as long as a kind cluster is attached to it.
* Flags, certificates, metrics and leader election, which configure the libraries (one
  process at a time is assumed, as the deployment has it); API types, CRDs, manifests and
  scripts, which have no operations.

## Plan

Done: the two controllers with their abstract specifications, refinements, runs and
liveness; the composition of the access controller with the lifecycle of its kind cluster;
several requests on one kind cluster; subnet arithmetic; the init command; and, by proof,
every safety invariant and action property of the passing runs, the three refinements,
the promises of the abstract specifications, and for each finding what it depends on or
that nothing repairs it.

Left, by what it would add: a name annotation that changes and kind clusters that are
adopted (`KindName` as a variable that users write, with the properties restricted to
Clusters that keep their name).
