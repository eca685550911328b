-------------------------- MODULE ClusterInvariant --------------------------
(***************************************************************************)
(* Why no kind cluster is orphaned.  The controller decides from copies of *)
(* a resource that may be old: the informer's, the events still on their   *)
(* way, its own.  What makes these decisions safe is what an old copy      *)
(* still guarantees about the object it was taken from.                    *)
(***************************************************************************)
EXTENDS ClusterController

(* The resource is there and cannot go without the controller.             *)
Claimed(c) == Exists(api[c]) /\ api[c].fin

(* The deletion timestamp is set, and nothing ever takes it back.          *)
Past(o) == o.st \in {"deleting", "gone"}

(* A copy with the stored resourceVersion is the stored object; a live     *)
(* copy with the finalizer, however old, means that the finalizer is still *)
(* there; a copy that is past is a copy of an object that is.              *)
Faithful(c, o) ==
  /\ o.rv <= api[c].rv
  /\ o.rv = api[c].rv => o = api[c]
  /\ o.st = "live" /\ o.fin => Claimed(c)
  /\ Past(o) => Past(api[c])

CopiesFaithful ==
  /\ \A c \in Clusters : Faithful(c, cache[c])
  /\ \A i \in 1..Len(watch) : Faithful(watch[i].c, watch[i].obj)

(* Copies arrive in the order of the writes: none is followed by one that  *)
(* is less far.                                                            *)
CopiesInOrder ==
  /\ \A i \in 1..Len(watch) : Past(cache[watch[i].c]) => Past(watch[i].obj)
  /\ \A i, j \in 1..Len(watch) :
       i < j /\ watch[i].c = watch[j].c /\ Past(watch[i].obj) => Past(watch[j].obj)

(* The worker's copy differs from the stored object only by an annotation  *)
(* that is still to be written, unless its Update will be rejected.        *)
ViewCurrent ==
  pc # "idle" =>
    /\ view.rv <= api[cur].rv
    /\ view.rv = api[cur].rv =>
         view = IF pc = "assignSubnet" THEN [api[cur] EXCEPT !.subnet = view.subnet]
                                       ELSE api[cur]

Providing == {"pickSubnet", "assignSubnet", "exists", "creating", "install",
              "isReady", "configure"}
Removing == {"delExists", "removeFinalizer"}

(* The worker provides for a resource only under its claim; when it        *)
(* removes, no live copy can reach it any more; and it gives up the claim  *)
(* when the kind cluster has gone.                                         *)
WorkJustified ==
  /\ pc \in Providing => Claimed(cur)
  /\ pc \in Removing => Past(cache[cur])
  /\ pc = "removeFinalizer" => kind[KindName[cur]].st = "absent"

(* Together with TypeOK these are inductive; NoOrphanKind alone is not.    *)
ClaimInvariant ==
  CopiesFaithful /\ CopiesInOrder /\ ViewCurrent /\ WorkJustified /\ NoOrphanKind

(* From the choice of a subnet on, the worker has one; it gets as far as   *)
(* MetalLB with a subnet it could read.  Together with TypeOK this is      *)
(* inductive and keeps every pool in the Docker network.                   *)
SubnetInHand ==
  /\ pc = "assignSubnet" => view.subnet \in Subnets
  /\ pc = "exists" => view.subnet # NoSubnet
  /\ pc \in {"install", "isReady", "configure"} => view.subnet \in Subnets
  /\ \A n \in Names : kind[n].pool \in Subnets \cup {NoSubnet}

=============================================================================
