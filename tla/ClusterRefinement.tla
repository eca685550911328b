------------------------- MODULE ClusterRefinement -------------------------
(* The cluster controller implements ClusterLifecycle: the claim is what    *)
(* the API server stores about finalizers and deletion, the host is the     *)
(* Docker host.                                                             *)
EXTENDS ClusterController

ClaimOn(o) == CASE o.st = "gone" -> "released"
                [] o.st = "deleting" /\ ~o.fin -> "released"
                [] Exists(o) /\ o.fin /\ (o.st = "live" \/ o.foreign = "held") -> "held"
                [] o.fin /\ o.st = "deleting" /\ o.foreign # "held" -> "leaving"
                [] OTHER -> "none"

Lifecycle == INSTANCE ClusterLifecycle WITH
  Unsafe <- {c \in Clusters : KindName[c] \in Losable},
  claim <- [c \in Clusters |-> ClaimOn(api[c])],
  host <- [c \in Clusters |-> kind[KindName[c]].st]

(* Every behaviour of the controller, with its stale reads, lost answers    *)
(* and restarts, is one the lifecycle allows.                               *)
ImplementsLifecycle == Lifecycle!Spec

=============================================================================
