------------------------ MODULE MCClusterController ------------------------
(* Instances of ClusterController for TLC.                                  *)
EXTENDS ClusterRefinement, ClusterReadiness, TLC

CONSTANTS c1, c2

(* name.uid: every resource its own kind cluster.                           *)
MCNames == Clusters
MCKindName == [c \in Clusters |-> c]

(* Docker's usual network for kind: an IPv6 entry, then the IPv4 one.       *)
MCDocker == <<[family |-> "v6", ip |-> <<0, 0, 0, 0>>, ones |-> 0],
              [family |-> "v4", ip |-> <<172, 18, 0, 0>>, ones |-> 16]>>

(* Resources with the same bounds can be exchanged for one another.         *)
Symmetry == Permutations(Clusters)

=============================================================================
