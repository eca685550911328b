---------------------------- MODULE LifecycleProofs ----------------------------
(***************************************************************************)
(* What the two lifecycles promise, for any number of resources: these are *)
(* the promises that ClusterController, AccessController and SharedAccess  *)
(* inherit by implementing them.                                           *)
(***************************************************************************)
EXTENDS TLAPS

CONSTANTS Clusters, Unsafe, Requests, Things
VARIABLES claim, host, hold, access

Cluster == INSTANCE ClusterLifecycle
Access == INSTANCE AccessLifecycle

-----------------------------------------------------------------------------
(* The kind clusters.                                                      *)

(* A move of a claim, or a turn of a kind cluster, keeps the types.        *)
LEMMA ClusterTyped ==
  ASSUME Cluster!TypeInvariant, [Cluster!Next]_Cluster!lifecycle
  PROVE  Cluster!TypeInvariant'
<1> USE DEF Cluster!TypeInvariant
<1>1. ASSUME NEW c \in Clusters, NEW from, NEW to \in {"released"} \cup Cluster!Held,
             Cluster!Move(c, from, to)
      PROVE  Cluster!TypeInvariant'
  BY <1>1 DEF Cluster!Move
<1>2. ASSUME NEW c \in Clusters, NEW from, NEW to \in {"absent", "partial", "running"},
             Cluster!Turn(c, from, to)
      PROVE  Cluster!TypeInvariant'
  BY <1>2 DEF Cluster!Turn
<1>3. ASSUME NEW c \in Clusters,
             Cluster!Claim(c) \/ Cluster!Decline(c) \/ Cluster!Leave(c) \/ Cluster!Release(c)
      PROVE  Cluster!TypeInvariant'
  BY <1>1, <1>3
  DEF Cluster!Claim, Cluster!Decline, Cluster!Leave, Cluster!Release, Cluster!Held
<1>4. ASSUME NEW c \in Clusters,
             Cluster!Provision(c) \/ Cluster!TearDown(c) \/ Cluster!Vanish(c)
      PROVE  Cluster!TypeInvariant'
  BY <1>2, <1>4 DEF Cluster!Provision, Cluster!TearDown, Cluster!Vanish
<1> QED
  BY <1>3, <1>4 DEF Cluster!Next, Cluster!lifecycle

(* What a step may do to the claim and the kind cluster of one resource.   *)
ClaimMoves(d) ==
  /\ host'[d] = host[d]
  /\ \/ claim[d] = "none"
     \/ claim[d] = "held" /\ claim'[d] = "leaving"
     \/ claim[d] = "leaving" /\ claim'[d] = "released" /\ host[d] = "absent"
HostMoves(d) ==
  /\ claim'[d] = claim[d]
  /\ \/ claim[d] \in Cluster!Held /\ host[d] # "running"
     \/ claim[d] = "leaving"
     \/ d \in Unsafe /\ host[d] = "running" /\ host'[d] = "absent"

LEMMA OneCluster ==
  ASSUME Cluster!TypeInvariant, [Cluster!Next]_Cluster!lifecycle, NEW d \in Clusters
  PROVE  ClaimMoves(d) \/ HostMoves(d) \/ (claim'[d] = claim[d] /\ host'[d] = host[d])
<1> DEFINE Same == claim'[d] = claim[d] /\ host'[d] = host[d]
<1>1. ASSUME NEW c \in Clusters, NEW from, NEW to, Cluster!Move(c, from, to)
      PROVE  /\ host'[d] = host[d] /\ claim[c] = from
             /\ claim'[d] = IF d = c THEN to ELSE claim[d]
  BY <1>1 DEF Cluster!Move, Cluster!TypeInvariant
<1>2. ASSUME NEW c \in Clusters, NEW from, NEW to, Cluster!Turn(c, from, to)
      PROVE  /\ claim'[d] = claim[d] /\ host[c] = from
             /\ host'[d] = IF d = c THEN to ELSE host[d]
  BY <1>2 DEF Cluster!Turn, Cluster!TypeInvariant
<1>3. ASSUME NEW c \in Clusters,
             Cluster!Claim(c) \/ Cluster!Decline(c) \/ Cluster!Leave(c) \/ Cluster!Release(c)
      PROVE  ClaimMoves(d) \/ Same
  BY <1>1, <1>3
  DEF Cluster!Claim, Cluster!Decline, Cluster!Leave, Cluster!Release, ClaimMoves
<1>4. ASSUME NEW c \in Clusters,
             Cluster!Provision(c) \/ Cluster!TearDown(c) \/ Cluster!Vanish(c)
      PROVE  HostMoves(d) \/ Same
  BY <1>2, <1>4
  DEF Cluster!Provision, Cluster!TearDown, Cluster!Vanish, HostMoves
<1> QED
  BY <1>3, <1>4 DEF Cluster!Next, Cluster!lifecycle

(* No kind cluster is there without the claim on its resource.             *)
THEOREM ClusterNoOrphan == Cluster!Spec => [](Cluster!TypeInvariant /\ Cluster!NoOrphan)
<1>1. Cluster!Init => Cluster!TypeInvariant /\ Cluster!NoOrphan
  BY DEF Cluster!Init, Cluster!TypeInvariant, Cluster!NoOrphan
<1>2. /\ Cluster!TypeInvariant /\ Cluster!NoOrphan /\ [Cluster!Next]_Cluster!lifecycle
      => Cluster!TypeInvariant' /\ Cluster!NoOrphan'
  <2> SUFFICES ASSUME Cluster!TypeInvariant, Cluster!NoOrphan,
                      [Cluster!Next]_Cluster!lifecycle
               PROVE  Cluster!NoOrphan'
    BY ClusterTyped
  <2> SUFFICES ASSUME NEW d \in Clusters, host'[d] # "absent"
               PROVE  claim'[d] \in Cluster!Held
    BY DEF Cluster!NoOrphan
  <2> QED
    BY OneCluster DEF ClaimMoves, HostMoves, Cluster!NoOrphan, Cluster!Held
<1> QED
  BY <1>1, <1>2, PTL DEF Cluster!Spec

(* A resource that was let go has no kind cluster, then or ever after.     *)
THEOREM ClusterReleasedForGood == Cluster!Spec => Cluster!ReleasedForGood
<1>1. Cluster!TypeInvariant /\ Cluster!NoOrphan /\ [Cluster!Next]_Cluster!lifecycle
      => [\A c \in Clusters : claim[c] = "released" =>
            claim'[c] = "released" /\ host'[c] = "absent"]_Cluster!lifecycle
  BY OneCluster DEF ClaimMoves, HostMoves, Cluster!NoOrphan, Cluster!Held
<1> QED
  BY <1>1, ClusterNoOrphan, PTL DEF Cluster!Spec, Cluster!ReleasedForGood

(* A kind cluster runs until its resource may go, unless others take it.   *)
THEOREM ClusterKept == Cluster!Spec => Cluster!KeptWhileHeld
<1>1. Cluster!TypeInvariant /\ Cluster!NoOrphan /\ [Cluster!Next]_Cluster!lifecycle
      => [\A c \in Clusters \ Unsafe : host[c] = "running" /\ host'[c] # "running" =>
            claim[c] = "leaving"]_Cluster!lifecycle
  BY OneCluster DEF ClaimMoves, HostMoves
<1> QED
  BY <1>1, ClusterNoOrphan, PTL DEF Cluster!Spec, Cluster!KeptWhileHeld

-----------------------------------------------------------------------------
(* The access.                                                             *)

(* A request has something on the kind cluster only while it is held.      *)
THEOREM AccessClaimed == Access!Spec => [](Access!TypeInvariant /\ Access!NoAccessUnclaimed)
<1>1. Access!Init => Access!TypeInvariant /\ Access!NoAccessUnclaimed
  BY DEF Access!Init, Access!TypeInvariant, Access!NoAccessUnclaimed
<1>2. /\ Access!TypeInvariant /\ Access!NoAccessUnclaimed /\ [Access!Next]_Access!vars
      => (Access!TypeInvariant /\ Access!NoAccessUnclaimed)'
  BY DEF Access!TypeInvariant, Access!NoAccessUnclaimed, Access!Next, Access!vars,
     Access!Claim, Access!Forgo, Access!Adjust, Access!Release, Access!Vanish
<1> QED
  BY <1>1, <1>2, PTL DEF Access!Spec

(* A request that was let go gets nothing any more.                        *)
THEOREM AccessReleasedForGood == Access!Spec => Access!ReleasedForGood
<1>1. Access!TypeInvariant /\ Access!NoAccessUnclaimed /\ [Access!Next]_Access!vars
      => [\A r \in Requests : hold[r] = "released" =>
            hold'[r] = "released" /\ access'[r] = {}]_Access!vars
  BY DEF Access!TypeInvariant, Access!NoAccessUnclaimed, Access!Next, Access!vars,
     Access!Claim, Access!Forgo, Access!Adjust, Access!Release, Access!Vanish
<1> QED
  BY <1>1, AccessClaimed, PTL DEF Access!Spec, Access!ReleasedForGood

=============================================================================
