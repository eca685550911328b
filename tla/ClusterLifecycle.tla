-------------------------- MODULE ClusterLifecycle --------------------------
(***************************************************************************)
(* What the cluster controller promises about a Cluster resource and the   *)
(* kind cluster behind it, without caches, queues, versions or failures:   *)
(* the kind cluster comes into being only once the resource is claimed     *)
(* with a finalizer, is taken down only once the resource may go, and the  *)
(* claim is given up only when nothing of the kind cluster is left.        *)
(***************************************************************************)
CONSTANTS
  Clusters,   \* Cluster resources, each with a kind cluster of its own
  Unsafe      \* those whose kind cluster others may remove from the host

VARIABLES
  claim,      \* none, held; leaving: to be deleted, and only the controller
              \* still holds it; released
  host        \* the kind cluster: absent, partial or running

lifecycle == <<claim, host>>

Held == {"held", "leaving"}

TypeInvariant ==
  /\ claim \in [Clusters -> {"none", "released"} \cup Held]
  /\ host \in [Clusters -> {"absent", "partial", "running"}]

Init == /\ claim = [c \in Clusters |-> "none"]
        /\ host = [c \in Clusters |-> "absent"]

Move(c, from, to) == /\ claim[c] = from /\ claim' = [claim EXCEPT ![c] = to]
                     /\ UNCHANGED host
Turn(c, from, to) == /\ host[c] = from /\ host' = [host EXCEPT ![c] = to]
                     /\ UNCHANGED claim

Claim(c) == Move(c, "none", "held")
Decline(c) == Move(c, "none", "released")
Leave(c) == Move(c, "held", "leaving")
Release(c) == host[c] = "absent" /\ Move(c, "leaving", "released")

Provision(c) ==
  /\ claim[c] \in Held
  /\ \/ Turn(c, "absent", "partial")    \* begun
     \/ Turn(c, "partial", "running")   \* completed
     \/ Turn(c, "partial", "absent")    \* failed and cleared away

TearDown(c) ==
  /\ claim[c] = "leaving"
  /\ \/ \E s \in {"partial", "running"} : Turn(c, s, "absent")
     \/ Turn(c, "running", "partial")   \* failed half way

Vanish(c) == c \in Unsafe /\ Turn(c, "running", "absent")

Next == \E c \in Clusters :
          \/ Claim(c) \/ Decline(c) \/ Leave(c) \/ Release(c)
          \/ Provision(c) \/ TearDown(c) \/ Vanish(c)

Spec == Init /\ [][Next]_lifecycle

(* No kind cluster without a claim.                                        *)
NoOrphan == \A c \in Clusters : host[c] # "absent" => claim[c] \in Held

(* What was released is not claimed again, and nothing comes back for it.  *)
ReleasedForGood ==
  [][\A c \in Clusters : claim[c] = "released" =>
       claim'[c] = "released" /\ host'[c] = "absent"]_lifecycle

(* A kind cluster that nobody else can remove runs until the claim may go. *)
KeptWhileHeld ==
  [][\A c \in Clusters \ Unsafe : host[c] = "running" /\ host'[c] # "running" =>
       claim[c] = "leaving"]_lifecycle

=============================================================================
