--------------------------- MODULE ClusterReadiness ---------------------------
(***************************************************************************)
(* Why Ready means ready, why MetalLB serves the annotated subnet and why  *)
(* no resource is forgotten: what is told of a resource in any copy of it, *)
(* however old, and in the status a pass is building up, still holds.      *)
(***************************************************************************)
EXTENDS ClusterHistory

(* The kind cluster runs, with MetalLB configured for the stored subnet.   *)
Complete(c) ==
  LET k == kind[KindName[c]]
  IN /\ k.st = "running" /\ k.adv
     /\ k.pool = api[c].subnet /\ k.pool # NoSubnet
     /\ \A p \in Components : k.comps[p] # "none"

(* It stays complete until the resource is deleted, unless another one     *)
(* names the same kind cluster or it is taken from the host.               *)
Backed(c) ==
  ~Exclusive(c) \/ KindName[c] \in lost \/ Past(api[c]) \/ Complete(c)

(* What a copy says of the subnet, of a claim that was given up and of     *)
(* readiness is never taken back.                                          *)
Sound(c, o) ==
  /\ o.subnet # NoSubnet => api[c].subnet = o.subnet
  /\ Past(o) /\ ~o.fin => Past(api[c]) /\ ~api[c].fin
  /\ o.status.phase = "Ready" => Backed(c)

CopiesSound ==
  /\ \A c \in Clusters : Sound(c, api[c]) /\ Sound(c, cache[c])
  /\ \A i \in 1..Len(watch) : Sound(watch[i].c, watch[i].obj)

(* An event of the resource is on its way.                                 *)
Coming(c) == \E i \in 1..Len(watch) : watch[i].c = c

(* The last event of a resource carries what is stored; when all have been *)
(* delivered the cache has it.                                             *)
LastArrives ==
  \A c \in Clusters :
    \/ ~Coming(c) /\ cache[c] = api[c]
    \/ \E i \in 1..Len(watch) :
         /\ watch[i].c = c /\ watch[i].obj = api[c]
         /\ \A j \in (i + 1)..Len(watch) : watch[j].c # c

(* It needs the controller: to be provided for, or to be let go.           *)
Needed(o) == o.st = "live" \/ (o.st = "deleting" /\ o.fin)

(* What the pass reports is so; what it configures is the stored subnet;   *)
(* it gets to the pods with MetalLB installed; and it stops only when the  *)
(* resource needs nothing more or is to be taken up again.                 *)
PassReady ==
  /\ pc # "idle" /\ "Ready" \in {view.status.phase, stat.phase} => Backed(cur)
  /\ pc \in {"exists", "creating", "install", "isReady", "configure"} =>
       view.subnet # NoSubnet /\ view.subnet = api[cur].subnet
  /\ pc \in {"isReady", "configure"} /\ kind[KindName[cur]].st = "running" =>
       \A p \in Components : kind[KindName[cur]].comps[p] # "none"
  /\ pc = "saveStop" /\ Needed(api[cur]) => cur \in queue \/ Coming(cur)

(* Inductive together with TypeOK, ClaimInvariant and HistoryInvariant.    *)
ReadinessInvariant ==
  CopiesSound /\ LastArrives /\ PassReady /\ PoolMatchesSubnet /\ NeverForgotten

-----------------------------------------------------------------------------
(* How two resources come to share a subnet, and what follows if they do   *)
(* not.                                                                    *)

(* The list NextAvailableLBNetwork looks at shows every subnet that an     *)
(* undelivered event carries.                                              *)
Informed ==
  \A i \in 1..Len(watch) :
    watch[i].obj.subnet \in Taken \cup {NoSubnet, Malformed}

(* No subnet is chosen while an assignment is undelivered.                 *)
InformedChoice ==
  [][pc = "pickSubnet" /\ pc' = "assignSubnet" => Informed]_vars

(* The subnet in the worker's hands is no other resource's either.         *)
SubnetsApart ==
  /\ UniqueSubnets
  /\ pc = "assignSubnet" =>
       \A d \in Clusters : d # cur /\ Exists(api[d]) => api[d].subnet # view.subnet

(* Only a kind cluster that runs has a pool.                               *)
PoolRuns == \A n \in Names : kind[n].pool # NoSubnet => kind[n].st = "running"

(* No address is handed out by the MetalLB of two kind clusters.           *)
PoolsApart ==
  \A m, n \in Names :
    m # n /\ kind[m].pool # NoSubnet /\ kind[n].pool # NoSubnet =>
      Disjoint(SubnetOf(kind[m].pool), SubnetOf(kind[n].pool))

-----------------------------------------------------------------------------
(* Where half a kind cluster comes from: CreateCluster is at work on it,   *)
(* or a call has failed, or the controller was restarted.  Inductive.      *)
HalfByFailure ==
  \A n \in Names : kind[n].st = "partial" =>
    \/ pc = "creating" /\ KindName[cur] = n
    \/ faults > 0 \/ crashes > 0

=============================================================================
