---------------------------- MODULE ClusterHistory ----------------------------
(***************************************************************************)
(* Why the controller keeps the order of a resource's life: what an old    *)
(* copy says of a deletion stays true, whatever is written afterwards, and *)
(* what the pass is about to do was decided from such copies.              *)
(***************************************************************************)
EXTENDS ClusterInvariant

(* To be deleted, and nobody else holds it: no finalizer can be added.     *)
LetGo(o) == Past(o) /\ o.foreign # "held"

Reported(o) == o.status.phase = "Terminating"

(* A copy that is let go is one of an object that is, and no copy of a     *)
(* live resource reports the end of its kind cluster.                      *)
Lasting(c, o) == /\ LetGo(o) => LetGo(api[c])
                 /\ o.st = "live" => ~Reported(o)

CopiesLasting ==
  /\ \A c \in Clusters : Lasting(c, cache[c])
  /\ \A i \in 1..Len(watch) : Lasting(watch[i].c, watch[i].obj)

(* The end is reported only when the cache no longer shows a live resource.*)
ReportedLate == \A c \in Clusters : Reported(api[c]) => Past(cache[c])

(* Nothing is known of a resource before it is created.                    *)
NothingBefore == \A c \in Clusters : api[c].st = "none" => api[c] = NoObject

(* The finalizer is added to a live copy, a subnet to one without; the     *)
(* worker removes what was let go, completes what it has begun, and does   *)
(* not provide for a resource once the end is reported.                    *)
PassInOrder ==
  /\ pc = "addFinalizer" => view.st = "live"
  /\ pc = "pickSubnet" => view.subnet = NoSubnet
  /\ pc = "assignSubnet" /\ view.rv = api[cur].rv => api[cur].subnet = NoSubnet
  /\ pc \in Removing => LetGo(api[cur])
  /\ pc = "creating" => kind[KindName[cur]].st = "partial"
  /\ pc # "idle" /\ (stat.phase = "Terminating" \/ Reported(view)) => Past(cache[cur])
  /\ pc \in Providing =>
       ~Reported(api[cur]) /\ ~Reported(view) /\ stat.phase # "Terminating"

(* Inductive together with TypeOK and ClaimInvariant.                      *)
HistoryInvariant == CopiesLasting /\ ReportedLate /\ NothingBefore /\ PassInOrder

=============================================================================
