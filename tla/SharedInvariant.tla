--------------------------- MODULE SharedInvariant ---------------------------
(***************************************************************************)
(* Why SharedAccess keeps what it promises.  The worker decides from a     *)
(* copy of the request it took at the beginning of a pass, and from what   *)
(* the pass has already done on the kind cluster.                          *)
(***************************************************************************)
EXTENDS SharedAccess

Providing == {"account", "permissions", "bind", "references", "token"}

(* What the copy still guarantees about the request, however old it is: a  *)
(* live one with the finalizer that the finalizer is there, one that is    *)
(* being deleted that it is past, and one of a request nobody changed that *)
(* this is what it asks for.                                               *)
CopyJustified ==
  pc # "idle" =>
    /\ cur \in Requests /\ Exists(view) /\ api[cur].st # "none"
    /\ current => view = [api[cur] EXCEPT !.granted = view.granted]
    /\ view.st = "live" /\ view.fin => Exists(api[cur]) /\ api[cur].fin
    /\ view.st = "deleting" => api[cur].st \in {"deleting", "gone"}
    /\ cur \notin edited => view.want = api[cur].want

(* The worker provides under a live copy with the finalizer, and releases  *)
(* under one that is being deleted.                                        *)
PassJustified ==
  /\ pc = "claim" => view.st = "live"
  /\ pc \in Providing => view.st = "live" /\ view.fin
  /\ pc = "release" => view.st = "deleting"

(* What the pass has put there so far; and a copy that is granted has all  *)
(* the request asks for, unless it has been changed.                       *)
EnsuredSoFar ==
  /\ pc \in {"permissions", "bind", "references"} => Account(cur) \in objects
  /\ pc \in {"permissions", "bind"} =>
       /\ todo \subseteq view.want \ References
       /\ ~denied => Needed(cur, (view.want \ References) \ todo) \subseteq objects
  /\ pc = "bind" => item \in todo /\ Role(item, cur) \in objects
  /\ pc = "references" =>
       /\ todo \subseteq References
       /\ ~denied => Needed(cur, view.want \ todo) \subseteq objects
  /\ \/ pc = "token"
     \/ pc \in Kinds /\ view.st = "live"
     \/ pc # "idle" /\ view.st = "live" /\ view.granted /\ cur \notin edited
     => Needed(cur, view.want) \subseteq objects

(* The kinds that cleanupResources has finished when it is at another one, *)
(* or when handleDelete goes on.                                           *)
Before == [RoleBinding |-> {}, Role |-> {"RoleBinding"},
           ClusterRoleBinding |-> {"RoleBinding", "Role"},
           ClusterRole |-> {"RoleBinding", "Role", "ClusterRoleBinding"},
           ServiceAccount |-> {"RoleBinding", "Role", "ClusterRoleBinding", "ClusterRole"},
           release |-> Kinds]

(* Nothing is left over of the kinds that are finished.                    *)
CleanedSoFar ==
  pc \in Kinds \cup {"release"} => \A k \in Before[pc] : Doomed(k) = {}

(* Nothing is known of a request before it is created.                     *)
NothingBefore == \A r \in Requests : api[r].st = "none" => api[r] = NoRequest

(* Together with TypeOK these are inductive.                               *)
PassInvariant ==
  /\ CopyJustified /\ PassJustified /\ EnsuredSoFar /\ CleanedSoFar
  /\ NothingBefore /\ BindingsBacked /\ NoLeftovers /\ GrantBacked

(* There is one object of a kind and a name.  Inductive with TypeOK.       *)
OneOwner ==
  \A x, y \in objects : x.kind = y.kind /\ x.name = y.name => x = y

=============================================================================
