--------------------------- MODULE AccessRefinement ---------------------------
(* The access request controller implements AccessLifecycle for its one      *)
(* request: the hold is the finalizer the API server stores, the access what *)
(* is on the kind cluster.                                                   *)
EXTENDS AccessController

Hold == CASE api.st = "gone"         -> "released"
          [] Exists(api) /\ api.fin  -> "held"
          [] OTHER                   -> "none"

Placed == (IF granted.account THEN {"account"} ELSE {}) \cup granted.perms

Access == INSTANCE AccessLifecycle WITH
  Requests <- {"request"},
  Things <- {"account"} \cup Perms,
  hold <- [r \in {"request"} |-> Hold],
  access <- [r \in {"request"} |-> Placed]

(* Whatever fails, restarts or is read too late, access is given and taken   *)
(* only between the claim and the release of the request.                    *)
ImplementsAccess == Access!Spec

=============================================================================
