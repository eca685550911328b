---------------------------- MODULE MCSharedAccess ----------------------------
(* An instance of SharedAccess for TLC: both requests can ask for the        *)
(* permission "shared", a cluster role; the first one also for the reference *)
(* to a role in a namespace.                                                 *)
EXTENDS SharedInvariant, TLC

CONSTANTS r1, r2

MCNames == {"shared", "reference"}
MCReferences == {"reference"}
MCNamespaced == {"reference"}
MCAskable == (r1 :> {"shared", "reference"}) @@ (r2 :> {"shared"})

=============================================================================
