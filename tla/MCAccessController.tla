------------------------ MODULE MCAccessController -------------------------
(* Instances of AccessController for TLC.                                   *)
EXTENDS AccessRefinement, AccessInvariant

=============================================================================
