---------------------------- MODULE MCProviderInit ----------------------------
(* An instance of ProviderInit for TLC: a CRD and the ClusterProfile.        *)
EXTENDS ProviderInit

MCOrder == <<"crd", "profile">>

=============================================================================
