---------------------------- MODULE MCClusterClaim ----------------------------
(***************************************************************************)
(* Small instances of ClusterClaim: claims of one tenant, a site with a    *)
(* few devices, and address records enough for every claim and a few lost. *)
(***************************************************************************)
EXTENDS ClusterClaimInv, TLC

CONSTANT acme

OneTenant == {acme}
AllInAcme == [c \in Claims |-> acme]

\* Devices are interchangeable; so are claims of one tenant and one profile.
Symmetry == Permutations(Machines) \cup Permutations(Claims)
=============================================================================
