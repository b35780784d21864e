------------------------------ MODULE MCAddons ------------------------------
(* A profile with two components of equal order, one of them not required; then an     *)
(* edit that requires it and moves it before the other.                                *)
EXTENDS Addons

Part(n, r) == [order |-> n, required |-> r]

MCProfiles ==
    << [cilium |-> Part(1, TRUE), ingress |-> Part(2, FALSE), rook |-> Part(2, TRUE)],
       [cilium |-> Part(1, TRUE), ingress |-> Part(2, TRUE), rook |-> Part(3, TRUE)] >>
=============================================================================
