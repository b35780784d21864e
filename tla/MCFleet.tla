------------------------------ MODULE MCFleet ------------------------------
(***************************************************************************)
(* One cluster and one server of one tenant, over one device.              *)
(***************************************************************************)
EXTENDS Fleet

CONSTANT acme

OneTenant == {acme}
AllInAcme == [c \in Claims |-> acme]
ServersInAcme == [s \in Servers |-> acme]
=============================================================================
