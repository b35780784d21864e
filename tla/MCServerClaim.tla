---------------------------- MODULE MCServerClaim ----------------------------
(***************************************************************************)
(* Small instances of ServerClaim: claims of two tenants.                  *)
(***************************************************************************)
EXTENDS ServerClaim

CONSTANTS s1, acme, beta

TwoTenants == {acme, beta}
FirstInAcme == [s \in Claims |-> IF s = s1 THEN acme ELSE beta]
=============================================================================
