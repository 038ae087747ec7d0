---------------------------- MODULE MCEnterprise ----------------------------
(***************************************************************************)
(* An instance of Enterprise: an administrator `boss' and a signer `u' who *)
(* may revoke and has an API key for signing; an issuer that is a CA with  *)
(* an endpoint, and an SDoc of it; and another TCert, still to be created, *)
(* that has an endpoint and is no CA.                                      *)
(***************************************************************************)
EXTENDS Enterprise, TLC

CONSTANTS boss, u, ku, ta, tb, da, r1, r2

Workers == {r1, r2}
Symmetry == Permutations(Workers)

KeyOwner == ku :> u
KeyScope == ku :> {"can_sign"}
UserScope == boss :> {} @@ u :> {"can_revoke_tcert"}
DocIssuer == da :> ta
=============================================================================
