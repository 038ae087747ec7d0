----------------------------- MODULE MCKeyVault -----------------------------
(***************************************************************************)
(* Instances of KeyVault: three keys and two passwords, so that the first  *)
(* record, a later one and one still to be generated are told apart, and   *)
(* so are the right password and a wrong one.                              *)
(***************************************************************************)
EXTENDS KeyVault, TLC

CONSTANTS k1, k2, k3, p1, p2

MCSymmetry == Permutations({k1, k2, k3}) \cup Permutations({p1, p2})
=============================================================================
