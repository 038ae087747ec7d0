------------------------------- MODULE MCCores -------------------------------
(***************************************************************************)
(* Instance of Cores: an issuer TCert `ti', and a key with two TCerts,     *)
(* `tc' configured as CA on both devices and `tx' not; ti is attested by   *)
(* tc.                                                                     *)
(***************************************************************************)
EXTENDS Cores, TLC

CONSTANTS ti, tc, tx, ki, kc, plain, brief, forged, d1, d2

MCTcerts == {ti, tc, tx}
MCKeys == {ki, kc}
MCKeyOf == ti :> ki @@ tc :> kc @@ tx :> kc

\* `brief' is valid from 2 until 4 and its documents for one second.
MCContents == {plain, brief, forged}
MCNotBefore == [x \in MCContents |-> IF x = brief THEN 2 ELSE 0]
MCNotAfter == [x \in MCContents |-> IF x = brief THEN 4 ELSE 9]
MCMaxAge == [x \in MCContents |-> IF x = brief THEN 1 ELSE 9]

MCIssuerOf == [d \in Sdocs |-> ti]
MCIssuedAt == [d \in Sdocs |-> IF d = d1 THEN 0 ELSE 1]

MCLoadedCerts == [t \in MCTcerts |-> plain]
MCLoadedAtts == [t \in MCTcerts |-> [ca \in MCTcerts |->
                   IF t = ti /\ ca = tc THEN plain ELSE NoContent]]
MCLoadedCas == {tc}
NoTcerts == {}
OneTime == {1}
FourClocks == {1, 2, 3, 4}

\* The CA attests either body or states no hash, and withdraws; each signer
\* revokes without a type; the CA unblocks d1.
MCWire ==
  {[action |-> "attest", signer |-> kc, target |-> ti, hash |-> h] :
     h \in {plain, brief, Unbound}}
  \cup {[action |-> "revokeAttestation", signer |-> kc, target |-> ti]}
  \cup {[action |-> "revokeTcert", signer |-> k, target |-> ti,
         type |-> "unstated", issuedAt |-> 1] : k \in MCKeys}
  \cup {[action |-> "revokeKey", signer |-> kc, target |-> kc]}
  \cup {[action |-> a, signer |-> kc, target |-> d1, issuedAt |-> 1] :
         a \in {"blockSdoc", "unblockSdoc"}}
=============================================================================
