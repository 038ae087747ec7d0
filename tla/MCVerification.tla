--------------------------- MODULE MCVerification ---------------------------
(***************************************************************************)
(* Instances of Verification: an issuer TCert `ti' and a CA TCert `tc' with *)
(* a key each.  The device starts with both TCerts, tc configured as CA    *)
(* and ti attested by it.                                                  *)
(***************************************************************************)
EXTENDS Verification, TLC

CONSTANTS ti, tc, ki, kc, plain, sealing, forged, d1, d2, d3, v1

MCTcerts == {ti, tc}
MCKeys == {ki, kc}
MCKeyOf == ti :> ki @@ tc :> kc
MCVerifications == {v1}

\* Bodies: `sealing' has a bound field and a bounded life.
MCContents == {plain, sealing, forged}
MCNotBefore == [x \in MCContents |-> IF x = sealing THEN 2 ELSE 0]
MCNotAfter == [x \in MCContents |-> IF x = sealing THEN 4 ELSE 9]
MCMaxAge == [x \in MCContents |-> IF x = sealing THEN 1 ELSE 9]

\* d1 is genuine, d2 signed over a bound value.
MCIssuerOf == [d \in Sdocs |-> ti]
MCIssuedAt == [d \in Sdocs |-> IF d = d2 THEN 2 ELSE 1]

MCLoadedCerts == [t \in MCTcerts |-> plain]
MCLoadedAtts == [t \in MCTcerts |-> [ca \in MCTcerts |->
                   IF t = ti /\ ca = tc THEN plain ELSE NoContent]]
MCLoadedCas == {tc}
NoTcerts == {}

TwoTimes == {1, 2}
OneTime == {2}
TwoClocks == {2, 4}

\* What arrives from others, or from the CA's other device: the CA attests
\* the other body, and revokes without a type; the issuer revokes its own
\* TCert early, and its own key.  What else the CA may sign, blocks among it,
\* it signs on this device; attestations without a hash are in MCCores.
Attests == {[action |-> "attest", signer |-> kc, target |-> ti,
             hash |-> sealing]}
Revokes == [action: {"revokeTcert"}, signer: {kc}, target: {ti},
            type: {"unstated"}, issuedAt: {2}]
Blocks == [action: {"blockSdoc", "unblockSdoc"}, signer: {kc},
           target: {d1}, issuedAt: TwoTimes]
Withdrawals == {[action |-> "revokeKey", signer |-> ki, target |-> ki],
                [action |-> "revokeTcert", signer |-> ki, target |-> ti,
                 type |-> "prospective", issuedAt |-> 2]}
CaWire == Attests \cup Revokes \cup Withdrawals

\* The CA blocks d1, and later takes that back.
BlockWire == {b \in Blocks : b.issuedAt = IF b.action = "blockSdoc"
                                          THEN 1 ELSE 2}
=============================================================================
