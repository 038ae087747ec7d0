------------------------------ MODULE MCMobile ------------------------------
(***************************************************************************)
(* Instances of Mobile: the CAs `ca' and `cb', and an issuer `ti' with one *)
(* document `d'.  `cb' is a CA in its own right, or one that `ca' attests. *)
(***************************************************************************)
EXTENDS Mobile, TLC

CONSTANTS ca, cb, ti, ka, kb, kt, d

CaKeyOf == ca :> ka @@ cb :> kb @@ ti :> kt
DocIssuer == d :> ti

E(x, y) == [of |-> x, by |-> y]
Empty == [list \in Lists |-> {}]
Base == [Empty EXCEPT !["certificates"] = {ca, cb, ti}]

\* ti is vouched for by ca only and blocked by it; pinned and revoked by ca;
\* vouched for by cb, which is itself vouched for by ca only, after ca
\* withdrew its own word; by ca, which is distrusted here, and by cb, whose
\* own TCert ca has revoked.
SampleLists ==
  {[Base EXCEPT !["cas"] = {ca}, !["attestations"] = {E(ti, ca)},
                !["blocked-sdocs"] = {E(d, ca)},
                !["sdoc-statements"] = {E(d, ca)}],
   [Base EXCEPT !["cas"] = {ca}, !["pinned"] = {ti},
                !["attestations"] = {E(ti, ca)},
                !["revoked-tcerts"] = {E(ti, ca)},
                !["revoked-keys"] = {E(kt, ca)}],
   [Base EXCEPT !["cas"] = {ca, cb},
                !["attestations"] = {E(cb, ca), E(ti, ca), E(ti, cb)},
                !["revoked-attestations"] = {E(ti, ca)}],
   [Base EXCEPT !["cas"] = {ca, cb},
                !["attestations"] = {E(ti, ca), E(ti, cb)},
                !["distrusted"] = {ca}, !["revoked-tcerts"] = {E(cb, ca)}]}

BothCas ==
  [Base EXCEPT !["cas"] = {ca, cb}, !["attestations"] = {E(ti, ca), E(ti, cb)}]

SampleStored ==
  {[lists |-> D, policy |-> "any"] : D \in SampleLists}
    \cup {[lists |-> BothCas, policy |-> "all"]}

O(action, signer, of) == [action |-> action, signer |-> signer, of |-> of]

\* What a CA's server offers, and single statements.
Offered ==
  {{O("tcert", kt, ti), O("attest", ka, ti)},
   {O("blockSdoc", ka, d), O("revokeKey", kt, kt)},
   {O("unblockSdoc", ka, d)},
   {O("revokeTcert", kb, ti)}, {O("revokeAttestation", kb, ti)}}
=============================================================================
