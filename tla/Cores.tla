-------------------------------- MODULE Cores --------------------------------
(***************************************************************************)
(* Two devices of one party, one running the TypeScript core (Device) and  *)
(* one the Python core (PythonCore), hold the same keys and go through the *)
(* same operations one at a time: the same trust configuration, the same   *)
(* TCerts, the same local authority operations and the same statements in  *)
(* the same order.  Each core decides by its own stores.                   *)
(*                                                                         *)
(* The TypeScript core stores a statement in a step of its own; nothing    *)
(* else happens before that step.  Removals are left out: the Python core  *)
(* has nothing that calls the removals of its stores.                      *)
(*                                                                         *)
(* A key may have several TCerts.  A statement names the key that signed   *)
(* it, and each core attributes an attestation it imports to one of the    *)
(* key's TCerts by the order of its own store; where there is more than    *)
(* one to choose from, the two may choose differently.                     *)
(***************************************************************************)
EXTENDS Device

CONSTANTS
  MaxAge,        \* [Contents -> Nat]: validity.sdocMaxAgeSeconds
  Clock          \* times a verification may run at

ASSUME CoresAssumption == MaxAge \in [Contents -> Nat] /\ Clock \subseteq Nat

VARIABLES pyCerts, pyDocs, pyPinned, pyCas, pyDistrusted, pyAtts, pyRevTcert,
          pyRevKey, pyBlocked,
          ambiguous   \* a history variable, in no store: TCerts of which an
                      \* attestation was imported when its signer had
                      \* several TCerts to attribute it to

pythonVars == <<pyCerts, pyDocs, pyPinned, pyCas, pyDistrusted, pyAtts,
                pyRevTcert, pyRevKey, pyBlocked>>
vars == <<deviceVars, pythonVars, ambiguous>>

\* What the loaded attestations are as records.
LoadedRecords ==
  {r \in [target: Tcerts, ca: Tcerts, hash: Contents \cup {Unbound}] :
     LoadedAtts[r.target][r.ca] = r.hash}

Py == INSTANCE PythonCore
        WITH certs <- pyCerts, docs <- pyDocs, pinned <- pyPinned,
             cas <- pyCas, distrusted <- pyDistrusted, atts <- pyAtts,
             revTcert <- pyRevTcert, revKey <- pyRevKey, blocked <- pyBlocked

-----------------------------------------------------------------------------
(* What the TypeScript core finds, on stores that stand still.             *)

CarriesTrust(t, ca) ==
  /\ Attested(t, ca)
  /\ <<t, ca>> \notin revAtt
  /\ Held(ca) /\ certs[ca] \notin Forged
  /\ ca \notin distrusted
  /\ revTcert[ca] = {}
  /\ ca \in pinned \/ ca \in cas
  /\ KeyOf[ca] \notin revKey
  /\ Held(t) /\ certs[t] = atts[t][ca]

ResolveTrust(t) ==
  IF t \in distrusted THEN "invalid"
  ELSE IF t \in pinned \/ \E ca \in Tcerts : CarriesTrust(t, ca)
       THEN "valid"
       ELSE "cannotVerify"

CheckRevocation(d) ==
  LET t == IssuerOf[d]
  IN IF KeyOf[t] \in revKey THEN "invalid"
     ELSE IF revTcert[t] # {}
     THEN IF RefusedBy(revTcert[t], IssuedAt[d]) THEN "invalid" ELSE "valid"
     ELSE IF d \in blocked THEN "invalid" ELSE "valid"

Unread == [cryptographic |-> "cannotVerify", tcert |-> "cannotVerify",
           trust |-> "cannotVerify", revocation |-> "cannotVerify",
           schema |-> "cannotVerify"]

\* The result of verify when it ends at or before the revocation check, and
\* as it stands there when it goes on.
Judge(d, now) ==
  LET t == IssuerOf[d]
      c == certs[t]
  IN IF d \in Malformed THEN [Unread EXCEPT !.cryptographic = "invalid"]
     ELSE IF c = NoContent THEN Unread
     ELSE IF c \in Forged \/ now < NotBefore[c] \/ now >= NotAfter[c]
     THEN [Unread EXCEPT !.tcert = "invalid"]
     ELSE IF now > IssuedAt[d] + MaxAge[c]
     THEN [Unread EXCEPT !.schema = "invalid"]
     ELSE IF ResolveTrust(t) = "invalid"
     THEN [Unread EXCEPT !.tcert = "valid", !.trust = "invalid"]
     ELSE [Unread EXCEPT !.tcert = "valid", !.trust = ResolveTrust(t),
                         !.revocation = CheckRevocation(d)]

-----------------------------------------------------------------------------
(* One operation on both devices.                                          *)

Init == DeviceInit /\ Py!Init /\ ambiguous = {}

Configure(t) ==
  \/ Pin(t) /\ Py!Pin(t)
  \/ Unpin(t) /\ Py!Unpin(t)
  \/ AddCa(t) /\ Py!AddCa(t)
  \/ RemoveCa(t) /\ Py!RemoveCa(t)
  \/ Distrust(t) /\ Py!Distrust(t)
  \/ TrustAgain(t) /\ Py!TrustAgain(t)

Obtain(t, c) ==
  \/ ImportTcert(t, c) /\ Py!ImportTcert(t, c)
  \/ SaveTcert(t, c) /\ Py!SaveTcert(t, c)

\* An authority operation; that one core allows it exactly when the other
\* does is AuthorityAgrees.
Act(k) ==
  \/ \E ca, t \in Tcerts :
       KeyOf[ca] = k /\ Attest(ca, t) /\ Py!Attest(ca, t)
  \/ \E t \in Tcerts, type \in RevTypes, n \in Times :
       RevokeTcert(k, t, type, n) /\ Py!RevokeTcert(k, t, type, n)
  \/ RevokeKey(k) /\ Py!RevokeKey(k)
  \/ \E d \in Sdocs, n \in Times :
       \/ BlockOrUnblockSdoc("blockSdoc", k, d, n) /\ Py!BlockSdoc(k, d)
       \/ BlockOrUnblockSdoc("unblockSdoc", k, d, n) /\ Py!UnblockSdoc(k, d)

\* The Python core has no operation that revokes an attestation.
Withdraw(ca, t) == RevokeAttestation(ca, t) /\ UNCHANGED pythonVars

Issue(d) == IssueSdoc(d) /\ Py!IssueSdoc(d)

HasChoice(k) == \E t, u \in SignerTcerts(k) : t # u

Import(s) ==
  /\ ImportStatement(s)
  /\ Py!ImportStatement(s) \/ Py!RefuseStatement(s)
  /\ ambiguous' = IF s.action = "attest" /\ HasChoice(s.signer)
                   THEN ambiguous \cup {s.target}
                   ELSE ambiguous

Finish ==
  \E job \in inflight : Store(job) /\ UNCHANGED <<pythonVars, ambiguous>>

Operate ==
  \/ \E t \in Tcerts : Configure(t)
  \/ \E t \in Tcerts, c \in Contents : Obtain(t, c)
  \/ \E k \in Keys : Act(k)
  \/ \E ca, t \in Tcerts : Withdraw(ca, t)
  \/ \E d \in Sdocs : Issue(d)

Next ==
  \/ /\ inflight = {}
     /\ \/ Operate /\ UNCHANGED ambiguous
        \/ \E s \in Wire : Import(s)
  \/ Finish

Spec == Init /\ [][Next]_vars

-----------------------------------------------------------------------------
AtRest == inflight = {}

(* Type invariant of both devices.                                         *)
CoresTypeOK ==
  /\ DeviceTypeOK
  /\ Py!PyTypeOK
  /\ ambiguous \subseteq Tcerts

(* The Python core trusts what the TypeScript core trusts and refuses what *)
(* it refuses, although it never reads a revoked attestation and keeps     *)
(* attestations a newer one has replaced: it can only trust more.  What it *)
(* refuses is the same for every TCert, what it trusts at least for those  *)
(* no ambiguous attestation was imported of (resolveTrust,                 *)
(* add_attestation).                                                       *)
TrustIsNeverNarrower ==
  AtRest =>
    \A t \in Tcerts :
      /\ ResolveTrust(t) = "valid" /\ t \notin ambiguous
           => Py!ResolveTrust(t) = "valid"
      /\ ResolveTrust(t) = "invalid" <=> Py!ResolveTrust(t) = "invalid"

(* Whoever may revoke a TCert or block its documents on one core may on    *)
(* the other, whatever was attested, replaced, withdrawn and revoked       *)
(* before, although the two keep different records; unless an ambiguous    *)
(* attestation of the TCert was imported (isAuthorizedCa).                 *)
AuthorityAgrees ==
  AtRest =>
    \A k \in Keys, t \in Tcerts \ ambiguous :
      MayActOn(k, t) <=> Py!MayActOn(k, t)

TwoRevokers(t) == \E a, b \in Revokers(t) : a # b

\* Where the two differ: an attestation imported could be attributed to
\* several TCerts, a CA withdrew its attestation or attested another body of
\* the TCert before, or two keys revoked it.
DivergesFor(t) ==
  \/ t \in ambiguous
  \/ \E ca \in Tcerts : <<t, ca>> \in revAtt
  \/ \E ca \in Tcerts : \E a, b \in Py!RecordsOf(t, ca) : a # b
  \/ TwoRevokers(t)

(* After the same history both cores judge every document alike, at any    *)
(* time, up to the point where the holder is asked for values; except for  *)
(* a TCert of which an ambiguous attestation was imported, a CA withdrew   *)
(* its attestation or attested two bodies, or which two keys revoked       *)
(* (verify).                                                               *)
JudgementsAgree ==
  AtRest =>
    \A d \in Sdocs, now \in Clock :
      ~DivergesFor(IssuerOf[d]) => Judge(d, now) = Py!Judge(d, now)

-----------------------------------------------------------------------------
(* How the stores of the two devices correspond, also while the TypeScript *)
(* core has a statement in flight that the Python core has stored.         *)

Pending(action, x) ==
  \E job \in inflight : job[1].action = action /\ job[1].target = x

OneAtATime == \A i, j \in inflight : i = j

SameConfiguration ==
  /\ pyCerts = certs
  /\ pyDocs = docs
  /\ pyPinned = pinned
  /\ pyCas = cas
  /\ pyDistrusted = distrusted

SameKeys ==
  \A k \in Keys : k \in pyRevKey <=> k \in revKey \/ Pending("revokeKey", k)

SameBlocks ==
  \A d \in Sdocs :
    d \in pyBlocked <=> \/ d \in blocked /\ ~Pending("unblockSdoc", d)
                       \/ Pending("blockSdoc", d)

\* An entry as the Python core stores it: without its signer.
Unsigned(e) == [type |-> e.type, issuedAt |-> e.issuedAt]

SameRevoked ==
  /\ \A t \in Tcerts :
       /\ pyRevTcert[t] # {} <=> revTcert[t] # {} \/ Pending("revokeTcert", t)
       /\ ~Pending("revokeTcert", t) /\ ~TwoRevokers(t)
            => pyRevTcert[t] = {Unsigned(e) : e \in revTcert[t]}
  /\ \A job \in inflight :
       job[1].action = "revokeTcert"
         => pyRevTcert[job[1].target] = {Unsigned(EntryOf(job[1]))}

Attesting(t, ca) ==
  \E job \in inflight :
    job[1].action = "attest" /\ job[1].target = t /\ job[2] = ca

RecordOf(t, ca, h) == [target |-> t, ca |-> ca, hash |-> h]

SameAttested ==
  /\ \A t \in Tcerts \ ambiguous, ca \in Tcerts :
       /\ Py!Attested(t, ca) <=> Attested(t, ca) \/ Attesting(t, ca)
       /\ Attested(t, ca) /\ ~Attesting(t, ca)
            => RecordOf(t, ca, atts[t][ca]) \in pyAtts
  /\ \A job \in inflight :
       job[1].action = "attest" /\ job[1].target \notin ambiguous
         => RecordOf(job[1].target, job[2], job[1].hash) \in pyAtts

Correspondence ==
  /\ OneAtATime
  /\ SameConfiguration
  /\ SameKeys
  /\ SameBlocks
  /\ SameRevoked
  /\ SameAttested
=============================================================================
