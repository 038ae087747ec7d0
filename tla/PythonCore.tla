----------------------------- MODULE PythonCore -----------------------------
(***************************************************************************)
(* The trust, revocation, import and signing services of the Python core   *)
(* (qrs-core-python) over its stores, and the first half of its verify.    *)
(* Its service functions are coroutines that never wait for anything (the  *)
(* stores and the cryptography are synchronous), so each call is a step.   *)
(*                                                                         *)
(* The constants are those of Device, and statements have its form; this   *)
(* core has no statement that revokes an attestation.                      *)
(***************************************************************************)
EXTENDS Naturals, FiniteSets

CONSTANTS
  Keys, Tcerts, KeyOf, Contents, Forged, Schemaless, NotBefore, NotAfter,
  MaxAge, NoContent, Unbound, Sdocs, IssuerOf, IssuedAt, Malformed, OwnKeys,
  Times, LoadedCerts, LoadedPinned, LoadedCas,
  LoadedRecords  \* attestation records found in the store

VARIABLES
  certs,       \* certificate_store: [Tcerts -> Contents or NoContent]
  docs,        \* document_store: the SDocs held
  pinned,      \* trust_store
  cas,         \* trust_store
  distrusted,  \* trust_store
  atts,        \* trust_store: attestation records, several a target and CA
  revTcert,    \* revocation_store: [Tcerts -> nothing or the one entry]
  revKey,      \* revocation_store: revoked keys
  blocked      \* revocation_store: blocked SDocs

trustVars == <<pinned, cas, distrusted, atts>>
revVars == <<revTcert, revKey, blocked>>
pyVars == <<certs, docs, trustVars, revVars>>

Records == [target: Tcerts, ca: Tcerts, hash: Contents \cup {Unbound}]
Entries == [type: {"prospective", "retrospective"}, issuedAt: Times]

PyTypeOK ==
  /\ certs \in [Tcerts -> Contents \cup {NoContent}]
  /\ docs \subseteq Sdocs
  /\ pinned \subseteq Tcerts
  /\ cas \subseteq Tcerts
  /\ distrusted \subseteq Tcerts
  /\ atts \subseteq Records
  /\ revTcert \in [Tcerts -> {{}} \cup {{e} : e \in Entries}]
  /\ revKey \subseteq Keys
  /\ blocked \subseteq Sdocs

Init ==
  /\ certs = LoadedCerts
  /\ docs = {}
  /\ pinned = LoadedPinned
  /\ cas = LoadedCas
  /\ distrusted = {}
  /\ atts = LoadedRecords
  /\ revTcert = [t \in Tcerts |-> {}]
  /\ revKey = {}
  /\ blocked = {}

-----------------------------------------------------------------------------
(* What the services read.                                                 *)

Held(t) == certs[t] # NoContent

RecordsOf(t, ca) == {a \in atts : a.target = t /\ a.ca = ca}

Attested(t, ca) == RecordsOf(t, ca) # {}

IsTrustedCa(ca) ==
  /\ ca \notin distrusted
  /\ revTcert[ca] = {}
  /\ ca \in pinned \/ ca \in cas

\* Mutant: the CA's key may be revoked.
IsAuthorizedCaAnyKey(k, t) ==
  \E ca \in Tcerts :
    /\ Attested(t, ca)
    /\ KeyOf[ca] = k
    /\ Held(ca)
    /\ IsTrustedCa(ca)

\* May the key act on the TCert as one of its CAs?
IsAuthorizedCa(k, t) ==
  \E ca \in Tcerts :
    /\ Attested(t, ca)
    /\ KeyOf[ca] = k
    /\ Held(ca)
    /\ k \notin revKey
    /\ IsTrustedCa(ca)

MayActOn(k, t) == k = KeyOf[t] \/ IsAuthorizedCa(k, t)

\* The record binds the body the store holds for its target.
IsValidAttestation(a) ==
  /\ Held(a.ca) /\ certs[a.ca] \notin Forged
  /\ IsTrustedCa(a.ca)
  /\ KeyOf[a.ca] \notin revKey
  /\ Held(a.target) /\ certs[a.target] = a.hash

ResolveTrust(t) ==
  IF t \in distrusted THEN "invalid"
  ELSE IF t \in pinned \/ \E a \in atts : a.target = t /\ IsValidAttestation(a)
       THEN "valid"
       ELSE "cannotVerify"

\* Mutant: a block is read after a prospective revocation as well.
CheckRevocationThenBlock(d) ==
  LET t == IssuerOf[d]
  IN IF KeyOf[t] \in revKey \/ d \in blocked THEN "invalid"
     ELSE IF \E e \in revTcert[t] : \/ e.type = "retrospective"
                                    \/ IssuedAt[d] >= e.issuedAt
          THEN "invalid" ELSE "valid"

\* Key, then TCert, then block; a TCert revoked later ends the check.
CheckRevocation(d) ==
  LET t == IssuerOf[d]
      refused == \E e \in revTcert[t] : \/ e.type = "retrospective"
                                        \/ IssuedAt[d] >= e.issuedAt
  IN IF KeyOf[t] \in revKey THEN "invalid"
     ELSE IF revTcert[t] # {} THEN IF refused THEN "invalid" ELSE "valid"
     ELSE IF d \in blocked THEN "invalid" ELSE "valid"

\* The result of verify when it ends at or before the revocation check, and
\* as it stands there when it goes on.
Unread == [cryptographic |-> "cannotVerify", tcert |-> "cannotVerify",
           trust |-> "cannotVerify", revocation |-> "cannotVerify",
           schema |-> "cannotVerify"]

Judge(d, now) ==
  LET t == IssuerOf[d]
      c == certs[t]
  IN IF d \in Malformed THEN [Unread EXCEPT !.cryptographic = "invalid"]
     ELSE IF c = NoContent THEN Unread
     ELSE IF c \in Forged \/ now < NotBefore[c] \/ now >= NotAfter[c]
     THEN [Unread EXCEPT !.tcert = "invalid"]
     ELSE IF now > IssuedAt[d] + MaxAge[c]
     THEN [Unread EXCEPT !.schema = "invalid"]
     ELSE IF ResolveTrust(t) = "invalid"
     THEN [Unread EXCEPT !.tcert = "valid", !.trust = "invalid"]
     ELSE [Unread EXCEPT !.tcert = "valid", !.trust = ResolveTrust(t),
                         !.revocation = CheckRevocation(d)]

-----------------------------------------------------------------------------
(* Trust configuration.                                                    *)

Pin(t) ==
  /\ Held(t)
  /\ pinned' = pinned \cup {t}
  /\ UNCHANGED <<certs, docs, cas, distrusted, atts, revVars>>

Unpin(t) ==
  /\ pinned' = pinned \ {t}
  /\ UNCHANGED <<certs, docs, cas, distrusted, atts, revVars>>

AddCa(t) ==
  /\ Held(t)
  /\ cas' = cas \cup {t}
  /\ UNCHANGED <<certs, docs, pinned, distrusted, atts, revVars>>

RemoveCa(t) ==
  /\ cas' = cas \ {t}
  /\ UNCHANGED <<certs, docs, pinned, distrusted, atts, revVars>>

Distrust(t) ==
  /\ distrusted' = distrusted \cup {t}
  /\ UNCHANGED <<certs, docs, pinned, cas, atts, revVars>>

TrustAgain(t) ==
  /\ distrusted' = distrusted \ {t}
  /\ UNCHANGED <<certs, docs, pinned, cas, atts, revVars>>

-----------------------------------------------------------------------------
(* The writes of the stores.                                               *)

\* Mutant: a CA that attested the target before is not recorded again.
AddAttestationOnce(t, ca, h) ==
  /\ atts' = IF Attested(t, ca) THEN atts
             ELSE atts \cup {[target |-> t, ca |-> ca, hash |-> h]}
  /\ UNCHANGED <<certs, docs, pinned, cas, distrusted, revVars>>

\* In memory a record is appended; in the file it replaces the one of the
\* same target, CA and second, if there is one.
AddAttestation(t, ca, h) ==
  /\ \E old \in SUBSET RecordsOf(t, ca) :
       /\ Cardinality(old) <= 1
       /\ atts' = (atts \ old) \cup {[target |-> t, ca |-> ca, hash |-> h]}
  /\ UNCHANGED <<certs, docs, pinned, cas, distrusted, revVars>>

\* One entry a TCert, whoever signed it: a later arrival replaces it.
AddRevokedTcert(t, type, n) ==
  /\ revTcert' = [revTcert EXCEPT ![t] = {[type |-> type, issuedAt |-> n]}]
  /\ UNCHANGED <<certs, docs, trustVars, revKey, blocked>>

AddRevokedKey(k) ==
  /\ revKey' = revKey \cup {k}
  /\ UNCHANGED <<certs, docs, trustVars, revTcert, blocked>>

AddBlockedSdoc(d) ==
  /\ blocked' = blocked \cup {d}
  /\ UNCHANGED <<certs, docs, trustVars, revTcert, revKey>>

RemoveBlockedSdoc(d) ==
  /\ blocked' = blocked \ {d}
  /\ UNCHANGED <<certs, docs, trustVars, revTcert, revKey>>

SaveTcert(t, c) ==
  /\ certs' = [certs EXCEPT ![t] = c]
  /\ UNCHANGED <<docs, trustVars, revVars>>

-----------------------------------------------------------------------------
(* Authority operations of a key held here.                                *)

Attest(ca, t) ==
  /\ ca \in cas
  /\ ~Attested(t, ca)
  /\ Held(ca) /\ KeyOf[ca] \in OwnKeys
  /\ Held(t)
  /\ AddAttestation(t, ca, certs[t])

RevokeTcert(k, t, type, n) ==
  /\ MayActOn(k, t)
  /\ k \in OwnKeys
  /\ AddRevokedTcert(t, type, n)

RevokeKey(k) == k \in OwnKeys /\ AddRevokedKey(k)

MayBlock(k, d) == d \in docs /\ MayActOn(k, IssuerOf[d]) /\ k \in OwnKeys

BlockSdoc(k, d) == MayBlock(k, d) /\ AddBlockedSdoc(d)

UnblockSdoc(k, d) == MayBlock(k, d) /\ RemoveBlockedSdoc(d)

IssueSdoc(d) ==
  /\ d \notin Malformed
  /\ LET t == IssuerOf[d]
     IN /\ Held(t)
        /\ certs[t] \notin Forged \cup Schemaless
        /\ NotBefore[certs[t]] <= IssuedAt[d]
        /\ IssuedAt[d] < NotAfter[certs[t]]
        /\ KeyOf[t] \in OwnKeys
  /\ docs' = docs \cup {d}
  /\ UNCHANGED <<certs, trustVars, revVars>>

-----------------------------------------------------------------------------
(* Import.                                                                 *)

ImportTcert(t, c) == c \notin Forged /\ SaveTcert(t, c)

\* The last TCert of the key configured as CA, else the first held; the
\* stores keep an order the model does not.
SignerTcerts(k) ==
  LET held == {t \in Tcerts : KeyOf[t] = k /\ Held(t)}
  IN IF held \cap cas # {} THEN held \cap cas ELSE held

\* An action this core does not know is refused as malformed.
Known(s) == s.action # "revokeAttestation"

Importable(s) ==
  /\ Known(s)
  /\ SignerTcerts(s.signer) # {}
  /\ s.action = "attest" /\ Held(s.target)
       => s.hash \in {Unbound, certs[s.target]}

ImportStatement(s) ==
  /\ Importable(s)
  /\ \/ /\ s.action = "attest"
        /\ \E ca \in SignerTcerts(s.signer) :
             AddAttestation(s.target, ca, s.hash)
     \/ /\ s.action = "revokeTcert"
        /\ AddRevokedTcert(s.target,
             IF s.type = "unstated" THEN "retrospective" ELSE s.type,
             s.issuedAt)
     \/ s.action = "revokeKey" /\ AddRevokedKey(s.target)
     \/ s.action = "blockSdoc" /\ AddBlockedSdoc(s.target)
     \/ s.action = "unblockSdoc" /\ RemoveBlockedSdoc(s.target)

RefuseStatement(s) == ~Importable(s) /\ UNCHANGED pyVars
=============================================================================
