------------------------------- MODULE Device -------------------------------
(***************************************************************************)
(* The stores of one QRS device and every core operation that changes them *)
(* (qrs-core-js: TrustService, RevocationService, OnlineService, the file  *)
(* stores, and the desktop handlers that edit the stores directly).        *)
(*                                                                         *)
(* A TCert id is `keyId:number', so the key of a TCert is a constant.  The *)
(* bytes stored under an id are abstracted to a content; two contents are  *)
(* the same iff their hashes are.  Signatures are ideal, and a stored body *)
(* carries the public key of its id, also when its self-signature fails.   *)
(* What the code refuses leaves the state alone and has no step here.      *)
(***************************************************************************)
EXTENDS Naturals, FiniteSets

CONSTANTS
  Keys,          \* key ids
  Tcerts,        \* TCert ids
  KeyOf,         \* [Tcerts -> Keys]: the key part of a TCert id
  Contents,      \* the TCert bodies in circulation
  Forged,        \* contents whose self-signature does not check
  Schemaless,    \* contents with an empty document schema
  NotBefore,     \* [Contents -> Nat]: validity.validAfter (0: none)
  NotAfter,      \* [Contents -> Nat]: validity.validBefore (large: none)
  NoContent,     \* nothing stored under the id
  Unbound,       \* the hash of an attestation that states none
  NoTcert,       \* no TCert
  Sdocs,         \* SDoc ids
  IssuerOf,      \* [Sdocs -> Tcerts]: signer key and tcertNumber of an SDoc
  IssuedAt,      \* [Sdocs -> Nat]
  Malformed,     \* SDocs that do not parse, or are not SDocs
  OwnKeys,       \* keys whose private half this device holds
  Times,         \* issuedAt values a statement may carry
  Wire,          \* the signed statements other parties put in circulation
  LoadedCerts, LoadedPinned, LoadedCas, LoadedAtts, \* stores found on disk
  MaxOps         \* bound: store-changing operations in a behaviour

RevTypes == {"prospective", "retrospective"}

(* The signed statements (statement.ts).  `type' may be missing from a     *)
(* revocation; "unstated" stands for that.  A revokeTcert statement whose  *)
(* target is a key is set apart as "revokeKey".                            *)
Statements ==
       [action: {"attest"}, signer: Keys, target: Tcerts,
        hash: Contents \cup {Unbound}]
  \cup [action: {"revokeTcert"}, signer: Keys, target: Tcerts,
        type: RevTypes \cup {"unstated"}, issuedAt: Times]
  \cup [action: {"revokeKey"}, signer: Keys, target: Keys]
  \cup [action: {"revokeAttestation"}, signer: Keys, target: Tcerts]
  \cup [action: {"blockSdoc", "unblockSdoc"}, signer: Keys, target: Sdocs,
        issuedAt: Times]

RevEntries == [by: Keys, type: RevTypes, issuedAt: Times]
SdocEntries == [sdoc: Sdocs, action: {"blockSdoc", "unblockSdoc"},
                issuedAt: Times]

\* A statement on its way to the stores, with the CA it is attributed to;
\* only what a local key revokes or blocks is attributed to none.
Jobs == {j \in Statements \X (Tcerts \cup {NoTcert}) :
           j[2] = NoTcert => j[1].action \notin {"attest", "revokeAttestation"}}

\* What an attestation record binds (NoContent: there is no record).
AttHashes == Contents \cup {Unbound, NoContent}

ASSUME DeviceAssumption ==
  /\ KeyOf \in [Tcerts -> Keys]
  /\ IssuerOf \in [Sdocs -> Tcerts]
  /\ IssuedAt \in [Sdocs -> Nat]
  /\ NotBefore \in [Contents -> Nat]
  /\ NotAfter \in [Contents -> Nat]
  /\ Times \subseteq Nat
  /\ Forged \subseteq Contents
  /\ Schemaless \subseteq Contents
  /\ OwnKeys \subseteq Keys
  /\ NoContent \notin Contents
  /\ Unbound \notin Contents
  /\ Unbound # NoContent
  /\ NoTcert \notin Tcerts
  /\ Wire \subseteq Statements
  /\ LoadedCerts \in [Tcerts -> Contents \cup {NoContent}]
  /\ LoadedPinned \subseteq Tcerts
  /\ LoadedCas \subseteq Tcerts
  /\ LoadedAtts \in [Tcerts -> [Tcerts -> AttHashes]]
  /\ MaxOps \in Nat

VARIABLES
  certs,       \* certificateStore: [Tcerts -> Contents or NoContent]
  docs,        \* documentStore: the SDocs held
  pinned,      \* trustStore: pinned TCerts
  cas,         \* trustStore: TCerts configured as CA
  distrusted,  \* trustStore: locally distrusted TCerts
  atts,        \* trustStore: [target -> [CA -> hash the attestation binds]]
  revTcert,    \* revocationStore: [Tcerts -> set of entries, one a revoker]
  revKey,      \* revocationStore: revoked keys
  revAtt,      \* revocationStore: <<target, CA>> of revoked attestations
  blocked,     \* revocationStore: blocked SDocs
  history,     \* revocationStore: block and unblock statements stored so far
  inflight,    \* statements checked or signed, not yet stored
  ops          \* operations so far (bound only)

trustVars == <<pinned, cas, distrusted, atts>>
revVars == <<revTcert, revKey, revAtt, blocked, history>>
storeVars == <<certs, docs, trustVars, revVars>>
deviceVars == <<storeVars, inflight, ops>>

DeviceTypeOK ==
  /\ certs \in [Tcerts -> Contents \cup {NoContent}]
  /\ docs \subseteq Sdocs
  /\ pinned \subseteq Tcerts
  /\ cas \subseteq Tcerts
  /\ distrusted \subseteq Tcerts
  /\ atts \in [Tcerts -> [Tcerts -> AttHashes]]
  /\ revTcert \in [Tcerts -> SUBSET RevEntries]
  /\ revKey \subseteq Keys
  /\ revAtt \subseteq Tcerts \X Tcerts
  /\ blocked \subseteq Sdocs
  /\ history \subseteq SdocEntries
  /\ inflight \subseteq Jobs
  /\ ops \in Nat

DeviceInit ==
  /\ certs = LoadedCerts
  /\ docs = {}
  /\ pinned = LoadedPinned
  /\ cas = LoadedCas
  /\ distrusted = {}
  /\ atts = LoadedAtts
  /\ revTcert = [t \in Tcerts |-> {}]
  /\ revKey = {}
  /\ revAtt = {}
  /\ blocked = {}
  /\ history = {}
  /\ inflight = {}
  /\ ops = 0

-----------------------------------------------------------------------------
(* What the services read from the stores.                                 *)

Held(t) == certs[t] # NoContent

\* Mutant: the comparison of severities is reversed.
RefusedByMildest(entries, n) ==
  LET mild == {e \in entries : e.type = "prospective"}
  IN entries # {} /\ \A e \in mild : n >= e.issuedAt

\* Do the revocations of a TCert refuse an SDoc issued at n?  The effective
\* entry does: any retrospective one before any prospective one, then the
\* latest.  A prospective one refuses what was issued at or after its time.
RefusedBy(entries, n) ==
  /\ entries # {}
  /\ \/ \E e \in entries : e.type = "retrospective"
     \/ \A e \in entries : n >= e.issuedAt

Attested(t, ca) == atts[t][ca] # NoContent

\* Mutant: any TCert of the key will do, whether it attested t or not.
IsAuthorizedCaUnattested(k, t) ==
  \E ca \in Tcerts :
    /\ KeyOf[ca] = k
    /\ Held(ca)
    /\ revTcert[ca] = {}
    /\ k \notin revKey
    /\ ca \notin distrusted
    /\ ca \in pinned \/ ca \in cas

\* May the key act on the TCert as one of its CAs?
IsAuthorizedCa(k, t) ==
  \E ca \in Tcerts :
    /\ Attested(t, ca)
    /\ KeyOf[ca] = k
    /\ Held(ca)
    /\ revTcert[ca] = {}
    /\ k \notin revKey
    /\ ca \notin distrusted
    /\ ca \in pinned \/ ca \in cas

MayActOn(k, t) == k = KeyOf[t] \/ IsAuthorizedCa(k, t)

-----------------------------------------------------------------------------
(* Trust configuration.                                                    *)

Count == ops < MaxOps /\ ops' = ops + 1

Pin(t) ==
  /\ Count
  /\ Held(t)
  /\ pinned' = pinned \cup {t}
  /\ UNCHANGED <<certs, docs, cas, distrusted, atts, revVars, inflight>>

Unpin(t) ==
  /\ Count
  /\ pinned' = pinned \ {t}
  /\ UNCHANGED <<certs, docs, cas, distrusted, atts, revVars, inflight>>

AddCa(t) ==
  /\ Count
  /\ Held(t)
  /\ cas' = cas \cup {t}
  /\ UNCHANGED <<certs, docs, pinned, distrusted, atts, revVars, inflight>>

RemoveCa(t) ==
  /\ Count
  /\ cas' = cas \ {t}
  /\ UNCHANGED <<certs, docs, pinned, distrusted, atts, revVars, inflight>>

Distrust(t) ==
  /\ Count
  /\ distrusted' = distrusted \cup {t}
  /\ UNCHANGED <<certs, docs, pinned, cas, atts, revVars, inflight>>

TrustAgain(t) ==
  /\ Count
  /\ distrusted' = distrusted \ {t}
  /\ UNCHANGED <<certs, docs, pinned, cas, atts, revVars, inflight>>

-----------------------------------------------------------------------------
(* TCerts and SDocs enter and leave the device.                            *)

\* A TCert downloaded from a server: self-signature and key id are checked.
ImportTcert(t, c) ==
  /\ Count
  /\ c \notin Forged
  /\ certs' = [certs EXCEPT ![t] = c]
  /\ UNCHANGED <<docs, trustVars, revVars, inflight>>

\* A TCert opened from a file, or handed to addTcert before it attests: the
\* bytes are stored as they are.
SaveTcert(t, c) ==
  /\ Count
  /\ certs' = [certs EXCEPT ![t] = c]
  /\ UNCHANGED <<docs, trustVars, revVars, inflight>>

\* Mutant: the revocations of the TCert go with it.
RemoveTcertAndRevocations(t) ==
  /\ Count
  /\ certs' = [certs EXCEPT ![t] = NoContent]
  /\ pinned' = pinned \ {t}
  /\ cas' = cas \ {t}
  /\ distrusted' = distrusted \ {t}
  /\ revTcert' = [revTcert EXCEPT ![t] = {}]
  /\ UNCHANGED <<docs, atts, revKey, revAtt, blocked, history, inflight>>

\* Attestations and revocations of the TCert stay.
RemoveTcert(t) ==
  /\ Count
  /\ certs' = [certs EXCEPT ![t] = NoContent]
  /\ pinned' = pinned \ {t}
  /\ cas' = cas \ {t}
  /\ distrusted' = distrusted \ {t}
  /\ UNCHANGED <<docs, atts, revVars, inflight>>

IssueSdoc(d) ==
  /\ Count
  /\ d \notin Malformed
  /\ LET t == IssuerOf[d]
     IN /\ Held(t)
        /\ certs[t] \notin Forged \cup Schemaless
        /\ NotBefore[certs[t]] <= IssuedAt[d]
        /\ IssuedAt[d] < NotAfter[certs[t]]
        /\ KeyOf[t] \in OwnKeys
  /\ docs' = docs \cup {d}
  /\ UNCHANGED <<certs, trustVars, revVars, inflight>>

ImportSdoc(d) ==
  /\ Count
  /\ d \notin Malformed
  /\ docs' = docs \cup {d}
  /\ UNCHANGED <<certs, trustVars, revVars, inflight>>

\* Removing a document also removes its block, and records no statement.
RemoveSdoc(d) ==
  /\ Count
  /\ docs' = docs \ {d}
  /\ blocked' = blocked \ {d}
  /\ UNCHANGED <<certs, trustVars, revTcert, revKey, revAtt, history, inflight>>

-----------------------------------------------------------------------------
(* Storing a verified statement; ca is the TCert it is attributed to.      *)

AddAttestation(s, ca) ==
  /\ s.action = "attest"
  /\ atts' = [atts EXCEPT ![s.target][ca] = s.hash]
  /\ UNCHANGED <<pinned, cas, distrusted, revVars>>

\* Mutant: no default for a missing type.
EntryOfAsStated(s) ==
  [by |-> s.signer, type |-> s.type, issuedAt |-> s.issuedAt]

EntryOf(s) ==
  [by |-> s.signer,
   type |-> IF s.type = "unstated" THEN "retrospective" ELSE s.type,
   issuedAt |-> s.issuedAt]

\* Mutant: one entry a TCert.
AddRevokedTcertReplacing(s) ==
  /\ s.action = "revokeTcert"
  /\ revTcert' = [revTcert EXCEPT ![s.target] = {EntryOf(s)}]
  /\ UNCHANGED <<trustVars, revKey, revAtt, blocked, history>>

\* One entry a revoker: a later arrival replaces the earlier one.
AddRevokedTcert(s) ==
  /\ s.action = "revokeTcert"
  /\ revTcert' = [revTcert EXCEPT ![s.target] =
                    {e \in @ : e.by # s.signer} \cup {EntryOf(s)}]
  /\ UNCHANGED <<trustVars, revKey, revAtt, blocked, history>>

AddRevokedKey(s) ==
  /\ s.action = "revokeKey"
  /\ revKey' = revKey \cup {s.target}
  /\ UNCHANGED <<trustVars, revTcert, revAtt, blocked, history>>

AddRevokedAttestation(s, ca) ==
  /\ s.action = "revokeAttestation"
  /\ revAtt' = revAtt \cup {<<s.target, ca>>}
  /\ UNCHANGED <<trustVars, revTcert, revKey, blocked, history>>

SdocEntryOf(s) ==
  [sdoc |-> s.target, action |-> s.action, issuedAt |-> s.issuedAt]

AddBlockedSdoc(s) ==
  /\ s.action = "blockSdoc"
  /\ blocked' = blocked \cup {s.target}
  /\ history' = history \cup {SdocEntryOf(s)}
  /\ UNCHANGED <<trustVars, revTcert, revKey, revAtt>>

RemoveBlockedSdoc(s) ==
  /\ s.action = "unblockSdoc"
  /\ blocked' = blocked \ {s.target}
  /\ history' = history \cup {SdocEntryOf(s)}
  /\ UNCHANGED <<trustVars, revTcert, revKey, revAtt>>

StoreStatement(s, ca) ==
  \/ AddAttestation(s, ca)
  \/ AddRevokedTcert(s)
  \/ AddRevokedKey(s)
  \/ AddRevokedAttestation(s, ca)
  \/ AddBlockedSdoc(s)
  \/ RemoveBlockedSdoc(s)

\* Every statement is checked or signed first and stored after further
\* awaits; other operations run in between.
Begin(s, ca) ==
  /\ Count
  /\ inflight' = inflight \cup {<<s, ca>>}
  /\ UNCHANGED storeVars

-----------------------------------------------------------------------------
(* Statements from servers, QR codes and files.                            *)

\* The local TCerts a statement of this key may be attributed to: those
\* configured as CA when there are any.  The store's order picks one.
SignerTcerts(k) ==
  LET held == {t \in Tcerts : KeyOf[t] = k /\ Held(t)}
  IN IF held \cap cas # {} THEN held \cap cas ELSE held

Importable(s, ca) ==
  /\ s.action = "attest" /\ Held(s.target)
       => s.hash \in {Unbound, certs[s.target]}
  /\ s.action = "revokeAttestation" => Attested(s.target, ca)

\* The statement is checked against the stores here and written by Store.
ImportStatement(s) ==
  \E ca \in SignerTcerts(s.signer) : Importable(s, ca) /\ Begin(s, ca)

-----------------------------------------------------------------------------
(* Local authority operations: authorisation is checked, then the          *)
(* statement is signed, then Store writes it.                              *)

Attest(ca, t) ==
  /\ ca \in cas
  /\ ~Attested(t, ca)
  /\ Held(ca) /\ KeyOf[ca] \in OwnKeys
  /\ Held(t)
  /\ Begin([action |-> "attest", signer |-> KeyOf[ca], target |-> t,
            hash |-> certs[t]], ca)

RevokeAttestation(ca, t) ==
  /\ Attested(t, ca)
  /\ KeyOf[ca] \in OwnKeys
  /\ Begin([action |-> "revokeAttestation", signer |-> KeyOf[ca],
            target |-> t], ca)

RevokeTcert(k, t, type, n) ==
  /\ k \in OwnKeys
  /\ MayActOn(k, t)
  /\ Begin([action |-> "revokeTcert", signer |-> k, target |-> t,
            type |-> type, issuedAt |-> n], NoTcert)

RevokeKey(k) ==
  /\ k \in OwnKeys
  /\ Begin([action |-> "revokeKey", signer |-> k, target |-> k], NoTcert)

BlockOrUnblockSdoc(action, k, d, n) ==
  /\ k \in OwnKeys
  /\ d \in docs
  /\ MayActOn(k, IssuerOf[d])
  /\ Begin([action |-> action, signer |-> k, target |-> d,
            issuedAt |-> n], NoTcert)

Store(job) ==
  /\ inflight' = inflight \ {job}
  /\ StoreStatement(job[1], job[2])
  /\ UNCHANGED <<certs, docs, ops>>

-----------------------------------------------------------------------------
(* The process stops and starts again.  Every store file is written whole  *)
(* at each change, so a stop between writes loses nothing; a stop inside   *)
(* one leaves a file that does not parse, which loads as an empty store.   *)

Files == {"certificates", "documents", "trust-pinned", "trust-cas",
          "trust-distrusted", "trust-attestations", "revoked-tcerts",
          "revoked-keys", "revoked-attestations", "blocked-sdocs",
          "sdoc-statements"}

Load(f, torn, empty, value) == IF torn = f THEN empty ELSE value

Restart(torn) ==
  /\ Count
  /\ certs' = Load("certificates", torn, [t \in Tcerts |-> NoContent], certs)
  /\ docs' = Load("documents", torn, {}, docs)
  /\ pinned' = Load("trust-pinned", torn, {}, pinned)
  /\ cas' = Load("trust-cas", torn, {}, cas)
  /\ distrusted' = Load("trust-distrusted", torn, {}, distrusted)
  /\ atts' = Load("trust-attestations", torn,
                  [t \in Tcerts |-> [ca \in Tcerts |-> NoContent]], atts)
  /\ revTcert' = Load("revoked-tcerts", torn, [t \in Tcerts |-> {}], revTcert)
  /\ revKey' = Load("revoked-keys", torn, {}, revKey)
  /\ revAtt' = Load("revoked-attestations", torn, {}, revAtt)
  /\ blocked' = Load("blocked-sdocs", torn, {}, blocked)
  /\ history' = Load("sdoc-statements", torn, {}, history)
  /\ inflight' = {}

-----------------------------------------------------------------------------
(* Every operation of a running device.                                    *)
DeviceStep ==
  \/ \E t \in Tcerts :
       \/ Pin(t) \/ Unpin(t) \/ AddCa(t) \/ RemoveCa(t)
       \/ Distrust(t) \/ TrustAgain(t) \/ RemoveTcert(t)
       \/ \E c \in Contents : ImportTcert(t, c) \/ SaveTcert(t, c)
       \/ \E ca \in Tcerts : Attest(ca, t) \/ RevokeAttestation(ca, t)
       \/ \E k \in Keys, type \in RevTypes, n \in Times :
            RevokeTcert(k, t, type, n)
  \/ \E d \in Sdocs :
       \/ IssueSdoc(d) \/ ImportSdoc(d) \/ RemoveSdoc(d)
       \/ \E k \in Keys, n \in Times, a \in {"blockSdoc", "unblockSdoc"} :
            BlockOrUnblockSdoc(a, k, d, n)
  \/ \E k \in Keys : RevokeKey(k)
  \/ \E s \in Wire : ImportStatement(s)
  \/ \E job \in inflight : Store(job)

-----------------------------------------------------------------------------
(* Has the key issued the TCert, or attested it in a record still held?    *)
HasStanding(k, t) ==
  \/ k = KeyOf[t]
  \/ \E ca \in Tcerts : Attested(t, ca) /\ KeyOf[ca] = k

Authorised(s) ==
  /\ s.action = "revokeTcert" => HasStanding(s.signer, s.target)
  /\ s.action \in {"blockSdoc", "unblockSdoc"}
       => HasStanding(s.signer, IssuerOf[s.target])
  /\ s.action = "revokeKey" => s.signer = s.target

(* Between the check of authority and the write of a local revocation or   *)
(* block the stores move on, yet whoever signed it is still, when it is    *)
(* written, the issuer or a CA whose attestation of the issuer the device  *)
(* holds; a key is revoked by itself only (revokeTcert, revokeKey,         *)
(* blockSdoc, unblockSdoc).                                                *)
LocalStatementsAuthorised ==
  \A job \in inflight : job[2] = NoTcert => Authorised(job[1])

(* Who revokes a TCert, in the entries stored for it.                      *)
Revokers(t) == {e.by : e \in revTcert[t]}

(* A step that forgets no revocation and no block or unblock statement.    *)
RevocationsKept ==
  /\ revKey \subseteq revKey'
  /\ revAtt \subseteq revAtt'
  /\ history \subseteq history'
  /\ \A t \in Tcerts : Revokers(t) \subseteq Revokers(t)'
=============================================================================
