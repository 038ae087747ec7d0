---------------------------- MODULE DeviceProofs ----------------------------
(***************************************************************************)
(* Facts about the operations of the device, for any stores, parties and   *)
(* statements: they keep the stores well typed, and none of them makes the *)
(* device forget a revocation or loses the authority behind a statement    *)
(* that is still to be written.                                            *)
(***************************************************************************)
EXTENDS Device, TLAPS

(* What a statement carries is determined by its action.                   *)
LEMMA StatementShape ==
  ASSUME NEW s \in Statements
  PROVE  /\ s.signer \in Keys
         /\ s.action = "attest" =>
              s.target \in Tcerts /\ s.hash \in Contents \cup {Unbound}
         /\ s.action = "revokeTcert" =>
              /\ s.target \in Tcerts
              /\ s.type \in RevTypes \cup {"unstated"}
              /\ s.issuedAt \in Times
         /\ s.action = "revokeKey" => s.target \in Keys
         /\ s.action = "revokeAttestation" => s.target \in Tcerts
         /\ s.action \in {"blockSdoc", "unblockSdoc"} =>
              s.target \in Sdocs /\ s.issuedAt \in Times
BY DEF Statements

(* Storing a statement keeps the trust and revocation stores well typed.   *)
LEMMA StoreStatementType ==
  ASSUME DeviceTypeOK,
         NEW job \in Jobs, StoreStatement(job[1], job[2])
  PROVE  /\ atts' \in [Tcerts -> [Tcerts -> AttHashes]]
         /\ UNCHANGED <<pinned, cas, distrusted>>
         /\ revTcert' \in [Tcerts -> SUBSET RevEntries]
         /\ revKey' \subseteq Keys
         /\ revAtt' \subseteq Tcerts \X Tcerts
         /\ blocked' \subseteq Sdocs
         /\ history' \subseteq SdocEntries
<1> DEFINE s == job[1]
           ca == job[2]
<1>0. /\ s \in Statements
      /\ ca \in Tcerts \cup {NoTcert}
      /\ ca = NoTcert => s.action \notin {"attest", "revokeAttestation"}
  BY DEF Jobs
<1> HIDE DEF s, ca
<1>1. CASE AddAttestation(s, ca)
  <2>1. atts' \in [Tcerts -> [Tcerts -> AttHashes]]
    BY <1>0, <1>1, StatementShape DEF AddAttestation, DeviceTypeOK, AttHashes
  <2>. QED BY <1>1, <2>1 DEF AddAttestation, revVars, DeviceTypeOK
<1>2. CASE AddRevokedTcert(s)
  <2>1. EntryOf(s) \in RevEntries
    BY <1>0, <1>2, StatementShape
       DEF AddRevokedTcert, EntryOf, RevEntries, RevTypes
  <2>2. revTcert' \in [Tcerts -> SUBSET RevEntries]
    BY <1>0, <1>2, <2>1, StatementShape DEF AddRevokedTcert, DeviceTypeOK
  <2>. QED BY <1>2, <2>2 DEF AddRevokedTcert, trustVars, DeviceTypeOK
<1>3. CASE AddRevokedKey(s)
  BY <1>0, <1>3, StatementShape DEF AddRevokedKey, trustVars, DeviceTypeOK
<1>4. CASE AddRevokedAttestation(s, ca)
  BY <1>0, <1>4, StatementShape
     DEF AddRevokedAttestation, trustVars, DeviceTypeOK
<1>5. CASE AddBlockedSdoc(s)
  BY <1>0, <1>5, StatementShape
     DEF AddBlockedSdoc, SdocEntryOf, SdocEntries, trustVars, DeviceTypeOK
<1>6. CASE RemoveBlockedSdoc(s)
  BY <1>0, <1>6, StatementShape
     DEF RemoveBlockedSdoc, SdocEntryOf, SdocEntries, trustVars, DeviceTypeOK
<1>. QED BY <1>1, <1>2, <1>3, <1>4, <1>5, <1>6 DEF StoreStatement, s, ca

(* Begin keeps the type invariant when the job is well formed.             *)
LEMMA BeginType ==
  ASSUME DeviceTypeOK, NEW STATE s, NEW STATE ca, Begin(s, ca),
         <<s, ca>> \in Jobs
  PROVE  DeviceTypeOK'
<1>1. ops' \in Nat
  BY DEF DeviceTypeOK, Begin, Count
<1>2. inflight' \subseteq Jobs
  BY DEF DeviceTypeOK, Begin
<1>3. /\ UNCHANGED <<certs, docs, pinned, cas, distrusted, atts>>
      /\ UNCHANGED <<revTcert, revKey, revAtt, blocked, history>>
  BY DEF Begin, storeVars, trustVars, revVars
<1>. QED BY <1>1, <1>2, <1>3 DEF DeviceTypeOK

(* Every operation keeps the stores and the jobs well typed.               *)
LEMMA DeviceStepType ==
  ASSUME DeviceTypeOK, DeviceStep
  PROVE  DeviceTypeOK'
<1>1. ASSUME NEW t \in Tcerts,
             Pin(t) \/ Unpin(t) \/ AddCa(t) \/ RemoveCa(t)
             \/ Distrust(t) \/ TrustAgain(t)
      PROVE  DeviceTypeOK'
  BY <1>1 DEF DeviceTypeOK, Pin, Unpin, AddCa, RemoveCa, Distrust, TrustAgain,
              Count, revVars
<1>2. ASSUME NEW t \in Tcerts, RemoveTcert(t) PROVE DeviceTypeOK'
  BY <1>2 DEF DeviceTypeOK, RemoveTcert, Count, revVars
<1>3. ASSUME NEW t \in Tcerts, NEW c \in Contents,
             ImportTcert(t, c) \/ SaveTcert(t, c)
      PROVE  DeviceTypeOK'
  BY <1>3 DEF DeviceTypeOK, ImportTcert, SaveTcert, Count, trustVars, revVars
<1>4. ASSUME NEW ca \in Tcerts, NEW t \in Tcerts, Attest(ca, t)
      PROVE  DeviceTypeOK'
  <2> DEFINE s == [action |-> "attest", signer |-> KeyOf[ca], target |-> t,
                   hash |-> certs[t]]
  <2>1. certs[t] \in Contents
    BY <1>4 DEF Attest, Held, DeviceTypeOK
  <2>2. s \in Statements
    BY <2>1, DeviceAssumption DEF Statements
  <2>3. <<s, ca>> \in Jobs
    BY <2>2, DeviceAssumption DEF Jobs
  <2>. QED BY <1>4, <2>3, BeginType DEF Attest
<1>5. ASSUME NEW ca \in Tcerts, NEW t \in Tcerts, RevokeAttestation(ca, t)
      PROVE  DeviceTypeOK'
  <2> DEFINE s == [action |-> "revokeAttestation", signer |-> KeyOf[ca],
                   target |-> t]
  <2>1. s \in Statements
    BY DeviceAssumption DEF Statements
  <2>2. <<s, ca>> \in Jobs
    BY <2>1, DeviceAssumption DEF Jobs
  <2>. QED BY <1>5, <2>2, BeginType DEF RevokeAttestation
<1>6. ASSUME NEW t \in Tcerts, NEW k \in Keys, NEW type \in RevTypes,
             NEW n \in Times, RevokeTcert(k, t, type, n)
      PROVE  DeviceTypeOK'
  <2> DEFINE s == [action |-> "revokeTcert", signer |-> k, target |-> t,
                   type |-> type, issuedAt |-> n]
  <2>1. s \in Statements
    BY DEF Statements
  <2>2. <<s, NoTcert>> \in Jobs
    BY <2>1 DEF Jobs
  <2>. QED BY <1>6, <2>2, BeginType DEF RevokeTcert
<1>7. ASSUME NEW k \in Keys, RevokeKey(k) PROVE DeviceTypeOK'
  <2> DEFINE s == [action |-> "revokeKey", signer |-> k, target |-> k]
  <2>1. s \in Statements
    BY DEF Statements
  <2>2. <<s, NoTcert>> \in Jobs
    BY <2>1 DEF Jobs
  <2>. QED BY <1>7, <2>2, BeginType DEF RevokeKey
<1>8. ASSUME NEW d \in Sdocs, NEW k \in Keys, NEW n \in Times,
             NEW a \in {"blockSdoc", "unblockSdoc"},
             BlockOrUnblockSdoc(a, k, d, n)
      PROVE  DeviceTypeOK'
  <2> DEFINE s == [action |-> a, signer |-> k, target |-> d, issuedAt |-> n]
  <2>1. s \in Statements
    BY DEF Statements
  <2>2. <<s, NoTcert>> \in Jobs
    BY <2>1 DEF Jobs
  <2>. QED BY <1>8, <2>2, BeginType DEF BlockOrUnblockSdoc
<1>9. ASSUME NEW d \in Sdocs, IssueSdoc(d) \/ ImportSdoc(d) \/ RemoveSdoc(d)
      PROVE  DeviceTypeOK'
  BY <1>9 DEF DeviceTypeOK, IssueSdoc, ImportSdoc, RemoveSdoc, Count,
              trustVars, revVars
<1>10. ASSUME NEW s \in Wire, ImportStatement(s) PROVE DeviceTypeOK'
  <2>1. PICK ca \in SignerTcerts(s.signer) : Begin(s, ca)
    BY <1>10 DEF ImportStatement
  <2>2. ca \in Tcerts
    BY DEF SignerTcerts
  <2>3. <<s, ca>> \in Jobs
    BY <2>2, DeviceAssumption DEF Jobs
  <2>. QED BY <2>1, <2>3, BeginType
<1>11. ASSUME NEW job \in inflight, Store(job) PROVE DeviceTypeOK'
  <2>1. job \in Jobs
    BY DEF DeviceTypeOK
  <2>. QED BY <1>11, <2>1, StoreStatementType DEF Store, DeviceTypeOK
<1>. QED
  BY <1>1, <1>2, <1>3, <1>4, <1>5, <1>6, <1>7, <1>8, <1>9, <1>10, <1>11
  DEF DeviceStep

(* A restart, clean or with one torn file, keeps the stores well typed.    *)
LEMMA RestartType ==
  ASSUME DeviceTypeOK, NEW torn, Restart(torn)
  PROVE  DeviceTypeOK'
BY DEF DeviceTypeOK, Restart, Load, Count, Files, AttHashes

(* The stores the device starts with are well typed.                       *)
LEMMA DeviceInitType == DeviceInit => DeviceTypeOK
BY DeviceAssumption DEF DeviceInit, DeviceTypeOK

(* No operation of a running device forgets a revocation, nor any block or *)
(* unblock statement.                                                      *)
LEMMA DeviceStepKeepsRevocations ==
  ASSUME DeviceTypeOK, DeviceStep
  PROVE  RevocationsKept
<1>1. ASSUME UNCHANGED <<revTcert, revKey, revAtt, history>>
      PROVE  RevocationsKept
  BY <1>1 DEF RevocationsKept, Revokers
<1>2. ASSUME NEW job \in inflight, Store(job) PROVE RevocationsKept
  <2> DEFINE s == job[1]
             ca == job[2]
  <2>0. s \in Statements
    BY DEF DeviceTypeOK, Jobs
  <2>1. CASE AddAttestation(s, ca)
    BY <1>1, <2>1 DEF AddAttestation, revVars
  <2>2. CASE AddRevokedTcert(s)
    <3>1. s.target \in Tcerts
      BY <2>0, <2>2, StatementShape DEF AddRevokedTcert
    <3>2. ASSUME NEW t \in Tcerts, NEW e \in revTcert[t]
          PROVE  \E f \in revTcert'[t] : f.by = e.by
      <4>1. CASE t = s.target /\ e.by = s.signer
        <5>1. EntryOf(s) \in revTcert'[t]
          BY <2>2, <3>1, <4>1 DEF AddRevokedTcert, DeviceTypeOK
        <5>. QED BY <4>1, <5>1 DEF EntryOf
      <4>2. CASE t # s.target \/ e.by # s.signer
        BY <2>2, <3>1, <4>2 DEF AddRevokedTcert, DeviceTypeOK
      <4>. QED BY <4>1, <4>2
    <3>3. ASSUME NEW t \in Tcerts PROVE Revokers(t) \subseteq Revokers(t)'
      BY <3>2 DEF Revokers
    <3>. QED BY <2>2, <3>3 DEF AddRevokedTcert, RevocationsKept
  <2>3. CASE AddRevokedKey(s)
    BY <2>3 DEF AddRevokedKey, RevocationsKept, Revokers
  <2>4. CASE AddRevokedAttestation(s, ca)
    BY <2>4 DEF AddRevokedAttestation, RevocationsKept, Revokers
  <2>5. CASE AddBlockedSdoc(s)
    BY <2>5 DEF AddBlockedSdoc, RevocationsKept, Revokers
  <2>6. CASE RemoveBlockedSdoc(s)
    BY <2>6 DEF RemoveBlockedSdoc, RevocationsKept, Revokers
  <2>. QED
    BY <1>2, <2>1, <2>2, <2>3, <2>4, <2>5, <2>6 DEF Store, StoreStatement
<1>3. CASE ~\E job \in inflight : Store(job)
  <2>1. UNCHANGED <<revTcert, revKey, revAtt, history>>
    BY <1>3
    DEF DeviceStep, Pin, Unpin, AddCa, RemoveCa, Distrust, TrustAgain,
        RemoveTcert, ImportTcert, SaveTcert, Attest, RevokeAttestation,
        RevokeTcert, RevokeKey, BlockOrUnblockSdoc, IssueSdoc, ImportSdoc,
        RemoveSdoc, ImportStatement, Begin, storeVars, revVars
  <2>. QED BY <1>1, <2>1
<1>. QED BY <1>2, <1>3

(* An attestation record, once held, is never withdrawn.                   *)
LEMMA AttestationsStay ==
  ASSUME DeviceTypeOK, DeviceStep,
         NEW t \in Tcerts, NEW ca \in Tcerts, Attested(t, ca)
  PROVE  Attested(t, ca)'
<1>1. ASSUME NEW job \in inflight, Store(job) PROVE Attested(t, ca)'
  <2>0. job[1] \in Statements
    BY DEF DeviceTypeOK, Jobs
  <2>1. CASE AddAttestation(job[1], job[2])
    <3>1. job[1].hash # NoContent
      BY <2>0, <2>1, StatementShape, DeviceAssumption DEF AddAttestation
    <3>. QED
      BY <2>1, <3>1 DEF AddAttestation, Attested, DeviceTypeOK
  <2>2. CASE ~AddAttestation(job[1], job[2])
    BY <1>1, <2>2
    DEF Store, StoreStatement, AddRevokedTcert, AddRevokedKey,
        AddRevokedAttestation, AddBlockedSdoc, RemoveBlockedSdoc, trustVars,
        Attested
  <2>. QED BY <2>1, <2>2
<1>2. CASE ~\E job \in inflight : Store(job)
  BY <1>2
  DEF DeviceStep, Pin, Unpin, AddCa, RemoveCa, Distrust, TrustAgain,
      RemoveTcert, ImportTcert, SaveTcert, Attest, RevokeAttestation,
      RevokeTcert, RevokeKey, BlockOrUnblockSdoc, IssueSdoc, ImportSdoc,
      RemoveSdoc, ImportStatement, Begin, storeVars, trustVars, Attested
<1>. QED BY <1>1, <1>2

(* So whoever had standing when its statement was checked still has.       *)
LEMMA StandingStays ==
  ASSUME DeviceTypeOK, DeviceStep, NEW s \in Statements, Authorised(s)
  PROVE  Authorised(s)'
<1>1. ASSUME NEW t \in Tcerts, HasStanding(s.signer, t)
      PROVE  HasStanding(s.signer, t)'
  BY <1>1, AttestationsStay DEF HasStanding
<1>. QED BY <1>1, StatementShape, DeviceAssumption DEF Authorised

\* MayActOn asks for at least the standing the property speaks of.
LEMMA ActingNeedsStanding ==
  ASSUME NEW k, NEW t, MayActOn(k, t)
  PROVE  HasStanding(k, t)
BY DEF MayActOn, IsAuthorizedCa, HasStanding

(* A local job is authorised when it is begun.                             *)
LEMMA NewJobsAuthorised ==
  ASSUME DeviceTypeOK, DeviceStep,
         NEW job \in inflight' \ inflight, job[2] = NoTcert
  PROVE  Authorised(job[1])
<1>2. ASSUME NEW ca \in Tcerts, NEW t \in Tcerts,
             Attest(ca, t) \/ RevokeAttestation(ca, t)
      PROVE  FALSE
  BY <1>2, DeviceAssumption DEF Attest, RevokeAttestation, Begin
<1>3. ASSUME NEW s \in Wire, ImportStatement(s) PROVE FALSE
  BY <1>3, DeviceAssumption DEF ImportStatement, SignerTcerts, Begin
<1>4. ASSUME NEW t \in Tcerts, NEW k \in Keys, NEW type \in RevTypes,
             NEW n \in Times, RevokeTcert(k, t, type, n)
      PROVE  Authorised(job[1])
  <2>1. job[1] = [action |-> "revokeTcert", signer |-> k, target |-> t,
                  type |-> type, issuedAt |-> n]
    BY <1>4 DEF RevokeTcert, Begin
  <2>2. HasStanding(k, t)
    BY <1>4, ActingNeedsStanding DEF RevokeTcert
  <2>. QED BY <2>1, <2>2 DEF Authorised
<1>5. ASSUME NEW k \in Keys, RevokeKey(k) PROVE Authorised(job[1])
  <2>1. job[1] = [action |-> "revokeKey", signer |-> k, target |-> k]
    BY <1>5 DEF RevokeKey, Begin
  <2>. QED BY <2>1 DEF Authorised
<1>6. ASSUME NEW d \in Sdocs, NEW k \in Keys, NEW n \in Times,
             NEW a \in {"blockSdoc", "unblockSdoc"},
             BlockOrUnblockSdoc(a, k, d, n)
      PROVE  Authorised(job[1])
  <2>1. job[1] = [action |-> a, signer |-> k, target |-> d, issuedAt |-> n]
    BY <1>6 DEF BlockOrUnblockSdoc, Begin
  <2>2. HasStanding(k, IssuerOf[d])
    BY <1>6, ActingNeedsStanding DEF BlockOrUnblockSdoc
  <2>. QED BY <2>1, <2>2 DEF Authorised
<1>7. CASE inflight' \subseteq inflight
  BY <1>7
<1>. QED
  BY <1>2, <1>3, <1>4, <1>5, <1>6, <1>7
  DEF DeviceStep, Pin, Unpin, AddCa, RemoveCa, Distrust, TrustAgain,
      RemoveTcert, ImportTcert, SaveTcert, IssueSdoc, ImportSdoc, RemoveSdoc,
      Store

(* Every operation keeps the local jobs authorised.                        *)
LEMMA DeviceStepAuthorised ==
  ASSUME DeviceTypeOK, LocalStatementsAuthorised, DeviceStep
  PROVE  LocalStatementsAuthorised'
<1>1. ASSUME NEW job \in inflight', job[2] = NoTcert
      PROVE  Authorised(job[1])'
  <2>1. Authorised(job[1])
    BY <1>1, NewJobsAuthorised DEF LocalStatementsAuthorised
  <2>2. job[1] \in Statements
    BY DeviceStepType DEF DeviceTypeOK, Jobs
  <2>. QED BY <2>1, <2>2, StandingStays
<1>. QED BY <1>1 DEF LocalStatementsAuthorised
=============================================================================
