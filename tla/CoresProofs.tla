----------------------------- MODULE CoresProofs -----------------------------
(***************************************************************************)
(* The two cores compared.                                                 *)
(*                                                                         *)
(* Cores: they agree, for any keys, TCerts, documents, statements and      *)
(* histories.  The argument: the stores correspond (Correspondence), also  *)
(* between the moment the Python core has stored a statement and the       *)
(* moment the TypeScript core has; each answer is a function of what       *)
(* corresponds.                                                            *)
(*                                                                         *)
(* Documents: what one core signed is judged by either, for any schemas,   *)
(* values, times, zones and places.  The argument: the result of a         *)
(* verification that has come to the fields is, at any moment, that of the *)
(* fields it has judged (DocumentInvariant); each property is then one     *)
(* about the engines.                                                      *)
(***************************************************************************)
EXTENDS Cores, Documents, DeviceProofs

\* What the Python core does with a statement that the TypeScript core has
\* attributed to ca.
PyTakes(s, ca) ==
  \/ /\ s.action = "attest"
     /\ \E other \in Tcerts : /\ s.target \notin ambiguous' => other = ca
                              /\ Py!AddAttestation(s.target, other, s.hash)
  \/ /\ s.action = "revokeTcert"
     /\ Py!AddRevokedTcert(s.target, EntryOf(s).type, s.issuedAt)
  \/ s.action = "revokeKey" /\ Py!AddRevokedKey(s.target)
  \/ s.action = "blockSdoc" /\ Py!AddBlockedSdoc(s.target)
  \/ s.action = "unblockSdoc" /\ Py!RemoveBlockedSdoc(s.target)
  \/ s.action = "revokeAttestation" /\ UNCHANGED pythonVars

\* A statement handed to both devices.
Handed(job) ==
  /\ Begin(job[1], job[2])
  /\ PyTakes(job[1], job[2])
  /\ ambiguous \subseteq ambiguous' /\ ambiguous' \subseteq Tcerts

\* A step that touches neither attestations nor revocations.
Aside ==
  /\ UNCHANGED <<atts, revTcert, revKey, revAtt, blocked, inflight>>
  /\ UNCHANGED <<pyAtts, pyRevTcert, pyRevKey, pyBlocked, ambiguous>>
  /\ SameConfiguration'

-----------------------------------------------------------------------------
(* Every operation either leaves attestations and revocations alone on     *)
(* both sides, or hands one statement to both.                             *)

LEMMA ImportIsHanded ==
  ASSUME CoresTypeOK, SameConfiguration, NEW s \in Wire, Import(s)
  PROVE  \E job \in Jobs : Handed(job)
<1>0. s \in Statements
  BY DeviceAssumption
<1>1. PICK ca \in SignerTcerts(s.signer) : Importable(s, ca) /\ Begin(s, ca)
  BY DEF Import, ImportStatement
<1>2. ca \in Tcerts /\ KeyOf[ca] = s.signer
  BY DEF SignerTcerts
<1>3. <<s, ca>> \in Jobs
  BY <1>0, <1>2, DeviceAssumption DEF Jobs
<1>8. ambiguous \subseteq ambiguous' /\ ambiguous' \subseteq Tcerts
  BY <1>0, StatementShape DEF Import, CoresTypeOK
<1>4. Py!SignerTcerts(s.signer) = SignerTcerts(s.signer)
  BY DEF Py!SignerTcerts, SignerTcerts, Py!Held, Held, SameConfiguration
<1>5. s.action # "revokeAttestation" => Py!Importable(s)
  BY <1>1, <1>4
     DEF Importable, Py!Importable, Py!Known, Py!Held, Held, SameConfiguration
<1>6. ASSUME s.action = "revokeAttestation" PROVE PyTakes(s, ca)
  <2>1. UNCHANGED pythonVars
    BY <1>6 DEF Import, Py!ImportStatement, Py!Importable, Py!Known,
                Py!RefuseStatement, Py!pyVars, Py!trustVars, Py!revVars,
                pythonVars
  <2>. QED BY <1>6, <2>1 DEF PyTakes
<1>7. ASSUME s.action # "revokeAttestation" PROVE PyTakes(s, ca)
  <2>1. Py!ImportStatement(s)
    BY <1>5, <1>7 DEF Import, Py!RefuseStatement
  <2>2. PyTakes(s, ca)
    <3>1. CASE s.action = "attest"
      <4>1. PICK other \in SignerTcerts(s.signer) :
              Py!AddAttestation(s.target, other, s.hash)
        BY <2>1, <3>1, <1>4 DEF Py!ImportStatement
      <4>2. other \in Tcerts /\ (s.target \notin ambiguous' => other = ca)
        BY <3>1, <1>1 DEF SignerTcerts, Import, HasChoice
      <4>. QED BY <3>1, <4>1, <4>2 DEF PyTakes
    <3>2. CASE s.action # "attest"
      BY <2>1, <3>2 DEF Py!ImportStatement, PyTakes, EntryOf
    <3>. QED BY <3>1, <3>2
  <2>. QED BY <2>2
<1>9. <<s, ca>>[1] = s /\ <<s, ca>>[2] = ca
  OBVIOUS
<1>. QED BY <1>1, <1>3, <1>6, <1>7, <1>8, <1>9 DEF Handed

LEMMA ActIsHanded ==
  ASSUME CoresTypeOK, SameConfiguration, NEW k \in Keys, Act(k)
  PROVE  \E job \in Jobs : Begin(job[1], job[2]) /\ PyTakes(job[1], job[2])
<1>1. ASSUME NEW ca \in Tcerts, NEW t \in Tcerts,
             Attest(ca, t), Py!Attest(ca, t)
      PROVE  \E job \in Jobs : Begin(job[1], job[2]) /\ PyTakes(job[1], job[2])
  <2> DEFINE s == [action |-> "attest", signer |-> KeyOf[ca], target |-> t,
                   hash |-> certs[t]]
  <2>1. certs[t] \in Contents
    BY <1>1 DEF Attest, Held, CoresTypeOK, DeviceTypeOK
  <2>2. <<s, ca>> \in Jobs
    BY <2>1, DeviceAssumption DEF Jobs, Statements
  <2>3. Begin(s, ca)
    BY <1>1 DEF Attest
  <2>4. Py!AddAttestation(t, ca, certs[t])
    BY <1>1 DEF Py!Attest, SameConfiguration
  <2>5. PyTakes(s, ca)
    BY <2>4 DEF PyTakes
  <2>. QED BY <2>2, <2>3, <2>5
<1>2. ASSUME NEW t \in Tcerts, NEW type \in RevTypes, NEW n \in Times,
             RevokeTcert(k, t, type, n), Py!RevokeTcert(k, t, type, n)
      PROVE  \E job \in Jobs : Begin(job[1], job[2]) /\ PyTakes(job[1], job[2])
  <2> DEFINE s == [action |-> "revokeTcert", signer |-> k, target |-> t,
                   type |-> type, issuedAt |-> n]
  <2>1. <<s, NoTcert>> \in Jobs
    BY DEF Jobs, Statements
  <2>2. Begin(s, NoTcert)
    BY <1>2 DEF RevokeTcert
  <2>3. EntryOf(s).type = type
    BY DEF EntryOf, RevTypes
  <2>4. PyTakes(s, NoTcert)
    BY <1>2, <2>3 DEF Py!RevokeTcert, PyTakes
  <2>. QED BY <2>1, <2>2, <2>4
<1>3. ASSUME RevokeKey(k), Py!RevokeKey(k)
      PROVE  \E job \in Jobs : Begin(job[1], job[2]) /\ PyTakes(job[1], job[2])
  <2> DEFINE s == [action |-> "revokeKey", signer |-> k, target |-> k]
  <2>1. <<s, NoTcert>> \in Jobs
    BY DEF Jobs, Statements
  <2>2. Begin(s, NoTcert) /\ PyTakes(s, NoTcert)
    BY <1>3 DEF RevokeKey, Py!RevokeKey, PyTakes
  <2>. QED BY <2>1, <2>2
<1>4. ASSUME NEW d \in Sdocs, NEW n \in Times,
             NEW a \in {"blockSdoc", "unblockSdoc"},
             BlockOrUnblockSdoc(a, k, d, n),
             \/ a = "blockSdoc" /\ Py!BlockSdoc(k, d)
             \/ a = "unblockSdoc" /\ Py!UnblockSdoc(k, d)
      PROVE  \E job \in Jobs : Begin(job[1], job[2]) /\ PyTakes(job[1], job[2])
  <2> DEFINE s == [action |-> a, signer |-> k, target |-> d, issuedAt |-> n]
  <2>1. <<s, NoTcert>> \in Jobs
    BY DEF Jobs, Statements
  <2>2. Begin(s, NoTcert) /\ PyTakes(s, NoTcert)
    BY <1>4 DEF BlockOrUnblockSdoc, Py!BlockSdoc, Py!UnblockSdoc, PyTakes
  <2>. QED BY <2>1, <2>2
<1>. QED BY <1>1, <1>2, <1>3, <1>4 DEF Act

LEMMA OperateIsAsideOrHanded ==
  ASSUME CoresTypeOK, SameConfiguration,
         (Operate /\ UNCHANGED ambiguous) \/ \E s \in Wire : Import(s)
  PROVE  Aside \/ \E job \in Jobs : Handed(job)
<1>1. CASE \E s \in Wire : Import(s)
  BY <1>1, ImportIsHanded
<1>2. CASE Operate /\ UNCHANGED ambiguous
  <2>1. ASSUME NEW t \in Tcerts, Configure(t) PROVE Aside
    BY <1>2, <2>1
       DEF Configure, Aside, SameConfiguration, Pin, Unpin, AddCa, RemoveCa,
           Distrust, TrustAgain, revVars, Py!Pin, Py!Unpin, Py!AddCa,
           Py!RemoveCa, Py!Distrust, Py!TrustAgain, Py!revVars
  <2>2. ASSUME NEW t \in Tcerts, NEW c \in Contents, Obtain(t, c) PROVE Aside
    BY <1>2, <2>2
       DEF Obtain, Aside, SameConfiguration, ImportTcert, SaveTcert,
           trustVars, revVars, Py!ImportTcert, Py!SaveTcert, Py!trustVars,
           Py!revVars
  <2>3. ASSUME NEW d \in Sdocs, Issue(d) PROVE Aside
    BY <1>2, <2>3
       DEF Issue, Aside, SameConfiguration, IssueSdoc, trustVars, revVars,
           Py!IssueSdoc, Py!trustVars, Py!revVars
  <2>4. ASSUME NEW ca \in Tcerts, NEW t \in Tcerts, Withdraw(ca, t)
        PROVE  \E job \in Jobs : Begin(job[1], job[2]) /\ PyTakes(job[1], job[2])
    <3> DEFINE s == [action |-> "revokeAttestation", signer |-> KeyOf[ca],
                     target |-> t]
    <3>1. <<s, ca>> \in Jobs
      BY DeviceAssumption DEF Jobs, Statements
    <3>2. Begin(s, ca) /\ PyTakes(s, ca)
      BY <2>4 DEF Withdraw, RevokeAttestation, PyTakes
    <3>. QED BY <3>1, <3>2
  <2>5. ASSUME NEW k \in Keys, Act(k)
        PROVE  \E job \in Jobs : Begin(job[1], job[2]) /\ PyTakes(job[1], job[2])
    BY <2>5, ActIsHanded
  <2>6. ambiguous \subseteq ambiguous' /\ ambiguous' \subseteq Tcerts
    BY <1>2 DEF CoresTypeOK
  <2>. QED BY <1>2, <2>1, <2>2, <2>3, <2>4, <2>5, <2>6 DEF Operate, Handed
<1>. QED BY <1>1, <1>2

-----------------------------------------------------------------------------
(* Types.                                                                  *)

LEMMA LoadedRecordsType == LoadedRecords \subseteq Py!Records
BY DEF LoadedRecords, Py!Records

LEMMA InitType == Init => CoresTypeOK
<1> SUFFICES ASSUME Init PROVE CoresTypeOK
  OBVIOUS
<1>1. DeviceTypeOK
  BY DeviceInitType DEF Init
<1>2. Py!PyTypeOK
  BY LoadedRecordsType, DeviceAssumption DEF Init, Py!Init, Py!PyTypeOK
<1>. QED BY <1>1, <1>2 DEF CoresTypeOK, Init

\* Every operation and Finish is an operation of the device.
LEMMA NextIsDeviceStep ==
  ASSUME Next
  PROVE  DeviceStep
BY DEF Next, Operate, Configure, Obtain, Act, Withdraw, Issue, Import, Finish,
       DeviceStep

LEMMA PyTakesType ==
  ASSUME Py!PyTypeOK, NEW job \in Jobs, PyTakes(job[1], job[2])
  PROVE  Py!PyTypeOK'
<1> DEFINE s == job[1]
           ca == job[2]
<1>0. s \in Statements
  BY DEF Jobs
<1> HIDE DEF s, ca
<1>1. ASSUME NEW other \in Tcerts, s.action = "attest",
             Py!AddAttestation(s.target, other, s.hash)
      PROVE  Py!PyTypeOK'
  <2>1. [target |-> s.target, ca |-> other, hash |-> s.hash] \in Py!Records
    BY <1>0, <1>1, StatementShape DEF Py!Records
  <2>. QED BY <1>1, <2>1 DEF Py!AddAttestation, Py!PyTypeOK, Py!revVars
<1>2. CASE /\ s.action = "revokeTcert"
           /\ Py!AddRevokedTcert(s.target, EntryOf(s).type, s.issuedAt)
  <2>1. [type |-> EntryOf(s).type, issuedAt |-> s.issuedAt] \in Py!Entries
    BY <1>0, <1>2, StatementShape DEF Py!Entries, EntryOf, RevTypes
  <2>2. pyRevTcert' \in [Tcerts -> {{}} \cup {{e} : e \in Py!Entries}]
    BY <1>2, <2>1 DEF Py!AddRevokedTcert, Py!PyTypeOK
  <2>. QED BY <1>2, <2>2 DEF Py!AddRevokedTcert, Py!PyTypeOK, Py!trustVars
<1>3. CASE s.action = "revokeKey" /\ Py!AddRevokedKey(s.target)
  BY <1>0, <1>3, StatementShape
     DEF Py!AddRevokedKey, Py!PyTypeOK, Py!trustVars
<1>4. CASE s.action = "blockSdoc" /\ Py!AddBlockedSdoc(s.target)
  BY <1>0, <1>4, StatementShape
     DEF Py!AddBlockedSdoc, Py!PyTypeOK, Py!trustVars
<1>5. CASE s.action = "unblockSdoc" /\ Py!RemoveBlockedSdoc(s.target)
  BY <1>5 DEF Py!RemoveBlockedSdoc, Py!PyTypeOK, Py!trustVars
<1>6. CASE UNCHANGED pythonVars
  BY <1>6 DEF pythonVars, Py!PyTypeOK
<1>. QED BY <1>1, <1>2, <1>3, <1>4, <1>5, <1>6 DEF PyTakes, s, ca

LEMMA NextType ==
  ASSUME CoresTypeOK, SameConfiguration, Next
  PROVE  CoresTypeOK'
<1>1. DeviceTypeOK'
  BY NextIsDeviceStep, DeviceStepType DEF CoresTypeOK
<1>2. Py!PyTypeOK' /\ ambiguous' \subseteq Tcerts
  <2>1. CASE Finish
    BY <2>1 DEF Finish, pythonVars, Py!PyTypeOK, CoresTypeOK
  <2>2. CASE Aside
    BY <1>1, <2>2 DEF Aside, SameConfiguration, DeviceTypeOK, Py!PyTypeOK,
                      CoresTypeOK
  <2>3. ASSUME NEW job \in Jobs, Handed(job)
        PROVE  Py!PyTypeOK' /\ ambiguous' \subseteq Tcerts
    BY <2>3, PyTakesType DEF CoresTypeOK, Handed
  <2>. QED BY <2>1, <2>2, <2>3, OperateIsAsideOrHanded DEF Next
<1>. QED BY <1>1, <1>2 DEF CoresTypeOK

-----------------------------------------------------------------------------
(* The correspondence is there at the start and survives every step.       *)

LEMMA InitCorresponds == Init => Correspondence
<1> SUFFICES ASSUME Init PROVE Correspondence
  OBVIOUS
<1>1. OneAtATime /\ SameConfiguration /\ SameKeys /\ SameBlocks
  BY DEF Init, DeviceInit, Py!Init, OneAtATime, SameConfiguration, SameKeys,
         SameBlocks, Pending
<1>2. SameRevoked
  BY DEF Init, DeviceInit, Py!Init, SameRevoked, Pending
<1>3. SameAttested
  <2>1. ASSUME NEW t \in Tcerts, NEW ca \in Tcerts, Attested(t, ca)
        PROVE  RecordOf(t, ca, atts[t][ca]) \in pyAtts
    <3>1. atts[t][ca] \in Contents \cup {Unbound}
      BY <2>1, DeviceAssumption DEF Init, DeviceInit, Attested, AttHashes
    <3>. QED BY <3>1 DEF Init, DeviceInit, Py!Init, LoadedRecords, RecordOf
  <2>2. ASSUME NEW t \in Tcerts, NEW ca \in Tcerts, Py!Attested(t, ca)
        PROVE  Attested(t, ca)
    <3>1. PICK r \in LoadedRecords : r.target = t /\ r.ca = ca
      BY <2>2 DEF Py!Attested, Py!RecordsOf, Init, Py!Init
    <3>2. LoadedAtts[t][ca] = r.hash /\ r.hash \in Contents \cup {Unbound}
      BY <3>1 DEF LoadedRecords
    <3>. QED BY <3>2, DeviceAssumption DEF Init, DeviceInit, Attested
  <2>3. inflight = {}
    BY DEF Init, DeviceInit
  <2>4. ASSUME NEW t \in Tcerts, NEW ca \in Tcerts, Attested(t, ca)
        PROVE  Py!Attested(t, ca)
    <3>1. RecordOf(t, ca, atts[t][ca]) \in pyAtts
      BY <2>1, <2>4
    <3>. QED BY <3>1 DEF Py!Attested, Py!RecordsOf, RecordOf
  <2>. QED BY <2>1, <2>2, <2>3, <2>4 DEF SameAttested, Attesting
<1>. QED BY <1>1, <1>2, <1>3 DEF Correspondence

LEMMA AsideCorresponds ==
  ASSUME Correspondence, Aside
  PROVE  Correspondence'
<1>1. /\ UNCHANGED <<atts, revTcert, revKey, blocked, inflight>>
      /\ UNCHANGED <<pyAtts, pyRevTcert, pyRevKey, pyBlocked>>
      /\ SameConfiguration'
  BY DEF Aside
<1>2. OneAtATime' /\ SameKeys' /\ SameBlocks'
  BY <1>1 DEF Correspondence, OneAtATime, SameKeys, SameBlocks, Pending
<1>3. SameRevoked'
  BY <1>1 DEF Correspondence, SameRevoked, Pending, TwoRevokers, Revokers
<1>4. /\ ambiguous' = ambiguous
      /\ \A t, ca \in Tcerts :
           /\ Attested(t, ca)' <=> Attested(t, ca)
           /\ Py!Attested(t, ca)' <=> Py!Attested(t, ca)
           /\ Attesting(t, ca)' <=> Attesting(t, ca)
  BY <1>1 DEF Aside, Attesting, Attested, Py!Attested, Py!RecordsOf
<1>5. SameAttested'
  BY <1>1, <1>4 DEF Correspondence, SameAttested
<1>. QED BY <1>1, <1>2, <1>3, <1>5 DEF Correspondence

(* A statement handed to both devices: the Python core has stored it, the  *)
(* TypeScript core has it in flight.                                       *)
LEMMA HandedCorresponds ==
  ASSUME CoresTypeOK, Correspondence, inflight = {}, NEW job \in Jobs,
         Handed(job)
  PROVE  Correspondence'
<1> DEFINE s == job[1]
           ca == job[2]
<1>0. /\ s \in Statements /\ job = <<s, ca>>
      /\ Begin(s, ca) /\ PyTakes(s, ca)
      /\ ambiguous \subseteq ambiguous'
  BY DEF Jobs, Handed
<1>1. /\ inflight' = {job}
      /\ UNCHANGED <<certs, docs, pinned, cas, distrusted, atts>>
      /\ UNCHANGED <<revTcert, revKey, blocked>>
  BY <1>0 DEF Begin, storeVars, trustVars, revVars
<1>2. ASSUME NEW x PROVE /\ ~Pending("revokeKey", x)
                         /\ ~Pending("blockSdoc", x)
                         /\ ~Pending("unblockSdoc", x)
                         /\ ~Pending("revokeTcert", x)
  BY DEF Pending
<1>3. ASSUME NEW x
      PROVE  /\ Pending("revokeKey", x)' <=> s.action = "revokeKey" /\ s.target = x
             /\ Pending("blockSdoc", x)' <=> s.action = "blockSdoc" /\ s.target = x
             /\ Pending("unblockSdoc", x)'
                  <=> s.action = "unblockSdoc" /\ s.target = x
             /\ Pending("revokeTcert", x)'
                  <=> s.action = "revokeTcert" /\ s.target = x
  BY <1>1 DEF Pending
<1>4. ASSUME NEW t, NEW c
      PROVE  /\ ~Attesting(t, c)
             /\ Attesting(t, c)'
                  <=> s.action = "attest" /\ s.target = t /\ ca = c
  BY <1>1 DEF Attesting
<1>5. OneAtATime'
  BY <1>1 DEF OneAtATime
<1> HIDE DEF s, ca
<1>6. /\ SameConfiguration'
      /\ pyRevKey' = pyRevKey \/ s.action = "revokeKey"
      /\ pyBlocked' = pyBlocked \/ s.action \in {"blockSdoc", "unblockSdoc"}
      /\ pyRevTcert' = pyRevTcert \/ s.action = "revokeTcert"
      /\ pyAtts' = pyAtts \/ s.action = "attest"
  BY <1>0, <1>1 DEF PyTakes, Py!AddAttestation, Py!AddRevokedTcert,
              Py!AddRevokedKey, Py!AddBlockedSdoc, Py!RemoveBlockedSdoc,
              Py!trustVars, Py!revVars, pythonVars, Correspondence,
              SameConfiguration
<1>7. SameKeys'
  <2>1. CASE s.action = "revokeKey"
    <3>1. pyRevKey' = pyRevKey \cup {s.target}
      BY <1>0, <2>1 DEF PyTakes, Py!AddRevokedKey
    <3>. QED BY <1>1, <1>2, <1>3, <2>1, <3>1 DEF SameKeys, Correspondence
  <2>2. CASE s.action # "revokeKey"
    BY <1>1, <1>2, <1>3, <1>6, <2>2 DEF SameKeys, Correspondence
  <2>. QED BY <2>1, <2>2
<1>8. SameBlocks'
  <2>1. CASE s.action = "blockSdoc"
    <3>1. pyBlocked' = pyBlocked \cup {s.target}
      BY <1>0, <2>1 DEF PyTakes, Py!AddBlockedSdoc
    <3>. QED BY <1>1, <1>2, <1>3, <2>1, <3>1 DEF SameBlocks, Correspondence
  <2>2. CASE s.action = "unblockSdoc"
    <3>1. pyBlocked' = pyBlocked \ {s.target}
      BY <1>0, <2>2 DEF PyTakes, Py!RemoveBlockedSdoc
    <3>. QED BY <1>1, <1>2, <1>3, <2>2, <3>1 DEF SameBlocks, Correspondence
  <2>3. CASE s.action \notin {"blockSdoc", "unblockSdoc"}
    BY <1>1, <1>2, <1>3, <1>6, <2>3 DEF SameBlocks, Correspondence
  <2>. QED BY <2>1, <2>2, <2>3
<1>9. SameRevoked'
  <2>1. ASSUME NEW t \in Tcerts
        PROVE  TwoRevokers(t)' <=> TwoRevokers(t)
    BY <1>1 DEF TwoRevokers, Revokers
  <2>2. CASE s.action = "revokeTcert"
    <3>1. pyRevTcert' = [pyRevTcert EXCEPT ![s.target] = {Unsigned(EntryOf(s))}]
      BY <1>0, <2>2 DEF PyTakes, Py!AddRevokedTcert, Unsigned, EntryOf
    <3>2. s.target \in Tcerts
      BY <1>0, <2>2, StatementShape
    <3>3. pyRevTcert'[s.target] = {Unsigned(EntryOf(s))}
      BY <3>1, <3>2 DEF CoresTypeOK, Py!PyTypeOK
    <3>4. ASSUME NEW t \in Tcerts, t # s.target
          PROVE  pyRevTcert'[t] = pyRevTcert[t]
      BY <3>1, <3>4 DEF CoresTypeOK, Py!PyTypeOK
    <3>5. ASSUME NEW t \in Tcerts
          PROVE  /\ pyRevTcert'[t] # {} <=> revTcert'[t] # {}
                                             \/ Pending("revokeTcert", t)'
                 /\ ~Pending("revokeTcert", t)' /\ ~TwoRevokers(t)'
                      => pyRevTcert'[t] = {Unsigned(e) : e \in revTcert'[t]}
      <4>1. CASE t = s.target
        BY <1>3, <2>2, <3>3, <4>1
      <4>2. CASE t # s.target
        BY <1>1, <1>2, <1>3, <2>1, <3>4, <4>2 DEF SameRevoked, Correspondence
      <4>. QED BY <4>1, <4>2
    <3>. QED BY <1>1, <3>3, <3>5 DEF SameRevoked, s
  <2>3. CASE s.action # "revokeTcert"
    <3>1. ASSUME NEW t \in Tcerts
          PROVE  /\ pyRevTcert'[t] # {} <=> revTcert'[t] # {}
                                             \/ Pending("revokeTcert", t)'
                 /\ ~Pending("revokeTcert", t)' /\ ~TwoRevokers(t)'
                      => pyRevTcert'[t] = {Unsigned(e) : e \in revTcert'[t]}
      BY <1>1, <1>2, <1>3, <1>6, <2>1, <2>3 DEF SameRevoked, Correspondence
    <3>. QED BY <1>1, <2>3, <3>1 DEF SameRevoked, s
  <2>. QED BY <2>2, <2>3
<1>10. SameAttested'
  <2>1. SameAttested
    BY DEF Correspondence
  <2>2. CASE s.action = "attest"
    <3>1. ca \in Tcerts /\ s.target \in Tcerts
      BY <1>0, <2>2, StatementShape DEF Jobs, s, ca
    <3>2. PICK other \in Tcerts : /\ s.target \notin ambiguous' => other = ca
                                 /\ Py!AddAttestation(s.target, other, s.hash)
      BY <1>0, <2>2 DEF PyTakes
    <3>3. PICK old \in SUBSET Py!RecordsOf(s.target, other) :
            pyAtts' = (pyAtts \ old) \cup {RecordOf(s.target, other, s.hash)}
      BY <3>2 DEF Py!AddAttestation, RecordOf
    <3>4. ASSUME NEW r, ~(r.target = s.target /\ r.ca = other)
          PROVE  r \in pyAtts' <=> r \in pyAtts
      BY <3>3, <3>4 DEF Py!RecordsOf, RecordOf
    <3>5. s.target \notin ambiguous' => RecordOf(s.target, ca, s.hash) \in pyAtts'
      BY <3>2, <3>3
    <3>6. ASSUME NEW t \in Tcerts \ ambiguous', NEW c \in Tcerts
          PROVE  /\ Py!Attested(t, c)' <=> Attested(t, c)' \/ Attesting(t, c)'
                 /\ Attested(t, c)' /\ ~Attesting(t, c)'
                      => RecordOf(t, c, atts'[t][c]) \in pyAtts'
      <4>1. CASE t = s.target /\ c = ca
        BY <1>4, <2>2, <3>5, <4>1 DEF Py!Attested, Py!RecordsOf, RecordOf
      <4>2. CASE ~(t = s.target /\ c = ca)
        <5>1. ~(t = s.target /\ c = other)
          BY <3>2, <4>2
        <5>2. Py!Attested(t, c)' <=> Py!Attested(t, c)
          BY <3>4, <5>1 DEF Py!Attested, Py!RecordsOf
        <5>3. ~Attesting(t, c)' /\ ~Attesting(t, c)
          BY <1>4, <4>2
        <5>4. Attested(t, c)' <=> Attested(t, c)
          BY <1>1 DEF Attested
        <5>5. t \in Tcerts \ ambiguous
          BY <1>0
        <5>6. Attested(t, c) => RecordOf(t, c, atts[t][c]) \in pyAtts
          BY <2>1, <5>3, <5>5 DEF SameAttested
        <5>7. Attested(t, c) => RecordOf(t, c, atts[t][c]) \in pyAtts'
          BY <3>4, <5>1, <5>6 DEF RecordOf
        <5>. QED BY <1>1, <2>1, <5>2, <5>3, <5>4, <5>5, <5>7 DEF SameAttested
      <4>. QED BY <4>1, <4>2
    <3>. QED BY <1>1, <3>5, <3>6 DEF SameAttested, s, ca
  <2>3. CASE s.action # "attest"
    <3>1. ASSUME NEW t \in Tcerts \ ambiguous', NEW c \in Tcerts
          PROVE  /\ Py!Attested(t, c)' <=> Attested(t, c)' \/ Attesting(t, c)'
                 /\ Attested(t, c)' /\ ~Attesting(t, c)'
                      => RecordOf(t, c, atts'[t][c]) \in pyAtts'
      <4>1. t \in Tcerts \ ambiguous
        BY <1>0
      <4>. QED BY <1>1, <1>4, <1>6, <2>1, <2>3, <4>1
               DEF SameAttested, Attested, Py!Attested, Py!RecordsOf
    <3>. QED BY <1>1, <2>3, <3>1 DEF SameAttested, s
  <2>. QED BY <2>2, <2>3
<1>. QED BY <1>5, <1>6, <1>7, <1>8, <1>9, <1>10 DEF Correspondence

(* The TypeScript core stores the statement as well.                       *)
LEMMA FinishCorresponds ==
  ASSUME CoresTypeOK, Correspondence, Finish
  PROVE  Correspondence'
<1>1. PICK job \in inflight :
        Store(job) /\ UNCHANGED <<pythonVars, ambiguous>>
  BY DEF Finish
<1> DEFINE s == job[1]
           ca == job[2]
<1>2. s \in Statements /\ job \in Jobs
  BY DEF Jobs, CoresTypeOK, DeviceTypeOK
<1>3. inflight = {job} /\ inflight' = {}
  BY <1>1 DEF Correspondence, OneAtATime, Store
<1>4. UNCHANGED pythonVars /\ ambiguous' = ambiguous /\ StoreStatement(s, ca)
  BY <1>1 DEF Store
<1>5. ASSUME NEW x
      PROVE  /\ Pending("revokeKey", x) <=> s.action = "revokeKey" /\ s.target = x
             /\ Pending("blockSdoc", x) <=> s.action = "blockSdoc" /\ s.target = x
             /\ Pending("unblockSdoc", x)
                  <=> s.action = "unblockSdoc" /\ s.target = x
             /\ Pending("revokeTcert", x)
                  <=> s.action = "revokeTcert" /\ s.target = x
  BY <1>3 DEF Pending
<1>6. ASSUME NEW x PROVE /\ ~Pending("revokeKey", x)'
                         /\ ~Pending("blockSdoc", x)'
                         /\ ~Pending("unblockSdoc", x)'
                         /\ ~Pending("revokeTcert", x)'
  BY <1>3 DEF Pending
<1>7. ASSUME NEW t, NEW c
      PROVE  /\ Attesting(t, c) <=> s.action = "attest" /\ s.target = t /\ ca = c
             /\ ~Attesting(t, c)'
  BY <1>3 DEF Attesting
<1>8. /\ s.action = "revokeTcert"
           => pyRevTcert[s.target] = {Unsigned(EntryOf(s))}
      /\ s.action = "attest" /\ s.target \notin ambiguous
           => RecordOf(s.target, ca, s.hash) \in pyAtts
  BY <1>3 DEF Correspondence, SameRevoked, SameAttested
<1>9. OneAtATime'
  BY <1>3 DEF OneAtATime
<1>10. /\ UNCHANGED <<certs, docs, pinned, cas, distrusted>>
       /\ SameConfiguration'
  BY <1>1 DEF Store, StoreStatement, AddAttestation, AddRevokedTcert,
              AddRevokedKey, AddRevokedAttestation, AddBlockedSdoc,
              RemoveBlockedSdoc, trustVars, pythonVars, Correspondence,
              SameConfiguration
<1> HIDE DEF s, ca
<1>11. /\ revKey' = revKey \/ s.action = "revokeKey"
       /\ blocked' = blocked \/ s.action \in {"blockSdoc", "unblockSdoc"}
       /\ revTcert' = revTcert \/ s.action = "revokeTcert"
       /\ atts' = atts \/ s.action = "attest"
  BY <1>4 DEF StoreStatement, AddAttestation, AddRevokedTcert, AddRevokedKey,
              AddRevokedAttestation, AddBlockedSdoc, RemoveBlockedSdoc,
              trustVars, revVars
<1>12. SameKeys'
  <2>1. CASE s.action = "revokeKey"
    <3>1. revKey' = revKey \cup {s.target}
      BY <1>4, <2>1 DEF StoreStatement, AddAttestation, AddRevokedTcert,
         AddRevokedKey, AddRevokedAttestation, AddBlockedSdoc, RemoveBlockedSdoc
    <3>. QED BY <1>4, <1>5, <1>6, <2>1, <3>1
             DEF SameKeys, Correspondence, pythonVars
  <2>2. CASE s.action # "revokeKey"
    BY <1>4, <1>5, <1>6, <1>11, <2>2 DEF SameKeys, Correspondence, pythonVars
  <2>. QED BY <2>1, <2>2
<1>13. SameBlocks'
  <2>1. CASE s.action = "blockSdoc"
    <3>1. blocked' = blocked \cup {s.target}
      BY <1>4, <2>1 DEF StoreStatement, AddAttestation, AddRevokedTcert,
         AddRevokedKey, AddRevokedAttestation, AddBlockedSdoc, RemoveBlockedSdoc
    <3>. QED BY <1>4, <1>5, <1>6, <2>1, <3>1
             DEF SameBlocks, Correspondence, pythonVars
  <2>2. CASE s.action = "unblockSdoc"
    <3>1. blocked' = blocked \ {s.target}
      BY <1>4, <2>2 DEF StoreStatement, AddAttestation, AddRevokedTcert,
         AddRevokedKey, AddRevokedAttestation, AddBlockedSdoc, RemoveBlockedSdoc
    <3>. QED BY <1>4, <1>5, <1>6, <2>2, <3>1
             DEF SameBlocks, Correspondence, pythonVars
  <2>3. CASE s.action \notin {"blockSdoc", "unblockSdoc"}
    BY <1>4, <1>5, <1>6, <1>11, <2>3 DEF SameBlocks, Correspondence, pythonVars
  <2>. QED BY <2>1, <2>2, <2>3
<1>14. SameRevoked'
  <2>1. CASE s.action = "revokeTcert"
    <3>1. revTcert' = [revTcert EXCEPT ![s.target] =
                         {e \in @ : e.by # s.signer} \cup {EntryOf(s)}]
      BY <1>4, <2>1 DEF StoreStatement, AddAttestation, AddRevokedTcert,
         AddRevokedKey, AddRevokedAttestation, AddBlockedSdoc, RemoveBlockedSdoc
    <3>2. s.target \in Tcerts
      BY <1>2, <2>1, StatementShape
    <3>3. revTcert'[s.target] = {e \in revTcert[s.target] : e.by # s.signer}
                                  \cup {EntryOf(s)}
      BY <3>1, <3>2 DEF CoresTypeOK, DeviceTypeOK
    <3>4. ASSUME NEW t \in Tcerts, t # s.target
          PROVE  revTcert'[t] = revTcert[t]
      BY <3>1, <3>4 DEF CoresTypeOK, DeviceTypeOK
    <3>5. EntryOf(s).by = s.signer
      BY DEF EntryOf
    <3>6. ~TwoRevokers(s.target)' => revTcert'[s.target] = {EntryOf(s)}
      <4>1. ASSUME NEW e \in revTcert[s.target], e.by # s.signer
            PROVE  TwoRevokers(s.target)'
        <5>1. e.by \in {x.by : x \in revTcert'[s.target]}
          BY <3>3, <4>1
        <5>2. s.signer \in {x.by : x \in revTcert'[s.target]}
          BY <3>3, <3>5
        <5>. QED BY <4>1, <5>1, <5>2 DEF TwoRevokers, Revokers
      <4>. QED BY <3>3, <4>1
    <3>7. ASSUME NEW t \in Tcerts
          PROVE  /\ pyRevTcert[t] # {} <=> revTcert'[t] # {}
                 /\ ~TwoRevokers(t)'
                      => pyRevTcert[t] = {Unsigned(e) : e \in revTcert'[t]}
      <4>1. CASE t = s.target
        BY <1>8, <2>1, <3>3, <3>6, <4>1
      <4>2. CASE t # s.target
        <5>1. TwoRevokers(t)' <=> TwoRevokers(t)
          BY <3>4, <4>2 DEF TwoRevokers, Revokers
        <5>. QED BY <1>5, <3>4, <4>2, <5>1 DEF SameRevoked, Correspondence
      <4>. QED BY <4>1, <4>2
    <3>. QED BY <1>3, <1>4, <1>6, <3>7 DEF SameRevoked, pythonVars
  <2>2. CASE s.action # "revokeTcert"
    <3>1. revTcert' = revTcert
      BY <1>11, <2>2
    <3>2. ASSUME NEW t \in Tcerts
          PROVE  TwoRevokers(t)' <=> TwoRevokers(t)
      BY <3>1 DEF TwoRevokers, Revokers
    <3>3. ASSUME NEW t \in Tcerts
          PROVE  /\ pyRevTcert[t] # {} <=> revTcert[t] # {}
                 /\ ~TwoRevokers(t)'
                      => pyRevTcert[t] = {Unsigned(e) : e \in revTcert[t]}
      BY <1>5, <2>2, <3>2 DEF SameRevoked, Correspondence
    <3>. QED BY <1>3, <1>4, <1>6, <3>1, <3>3 DEF SameRevoked, pythonVars
  <2>. QED BY <2>1, <2>2
<1>15. SameAttested'
  <2>1. SameAttested
    BY DEF Correspondence
  <2>2. CASE s.action = "attest"
    <3>1. ca \in Tcerts /\ s.target \in Tcerts
      BY <1>2, <2>2, StatementShape DEF Jobs, s, ca
    <3>2. atts' = [atts EXCEPT ![s.target][ca] = s.hash]
      BY <1>4, <2>2 DEF StoreStatement, AddAttestation, AddRevokedTcert,
         AddRevokedKey, AddRevokedAttestation, AddBlockedSdoc, RemoveBlockedSdoc
    <3>3. /\ atts'[s.target][ca] = s.hash
          /\ \A t, c \in Tcerts :
               ~(t = s.target /\ c = ca) => atts'[t][c] = atts[t][c]
      BY <3>1, <3>2 DEF CoresTypeOK, DeviceTypeOK
    <3>4. s.hash # NoContent
      BY <1>2, <2>2, StatementShape, DeviceAssumption
    <3>5. ASSUME NEW t \in Tcerts \ ambiguous, NEW c \in Tcerts
          PROVE  /\ Py!Attested(t, c) <=> Attested(t, c)'
                 /\ Attested(t, c)' => RecordOf(t, c, atts'[t][c]) \in pyAtts
      <4>1. CASE t = s.target /\ c = ca
        <5>1. Attested(t, c)'
          BY <3>3, <3>4, <4>1 DEF Attested
        <5>2. Py!Attested(t, c)
          BY <1>7, <2>1, <2>2, <4>1 DEF SameAttested
        <5>. QED BY <1>8, <2>2, <3>3, <4>1, <5>1, <5>2
      <4>2. CASE ~(t = s.target /\ c = ca)
        <5>1. ~Attesting(t, c) /\ atts'[t][c] = atts[t][c]
          BY <1>7, <3>3, <4>2
        <5>2. Attested(t, c)' <=> Attested(t, c)
          BY <5>1 DEF Attested
        <5>. QED BY <2>1, <5>1, <5>2 DEF SameAttested
      <4>. QED BY <4>1, <4>2
    <3>. QED BY <1>3, <1>4, <1>7, <3>5
             DEF SameAttested, pythonVars, Py!Attested, Py!RecordsOf
  <2>3. CASE s.action # "attest"
    <3>1. atts' = atts
      BY <1>11, <2>3
    <3>2. ASSUME NEW t \in Tcerts \ ambiguous, NEW c \in Tcerts
          PROVE  /\ Py!Attested(t, c) <=> Attested(t, c)
                 /\ Attested(t, c) => RecordOf(t, c, atts[t][c]) \in pyAtts
      BY <1>7, <2>1, <2>3 DEF SameAttested
    <3>. QED BY <1>3, <1>4, <1>7, <3>1, <3>2
             DEF SameAttested, pythonVars, Attested, Py!Attested, Py!RecordsOf
  <2>. QED BY <2>2, <2>3
<1>. QED BY <1>9, <1>10, <1>12, <1>13, <1>14, <1>15
         DEF Correspondence

LEMMA NextCorresponds ==
  ASSUME CoresTypeOK, Correspondence, Next
  PROVE  Correspondence'
<1>1. SameConfiguration
  BY DEF Correspondence
<1>2. CASE Finish
  BY <1>2, FinishCorresponds
<1>3. CASE Aside
  BY <1>3, AsideCorresponds
<1>4. ASSUME inflight = {}, NEW job \in Jobs, Handed(job)
      PROVE  Correspondence'
  BY <1>4, HandedCorresponds
<1>. QED BY <1>1, <1>2, <1>3, <1>4, OperateIsAsideOrHanded DEF Next

(* After any history the stores of the two devices are well typed and      *)
(* correspond: equal configurations, revoked keys and blocks, the same     *)
(* TCerts revoked, up to the statement in flight; and the same attested,   *)
(* for every TCert of which no ambiguous attestation was imported.         *)
THEOREM CoresCorrespond == Spec => [](CoresTypeOK /\ Correspondence)
<1>1. Init => CoresTypeOK /\ Correspondence
  BY InitType, InitCorresponds
<1>2. CoresTypeOK /\ Correspondence /\ [Next]_vars
        => (CoresTypeOK /\ Correspondence)'
  <2> SUFFICES ASSUME CoresTypeOK, Correspondence, [Next]_vars
               PROVE  (CoresTypeOK /\ Correspondence)'
    OBVIOUS
  <2>1. CASE Next
    <3>1. SameConfiguration
      BY DEF Correspondence
    <3>. QED BY <2>1, <3>1, NextType, NextCorresponds
  <2>2. CASE UNCHANGED vars
    <3>1. /\ UNCHANGED <<certs, docs, pinned, cas, distrusted, atts>>
          /\ UNCHANGED <<revTcert, revKey, revAtt, blocked, history>>
          /\ UNCHANGED <<inflight, ops, pythonVars, ambiguous>>
      BY <2>2 DEF vars, deviceVars, storeVars, trustVars, revVars
    <3>2. CoresTypeOK'
      BY <3>1 DEF CoresTypeOK, DeviceTypeOK, Py!PyTypeOK, pythonVars
    <3>3. Aside
      BY <3>1 DEF Aside, pythonVars, Correspondence, SameConfiguration
    <3>. QED BY <3>2, <3>3, AsideCorresponds
  <2>. QED BY <2>1, <2>2
<1>. QED BY <1>1, <1>2, PTL DEF Spec

-----------------------------------------------------------------------------
(* What each core answers when no statement is in flight.                  *)

LEMMA AtRestCorresponds ==
  ASSUME CoresTypeOK, Correspondence, AtRest
  PROVE  /\ SameConfiguration
         /\ pyRevKey = revKey
         /\ pyBlocked = blocked
         /\ \A t \in Tcerts :
              /\ pyRevTcert[t] = {} <=> revTcert[t] = {}
              /\ ~TwoRevokers(t)
                   => pyRevTcert[t] = {Unsigned(e) : e \in revTcert[t]}
         /\ \A t \in Tcerts \ ambiguous, ca \in Tcerts :
              /\ Py!Attested(t, ca) <=> Attested(t, ca)
              /\ Attested(t, ca) => RecordOf(t, ca, atts[t][ca]) \in pyAtts
<1>1. ASSUME NEW x, NEW action PROVE ~Pending(action, x)
  BY DEF Pending, AtRest
<1>2. ASSUME NEW t, NEW ca PROVE ~Attesting(t, ca)
  BY DEF Attesting, AtRest
<1>3. pyRevKey = revKey
  BY <1>1 DEF Correspondence, SameKeys, CoresTypeOK, DeviceTypeOK, Py!PyTypeOK
<1>4. pyBlocked = blocked
  BY <1>1 DEF Correspondence, SameBlocks, CoresTypeOK, DeviceTypeOK,
              Py!PyTypeOK
<1>5. ASSUME NEW t \in Tcerts
      PROVE  /\ pyRevTcert[t] = {} <=> revTcert[t] = {}
             /\ ~TwoRevokers(t)
                  => pyRevTcert[t] = {Unsigned(e) : e \in revTcert[t]}
  BY <1>1 DEF Correspondence, SameRevoked
<1>6. \A t \in Tcerts \ ambiguous, ca \in Tcerts :
        /\ Py!Attested(t, ca) <=> Attested(t, ca)
        /\ Attested(t, ca) => RecordOf(t, ca, atts[t][ca]) \in pyAtts
  BY <1>2 DEF Correspondence, SameAttested
<1>. QED BY <1>3, <1>4, <1>5, <1>6 DEF Correspondence

LEMMA TrustedCaAgrees ==
  ASSUME CoresTypeOK, Correspondence, AtRest, NEW ca \in Tcerts
  PROVE  Py!IsTrustedCa(ca) <=> /\ ca \notin distrusted
                                /\ revTcert[ca] = {}
                                /\ ca \in pinned \/ ca \in cas
BY AtRestCorresponds DEF Py!IsTrustedCa, SameConfiguration

(* Authority over a TCert and its documents does not depend on which core  *)
(* the holder runs, as long as no ambiguous attestation of it was imported *)
(* (isAuthorizedCa, is_authorized_ca).                                     *)
THEOREM CoresAgreeOnAuthority == Spec => []AuthorityAgrees
<1>1. CoresTypeOK /\ Correspondence => AuthorityAgrees
  <2> SUFFICES ASSUME CoresTypeOK, Correspondence, AtRest,
                      NEW k \in Keys, NEW t \in Tcerts \ ambiguous
               PROVE  MayActOn(k, t) <=> Py!MayActOn(k, t)
    BY DEF AuthorityAgrees
  <2>1. ASSUME NEW ca \in Tcerts
        PROVE  /\ Py!Attested(t, ca) <=> Attested(t, ca)
               /\ Py!Held(ca) <=> Held(ca)
    BY AtRestCorresponds DEF Py!Held, Held, SameConfiguration
  <2>2. pyRevKey = revKey
    BY AtRestCorresponds
  <2>3. IsAuthorizedCa(k, t) <=> Py!IsAuthorizedCa(k, t)
    BY <2>1, <2>2, TrustedCaAgrees DEF IsAuthorizedCa, Py!IsAuthorizedCa
  <2>. QED BY <2>3 DEF MayActOn, Py!MayActOn
<1>. QED BY <1>1, CoresCorrespond, PTL

LEMMA TrustCarriesOver ==
  ASSUME CoresTypeOK, Correspondence, AtRest,
         NEW t \in Tcerts \ ambiguous, NEW ca \in Tcerts, CarriesTrust(t, ca)
  PROVE  \E a \in pyAtts : a.target = t /\ Py!IsValidAttestation(a)
<1> DEFINE a == RecordOf(t, ca, atts[t][ca])
<1>1. a \in pyAtts
  BY AtRestCorresponds DEF CarriesTrust
<1>2. a.target = t /\ a.ca = ca /\ a.hash = atts[t][ca]
  BY DEF RecordOf
<1>3. pyCerts = certs /\ pyRevKey = revKey
  BY AtRestCorresponds DEF SameConfiguration
<1> HIDE DEF a
<1>4. Py!IsTrustedCa(a.ca)
  BY <1>2, TrustedCaAgrees DEF CarriesTrust
<1>5. Py!IsValidAttestation(a)
  BY <1>2, <1>3, <1>4 DEF Py!IsValidAttestation, CarriesTrust, Held, Py!Held
<1>. QED BY <1>1, <1>2, <1>5

(* The Python core trusts at least what the TypeScript core trusts, as     *)
(* long as no ambiguous attestation of it was imported, and the two refuse *)
(* the same TCerts (resolveTrust, resolve_trust).                          *)
THEOREM PythonTrustsNoLess == Spec => []TrustIsNeverNarrower
<1>1. CoresTypeOK /\ Correspondence => TrustIsNeverNarrower
  <2> SUFFICES ASSUME CoresTypeOK, Correspondence, AtRest,
                      NEW t \in Tcerts
               PROVE  /\ ResolveTrust(t) = "valid" /\ t \notin ambiguous
                           => Py!ResolveTrust(t) = "valid"
                      /\ ResolveTrust(t) = "invalid"
                            <=> Py!ResolveTrust(t) = "invalid"
    BY DEF TrustIsNeverNarrower
  <2>1. pyDistrusted = distrusted /\ pyPinned = pinned
    BY DEF Correspondence, SameConfiguration
  <2>2. t \notin ambiguous /\ (\E ca \in Tcerts : CarriesTrust(t, ca))
          => \E a \in pyAtts : a.target = t /\ Py!IsValidAttestation(a)
    BY TrustCarriesOver
  <2>. QED BY <2>1, <2>2 DEF ResolveTrust, Py!ResolveTrust
<1>. QED BY <1>1, CoresCorrespond, PTL

LEMMA TrustComesBack ==
  ASSUME CoresTypeOK, Correspondence, AtRest,
         NEW t \in Tcerts, ~DivergesFor(t),
         NEW a \in pyAtts, a.target = t, Py!IsValidAttestation(a)
  PROVE  \E ca \in Tcerts : CarriesTrust(t, ca)
<1>1. a.ca \in Tcerts /\ a = RecordOf(a.target, a.ca, a.hash)
  BY DEF CoresTypeOK, Py!PyTypeOK, Py!Records, RecordOf
<1> DEFINE ca == a.ca
           r == RecordOf(t, ca, atts[t][ca])
<1>2. Py!Attested(t, ca) /\ t \notin ambiguous
  BY DEF Py!Attested, Py!RecordsOf, DivergesFor
<1>3. Attested(t, ca) /\ r \in pyAtts
  BY <1>1, <1>2, AtRestCorresponds
<1>4. a = r
  <2>1. r.target = t /\ r.ca = ca
    BY DEF RecordOf
  <2>. QED BY <1>1, <1>3, <2>1 DEF DivergesFor, Py!RecordsOf
<1>5. a.hash = atts[t][ca]
  BY <1>1, <1>4 DEF RecordOf
<1>6. pyCerts = certs /\ pyRevKey = revKey
  BY AtRestCorresponds DEF SameConfiguration
<1>7. <<t, ca>> \notin revAtt
  BY <1>1 DEF DivergesFor
<1>8. ca \notin distrusted /\ revTcert[ca] = {} /\ (ca \in pinned \/ ca \in cas)
  BY <1>1, TrustedCaAgrees DEF Py!IsValidAttestation
<1>9. CarriesTrust(t, ca)
  BY <1>3, <1>5, <1>6, <1>7, <1>8
     DEF Py!IsValidAttestation, Py!Held, Held, CarriesTrust
<1>. QED BY <1>1, <1>9

LEMMA RevocationAgrees ==
  ASSUME CoresTypeOK, Correspondence, AtRest, NEW d \in Sdocs,
         ~TwoRevokers(IssuerOf[d])
  PROVE  CheckRevocation(d) = Py!CheckRevocation(d)
<1> DEFINE t == IssuerOf[d]
           n == IssuedAt[d]
           refused == \E e \in pyRevTcert[t] : \/ e.type = "retrospective"
                                               \/ n >= e.issuedAt
<1>1. t \in Tcerts /\ n \in Nat
  BY DeviceAssumption
<1>2. /\ pyRevKey = revKey /\ pyBlocked = blocked
      /\ pyRevTcert[t] = {} <=> revTcert[t] = {}
      /\ pyRevTcert[t] = {Unsigned(e) : e \in revTcert[t]}
  BY <1>1, AtRestCorresponds
<1>3. ASSUME revTcert[t] # {} PROVE RefusedBy(revTcert[t], n) <=> refused
  <2>1. PICK u : pyRevTcert[t] = {u}
    BY <1>1, <1>2, <1>3 DEF CoresTypeOK, Py!PyTypeOK
  <2>2. ASSUME NEW e \in revTcert[t]
        PROVE  e.type = u.type /\ e.issuedAt = u.issuedAt
    <3>1. Unsigned(e) = u
      BY <1>2, <2>1
    <3>. QED BY <3>1 DEF Unsigned
  <2>3. PICK one \in revTcert[t] : TRUE
    BY <1>3
  <2>4. RefusedBy(revTcert[t], n) <=> u.type = "retrospective" \/ n >= u.issuedAt
    BY <2>2, <2>3 DEF RefusedBy
  <2>. QED BY <2>1, <2>4
<1>. QED BY <1>2, <1>3 DEF CheckRevocation, Py!CheckRevocation

(* Both cores come to the same judgement of every document, at any time,   *)
(* unless an ambiguous attestation of the issuer was imported, a CA        *)
(* withdrew its attestation of it or attested two bodies of it, or two     *)
(* keys revoked it (verify, verify).                                       *)
THEOREM CoresJudgeAlike == Spec => []JudgementsAgree
<1>1. CoresTypeOK /\ Correspondence => JudgementsAgree
  <2> SUFFICES ASSUME CoresTypeOK, Correspondence, AtRest,
                      NEW d \in Sdocs, NEW now \in Clock,
                      ~DivergesFor(IssuerOf[d])
               PROVE  Judge(d, now) = Py!Judge(d, now)
    BY DEF JudgementsAgree
  <2> DEFINE t == IssuerOf[d]
  <2>1. t \in Tcerts
    BY DeviceAssumption
  <2>2. pyCerts = certs /\ pyDistrusted = distrusted /\ pyPinned = pinned
    BY DEF Correspondence, SameConfiguration
  <2>3. (\E ca \in Tcerts : CarriesTrust(t, ca))
          <=> \E a \in pyAtts : a.target = t /\ Py!IsValidAttestation(a)
    BY <2>1, TrustCarriesOver, TrustComesBack DEF DivergesFor
  <2>4. ResolveTrust(t) = Py!ResolveTrust(t)
    BY <2>2, <2>3 DEF ResolveTrust, Py!ResolveTrust
  <2>5. CheckRevocation(d) = Py!CheckRevocation(d)
    BY RevocationAgrees DEF DivergesFor
  <2>6. Unread = Py!Unread
    BY DEF Unread, Py!Unread
  <2>. QED BY <2>2, <2>4, <2>5, <2>6 DEF Judge, Py!Judge
<1>. QED BY <1>1, CoresCorrespond, PTL

-----------------------------------------------------------------------------
(* The engines: what they make of a value is a value.                      *)

Numbers == [kind: {"number"}, ticks: Int, exp: Exponents, float: BOOLEAN]

\* A value of a kind is a record of that kind.
LEMMA ValueShape ==
  ASSUME NEW v \in Values
  PROVE  /\ v.kind = "text" =>
              v \in [kind: {"text"}, points: Nat, composed: Nat, astral: Nat,
                     pad: Nat]
         /\ v.kind = "number" => v \in Numbers
         /\ v.kind = "point" => v \in [kind: {"point"}, at: Int]
         /\ v.kind \in {"date", "datetime", "epoch"} =>
              v \in [kind: {"date", "datetime", "epoch"}, at: Int,
                     loose: BOOLEAN]
         /\ v.kind # "bigint" /\ v.kind # "digits"
<1>1. FirstDay..LastDay \subseteq Int /\ Minutes \subseteq Int
  BY FieldsAssumption DEF Minutes
<1>. QED BY <1>1 DEF Values, Numbers

\* The rounded number is a number.
LEMMA RoundingTyped ==
  ASSUME NEW n \in Int
  PROVE  RoundAway(n) \in Int /\ RoundUp(n) \in Int /\ RoundEven(n) \in Int
BY DEF RoundAway, RoundUp, RoundEven

LEMMA ShorteningTyped ==
  ASSUME NEW v \in Numbers, v.exp # 0
  PROVE  Shortened(v) \in Numbers
<1>1. v.exp \in Nat
  BY DEF Numbers, Exponents
<1>2. v.exp \div 100 \in Nat /\ v.exp \div 10 \in Nat
  BY <1>1
<1> DEFINE e == TrimmedExponent(v.exp)
<1>3. e \in Nat
  BY <1>1, <1>2 DEF TrimmedExponent
<1> HIDE DEF e
<1>4. 10 ^ e \in Int
  BY <1>3
<1>5. v.ticks * 10 ^ e \in Int
  BY <1>4 DEF Numbers
<1>6. Shortened(v) = IF e < 21 THEN [v EXCEPT !.ticks = v.ticks * 10 ^ e, !.exp = 0]
                     ELSE [v EXCEPT !.exp = e]
  BY DEF Shortened, e, Numbers
<1>7. ASSUME NEW n \in Int, NEW x \in Exponents
      PROVE  /\ [v EXCEPT !.ticks = n, !.exp = x] \in Numbers
             /\ [v EXCEPT !.exp = x] \in Numbers
  BY DEF Numbers
<1>8. CASE e < 21
  <2>1. 0 \in Exponents
    BY DEF Exponents
  <2>. QED BY <1>5, <1>6, <1>7, <1>8, <2>1
<1>9. CASE ~(e < 21)
  <2>1. e \in Exponents
    BY <1>3, <1>9 DEF Exponents
  <2>. QED BY <1>5, <1>6, <1>7, <1>9, <2>1
<1>. QED BY <1>8, <1>9

LEMMA DecimalTyped ==
  ASSUME NEW core \in Cores, NEW v \in Numbers
  PROVE  CanonicalDecimal(core, v) \in Numbers
<1>1. CASE v.exp = 0
  <2>1. RoundAway(v.ticks) \in Int /\ RoundEven(v.ticks) \in Int
    BY RoundingTyped DEF Numbers
  <2>. QED BY <1>1, <2>1 DEF CanonicalDecimal, Numbers
<1>2. CASE v.exp # 0
  <2>1. Shortened(v) \in Numbers
    BY <1>2, ShorteningTyped
  <2>2. [Shortened(v) EXCEPT !.float = TRUE] \in Numbers
        /\ [v EXCEPT !.float = TRUE] \in Numbers
    BY <2>1 DEF Numbers
  <2>. QED BY <1>2, <2>2 DEF CanonicalDecimal
<1>. QED BY <1>1, <1>2

\* The stored form of an accepted value is a value of the same kind.
LEMMA EncodeTyped ==
  ASSUME NEW core \in Cores, NEW f \in SchemaFields, NEW v \in Values,
         Accepts(core, f, v)
  PROVE  Encode(core, f, v) \in Values
<1>1. CASE f.type \in {"text", "textarea"}
  <2>1. v \in [kind: {"text"}, points: Nat, composed: Nat, astral: Nat,
               pad: Nat]
    BY <1>1, ValueShape DEF Accepts, AcceptsText, SchemaFields, DateKind
  <2>2. Normalize(v)
          \in [kind: {"text"}, points: Nat, composed: Nat, astral: Nat,
               pad: Nat]
    BY <2>1 DEF Normalize
  <2>. QED BY <1>1, <2>2 DEF Encode, Values
<1>2. CASE f.type = "number"
  <2>1. v \in Numbers
    BY <1>2, ValueShape DEF Accepts, AcceptsNumber, DateKind
  <2>2. CanonicalDecimal(core, v) \in Numbers
    BY <2>1, DecimalTyped
  <2>3. [v EXCEPT !.float = FALSE] \in Numbers
    BY <2>1 DEF Numbers
  <2>4. Encode(core, f, v) \in Numbers
    BY <1>2, <2>1, <2>2, <2>3 DEF Encode, EncodeNumber
  <2>. QED BY <2>4 DEF Numbers, Values
<1>3. CASE f.type = "location"
  <2>1. v \in [kind: {"point"}, at: Int]
    BY <1>3, ValueShape DEF Accepts, DateKind
  <2>2. [v EXCEPT !.at = IF core = "ts" THEN RoundUp(@) ELSE RoundEven(@)]
          \in [kind: {"point"}, at: Int]
    BY <2>1, RoundingTyped
  <2>. QED BY <1>3, <2>2 DEF Encode, Values
<1>4. CASE f.type \notin {"text", "textarea", "number", "location"}
  BY <1>4 DEF Encode
<1>. QED BY <1>1, <1>2, <1>3, <1>4

\* What a value is written as is never taken for a missing answer.
LEMMA WrittenTyped ==
  ASSUME NEW core \in Cores, NEW v \in Values
  PROVE  Written(core, v) \in Values \cup Digits
<1>1. CASE v.kind = "number"
  <2>1. v \in Numbers
    BY <1>1, ValueShape
  <2>2. (core = "python" /\ v.float /\ v.exp = 0 /\ IsWhole(v)) \in BOOLEAN
    OBVIOUS
  <2>. QED BY <1>1, <2>1, <2>2 DEF Written, Digits, Numbers
<1>2. CASE v.kind # "number"
  BY <1>2, ValueShape DEF Written
<1>. QED BY <1>1, <1>2

LEMMA SignedTyped ==
  ASSUME NEW n \in Int, NEW half \in Int
  PROVE  Signed(n, half) \in Int
BY DEF Signed

\* A number that was read is written with digits.
LEMMA ReadNumberTyped ==
  ASSUME NEW core \in Cores, NEW reader \in Cores, NEW v \in Numbers
  PROVE  Written(core, Decoded(reader, v)) \in Digits
<1>1. Signed(v.ticks, Half) \in Int
  BY SignedTyped, FieldsAssumption DEF Numbers
<1>2. Decoded(reader, v)
        \in [kind: {"number", "bigint"}, ticks: Int, exp: Exponents,
            float: BOOLEAN]
  BY <1>1 DEF Decoded, Numbers
<1> DEFINE e == Decoded(reader, v)
<1>3. (core = "python" /\ e.float /\ e.exp = 0 /\ IsWhole(e)) \in BOOLEAN
  OBVIOUS
<1> HIDE DEF e
<1>. QED BY <1>2, <1>3 DEF Written, Digits, e

LEMMA StatesTyped ==
  ASSUME NEW core, NEW f, NEW e, NEW env
  PROVE  FieldState(core, f, e, env) \in FieldStates
BY DEF FieldState, FieldStates

-----------------------------------------------------------------------------
(* Issuing.                                                                *)

\* What is stored is a value, or nothing.
LEMMA StoredTyped ==
  ASSUME IssuedAsEntered, doc # NoDocument, NEW i \in DOMAIN doc.schema,
         doc.stored[i] # Omitted
  PROVE  /\ doc.entries[i] \in Values
         /\ doc.schema[i] \in SchemaFields
         /\ ~IsStripped(doc.schema[i])
         /\ Accepts(doc.issuer, doc.schema[i], doc.entries[i])
         /\ doc.stored[i] = Encode(doc.issuer, doc.schema[i], doc.entries[i])
         /\ doc.stored[i] \in Values
<1>1. /\ doc.schema[i] \in SchemaFields
      /\ doc.entries[i] \in Values \cup {Omitted}
      /\ MayEnter(doc.issuer, doc.schema[i], doc.entries[i])
      /\ doc.stored[i] = Stored(doc.issuer, doc.schema[i], doc.entries[i])
      /\ doc.issuer \in Cores
  BY DEF IssuedAsEntered
<1>2. /\ doc.entries[i] # Omitted /\ ~IsStripped(doc.schema[i])
      /\ doc.stored[i] = Encode(doc.issuer, doc.schema[i], doc.entries[i])
  BY <1>1 DEF Stored
<1>3. Accepts(doc.issuer, doc.schema[i], doc.entries[i])
  BY <1>1, <1>2 DEF MayEnter
<1>4. doc.stored[i] \in Values
  BY <1>1, <1>2, <1>3, EncodeTyped
<1>. QED BY <1>1, <1>2, <1>3, <1>4

\* A default is a value or nothing.
LEMMA EntryTyped ==
  ASSUME NEW f \in SchemaFields, NEW v \in Values \cup {Omitted},
         NEW now \in Clocks
  PROVE  Entry(f, v, now) \in Values \cup {Omitted}
<1>1. DayOf(now) \in FirstDay..LastDay /\ now \in Minutes
  BY DocumentsAssumption
<1>2. [kind |-> IF f.type = "date" THEN "date" ELSE "datetime",
       at |-> IF f.type = "date" THEN DayOf(now) ELSE now, loose |-> FALSE]
        \in [kind: {"date"}, at: FirstDay..LastDay, loose: BOOLEAN]
              \cup [kind: {"datetime"}, at: Minutes, loose: BOOLEAN]
  BY <1>1
<1>3. f.default \in Values \cup {Omitted, Now}
  BY DEF SchemaFields
<1>4. Default(f, now) \in Values \cup {Omitted}
  <2>1. CASE f.default # Now
    BY <1>3, <2>1 DEF Default
  <2>2. CASE f.default = Now
    <3>1. Default(f, now)
            = [kind |-> IF f.type = "date" THEN "date" ELSE "datetime",
               at |-> IF f.type = "date" THEN DayOf(now) ELSE now,
               loose |-> FALSE]
      BY <2>2 DEF Default
    <3>. QED BY <3>1, <1>2 DEF Values
  <2>. QED BY <2>1, <2>2
<1>. QED BY <1>4 DEF Entry

\* issueSdoc signs what was entered.
LEMMA IssueSound ==
  ASSUME NEW core \in Cores, NEW form \in Forms, NEW now \in Clocks,
         IssueDocument(core, form, now)
  PROVE  IssuedAsEntered'
<1>1. /\ form.schema \in Seq(SchemaFields)
      /\ form.values \in Seq(Values \cup {Omitted})
      /\ Len(form.values) = Len(form.schema)
      /\ now \in Nat
  BY DocumentsAssumption
<1> DEFINE entries == [i \in DOMAIN form.schema |->
                         Entry(form.schema[i], form.values[i], now)]
<1>2. /\ doc'.schema = form.schema /\ doc'.issuer = core
      /\ doc'.entries = entries
      /\ \A i \in DOMAIN form.schema :
           /\ MayEnter(core, form.schema[i], entries[i])
           /\ doc'.stored[i] = Stored(core, form.schema[i], entries[i])
           /\ doc'.secrets[i] = Secret(core, form.schema[i], entries[i])
  BY DEF IssueDocument
<1>3. ASSUME NEW i \in DOMAIN form.schema
      PROVE  entries[i] \in Values \cup {Omitted}
  <2>1. form.schema[i] \in SchemaFields
        /\ form.values[i] \in Values \cup {Omitted}
    BY <1>1
  <2>. QED BY <1>1, <2>1, EntryTyped
<1>4. entries \in [DOMAIN form.schema -> Values \cup {Omitted}]
  BY <1>3
<1>. QED BY <1>1, <1>2, <1>4 DEF IssuedAsEntered

-----------------------------------------------------------------------------
(* Verifying.                                                              *)

\* The answers that may be given are answers.
LEMMA AnswersTyped ==
  ASSUME IssuedAsEntered, doc # NoDocument, Position \in DOMAIN doc.schema,
         NEW answer \in Answers
  PROVE  answer \in Heard
<1>1. /\ doc.entries[Position] \in Values \cup {Omitted}
      /\ doc.stored[Position] \in Values \cup {Omitted}
  BY StoredTyped DEF IssuedAsEntered
<1>2. CASE answer \in {NoAnswer} \cup Guesses
  BY <1>2, DocumentsAssumption DEF NoAnswer, Heard
<1>3. CASE answer \notin {NoAnswer} \cup Guesses
  <2> DEFINE entered ==
               {doc.entries[Position], doc.stored[Position]} \ {Omitted}
  <2>1. \A v \in entered : v \in Values
    BY <1>1
  <2>2. CASE \E core \in Cores, v \in entered : answer = Written(core, v)
    BY <2>1, <2>2, WrittenTyped DEF Heard
  <2>3. CASE \E core, reader \in Cores, v \in entered :
               v.kind = "number" /\ answer = Written(core, Decoded(reader, v))
    BY <2>1, <2>3, ValueShape, ReadNumberTyped DEF Heard
  <2>. QED BY <1>3, <2>2, <2>3 DEF Answers
<1>. QED BY <1>2, <1>3

\* Only the place, the time and the zone of a verification are looked at.
LEMMA SameJudgement ==
  ASSUME NEW i, UNCHANGED doc,
         check'.heard[i] = check.heard[i], check'.core = check.core,
         check'.now = check.now, check'.offset = check.offset,
         check'.place = check.place
  PROVE  Judgement(i)' = Judgement(i)
<1>1. ASSUME NEW f, NEW e
      PROVE  FieldState(check'.core, f, e, check')
               = FieldState(check.core, f, e, check)
  BY DEF FieldState, DateHolds
<1>. QED BY <1>1 DEF Judgement

LEMMA BeginsSound ==
  ASSUME DocumentInvariant, NEW core \in Cores, NEW now \in Clocks,
         NEW offset \in Offsets, NEW place \in Places \cup {NoPlace},
         BeginVerification(core, now, offset, place)
  PROVE  DocumentInvariant'
<1>1. /\ check' = [NotRunning EXCEPT !.pc = "secrets", !.core = core,
                      !.now = now, !.offset = offset, !.place = place]
      /\ doc' = doc /\ doc # NoDocument
  BY DEF BeginVerification
<1>2. now \in Nat /\ offset \in Int
  BY DocumentsAssumption
<1>3. CheckTypeOK'
  <2>1. <<>> \in Seq(Heard) /\ <<>> \in Seq(FieldStates)
    OBVIOUS
  <2>2. check' = [pc |-> "secrets", core |-> core, now |-> now,
                  offset |-> offset, place |-> place, heard |-> <<>>,
                  states |-> <<>>, cryptographic |-> "cannotVerify",
                  schema |-> "cannotVerify", context |-> "satisfied"]
    BY <1>1 DEF NotRunning
  <2>3. "cannotVerify" \in FieldStates
    BY DEF FieldStates
  <2>4. check' \in [pc: {"idle", "secrets", "fields", "done"}, core: Cores,
                   now: Nat, offset: Int, place: Places \cup {NoPlace},
                   heard: Seq(Heard), states: Seq(FieldStates),
                   cryptographic: FieldStates, schema: FieldStates,
                   context: {"satisfied", "missing"}]
    BY <1>2, <2>1, <2>2, <2>3
  <2>. QED BY <1>1, <2>4 DEF CheckTypeOK
<1>4. CheckProgress'
  <2>1. doc.schema \in Seq(SchemaFields)
    BY <1>1 DEF DocumentInvariant, IssuedAsEntered
  <2>. QED BY <1>1, <2>1 DEF CheckProgress, NotRunning
<1>5. IssuedAsEntered'
  BY <1>1 DEF DocumentInvariant, IssuedAsEntered
<1>. QED BY <1>3, <1>4, <1>5 DEF DocumentInvariant

\* Every prompt is recorded at the position of its field.
LEMMA SecretsSound ==
  ASSUME DocumentInvariant, NEW answer \in Heard, Reached("secrets"),
         check' = [check EXCEPT !.heard = Append(@, answer)], doc' = doc
  PROVE  DocumentInvariant'
<1> USE DEF DocumentInvariant
<1>1. doc.schema \in Seq(SchemaFields) /\ doc # NoDocument
  BY DEF Reached, CheckTypeOK, IssuedAsEntered
<1>2. /\ check.heard \in Seq(Heard) /\ check.pc = "secrets"
      /\ Len(check.heard) + 1 <= Len(doc.schema)
  BY DEF Reached, CheckTypeOK, Position
<1>3. Append(check.heard, answer) \in Seq(Heard)
      /\ Len(Append(check.heard, answer)) = Len(check.heard) + 1
  BY <1>2
<1>4. CheckTypeOK'
  BY <1>3 DEF CheckTypeOK
<1>5. CheckProgress'
  BY <1>1, <1>2, <1>3 DEF CheckProgress, CheckTypeOK
<1>6. IssuedAsEntered'
  BY DEF IssuedAsEntered
<1>. QED BY <1>4, <1>5, <1>6

LEMMA SignatureSound ==
  ASSUME DocumentInvariant, CheckSignature
  PROVE  DocumentInvariant'
<1> USE DEF DocumentInvariant
<1>1. /\ doc' = doc /\ doc # NoDocument
      /\ doc.schema \in Seq(SchemaFields)
      /\ check.pc = "secrets" /\ check.states = <<>>
      /\ Len(check.heard) = Len(doc.schema)
      /\ check.context = "satisfied" /\ check.cryptographic = "cannotVerify"
  BY DEF CheckSignature, CheckTypeOK, CheckProgress, IssuedAsEntered, Position
<1>2. IssuedAsEntered'
  BY <1>1 DEF IssuedAsEntered
<1>3. CASE \E i \in AskedFor : check.heard[i] = NoAnswer
  <2>1. check' = [check EXCEPT !.context = "missing", !.pc = "done"]
    BY <1>3 DEF CheckSignature
  <2>2. CheckTypeOK'
    BY <1>1, <2>1 DEF CheckTypeOK
  <2>3. CheckProgress'
    BY <1>1, <1>3, <2>1 DEF CheckProgress, CheckTypeOK, StoppedEarly, AskedFor
  <2>. QED BY <1>2, <2>2, <2>3
<1>4. CASE /\ ~\E i \in AskedFor : check.heard[i] = NoAnswer
           /\ SignatureHolds(check.heard)
  <2>1. check' = [check EXCEPT !.cryptographic = "valid", !.schema = "valid",
                               !.pc = "fields"]
    BY <1>4 DEF CheckSignature
  <2>2. CheckTypeOK'
    BY <1>1, <2>1 DEF CheckTypeOK, FieldStates
  <2>3. JudgedSoFar'
    <3>1. /\ check'.heard = check.heard /\ check'.states = <<>>
          /\ check'.schema = "valid" /\ check'.context = "satisfied"
      BY <1>1, <2>1 DEF CheckTypeOK
    <3>2. SignatureHolds(check.heard)'
      BY <1>1, <1>4, <3>1 DEF SignatureHolds, AskedFor
    <3>. QED
      BY <1>1, <1>4, <3>1, <3>2 DEF JudgedSoFar, AskedFor, SignatureHolds
  <2>4. CheckProgress'
    BY <2>1, <2>3 DEF CheckProgress, CheckTypeOK
  <2>. QED BY <1>2, <2>2, <2>4
<1>5. CASE /\ ~\E i \in AskedFor : check.heard[i] = NoAnswer
           /\ ~SignatureHolds(check.heard)
  <2>1. check' = [check EXCEPT !.cryptographic = "invalid", !.pc = "done"]
    BY <1>5 DEF CheckSignature
  <2>2. CheckTypeOK'
    BY <1>1, <2>1 DEF CheckTypeOK, FieldStates
  <2>3. CheckProgress'
    BY <1>1, <1>5, <2>1
    DEF CheckProgress, CheckTypeOK, StoppedEarly, SignatureHolds, AskedFor
  <2>. QED BY <1>2, <2>2, <2>3
<1>. QED BY <1>3, <1>4, <1>5

\* The verdict on a field joins those before it, which it leaves alone.
LEMMA FieldSound ==
  ASSUME DocumentInvariant, Reached("fields"), NEW heard \in Seq(Heard),
         Len(heard) = Len(check.heard), NEW p, p = Position,
         \A i \in DOMAIN heard :
           i # p \/ IsStripped(Field) => heard[i] = check.heard[i],
         NEW state, Record(heard, state), state = Judgement(p)'
  PROVE  DocumentInvariant'
<1> USE DEF DocumentInvariant
<1>1. /\ doc' = doc /\ doc # NoDocument
      /\ doc.schema \in Seq(SchemaFields)
      /\ check.pc = "fields" /\ check.cryptographic = "valid"
      /\ JudgedSoFar
  BY DEF Reached, Record, CheckTypeOK, CheckProgress, IssuedAsEntered
<1>2. /\ check.states \in Seq(FieldStates)
      /\ Position = Len(check.states) + 1
      /\ Len(check.states) + 1 <= Len(doc.schema)
  BY <1>1 DEF Reached, CheckTypeOK, Position
<1>3. check' = [check EXCEPT
                  !.heard = heard,
                  !.states = Append(check.states, state),
                  !.schema = IF state = "invalid" THEN "invalid"
                             ELSE check.schema,
                  !.context = IF state = "cannotVerify" THEN "missing"
                              ELSE check.context]
  BY DEF Record
<1>4. state \in FieldStates
  BY StatesTyped DEF Judgement, FieldStates
<1>5. /\ Append(check.states, state) \in Seq(FieldStates)
      /\ Len(Append(check.states, state)) = Len(check.states) + 1
      /\ \A i \in DOMAIN check.states :
           Append(check.states, state)[i] = check.states[i]
      /\ Append(check.states, state)[Len(check.states) + 1] = state
  BY <1>2, <1>4
<1>6. CheckTypeOK'
  BY <1>1, <1>3, <1>4, <1>5 DEF CheckTypeOK, FieldStates
<1>7. IssuedAsEntered'
  BY <1>1 DEF IssuedAsEntered
<1>8. /\ check'.heard = heard
      /\ check'.states = Append(check.states, state)
      /\ UNCHANGED <<check.pc, check.core, check.now, check.offset,
                     check.place, check.cryptographic>>
      /\ check'.schema = IF state = "invalid" THEN "invalid" ELSE check.schema
      /\ check'.context = IF state = "cannotVerify" THEN "missing"
                          ELSE check.context
  BY <1>3 DEF CheckTypeOK
<1>9. JudgedSoFar'
  <2>1. \A i \in AskedFor : heard[i] = check.heard[i]
    <3>1. ASSUME NEW i \in AskedFor PROVE heard[i] = check.heard[i]
      <4>1. i \in DOMAIN heard
        BY <1>1 DEF AskedFor, JudgedSoFar
      <4>2. i = p => IsStripped(Field)
        BY DEF AskedFor, Field
      <4>. QED BY <4>1, <4>2
    <3>. QED BY <3>1
  <2>2. ASSUME NEW i \in DOMAIN check'.states
        PROVE  check'.states[i] = Judgement(i)'
    <3>1. CASE i = p
      BY <1>2, <1>5, <1>8, <3>1
    <3>2. CASE i # p
      <4>1. i \in DOMAIN check.states /\ check'.states[i] = check.states[i]
        BY <1>2, <1>5, <1>8, <3>2
      <4>2. i \in DOMAIN heard
        BY <1>1, <1>2, <4>1 DEF JudgedSoFar, CheckTypeOK
      <4>3. heard[i] = check.heard[i]
        BY <3>2, <4>2
      <4>4. Judgement(i)' = Judgement(i)
        BY <1>1, <1>8, <4>3, SameJudgement
      <4>. QED BY <1>1, <4>1, <4>4 DEF JudgedSoFar
    <3>. QED BY <3>1, <3>2
  <2>3. SignatureHolds(check.heard)'
    BY <1>1, <1>8, <2>1 DEF JudgedSoFar, SignatureHolds, AskedFor
  <2>4. \A i \in AskedFor' : check'.heard[i] # NoAnswer
    BY <1>1, <1>8, <2>1 DEF JudgedSoFar, AskedFor
  <2>5. DOMAIN check'.states = DOMAIN check.states \cup {Position}
    BY <1>2, <1>5, <1>8
  <2>6. check'.states[Position] = state
        /\ \A i \in DOMAIN check.states : check'.states[i] = check.states[i]
    BY <1>2, <1>5, <1>8
  <2>7. check'.schema =
          IF \E i \in DOMAIN check'.states : check'.states[i] = "invalid"
          THEN "invalid" ELSE "valid"
    BY <1>1, <1>8, <2>5, <2>6 DEF JudgedSoFar
  <2>8. check'.context =
          IF \E i \in DOMAIN check'.states : check'.states[i] = "cannotVerify"
          THEN "missing" ELSE "satisfied"
    BY <1>1, <1>8, <2>5, <2>6 DEF JudgedSoFar
  <2>9. Len(check'.heard) = Len(doc.schema)
        /\ Len(check'.states) <= Len(doc.schema)
    BY <1>1, <1>2, <1>5, <1>8 DEF JudgedSoFar
  <2>. QED
    BY <1>1, <2>2, <2>3, <2>4, <2>7, <2>8, <2>9 DEF JudgedSoFar
<1>10. CheckProgress'
  BY <1>1, <1>8, <1>9 DEF CheckProgress
<1>. QED BY <1>6, <1>7, <1>10
-----------------------------------------------------------------------------
\* What the actions do to the document and to the verification.
LEMMA DocumentStep ==
  ASSUME DocumentInvariant, [DocumentNext]_documentVars
  PROVE  DocumentInvariant'
<1> USE DEF DocumentInvariant
<1>1. CASE \E core \in Cores, form \in Forms, now \in Clocks :
             IssueDocument(core, form, now)
  <2>1. PICK core \in Cores, form \in Forms, now \in Clocks :
               IssueDocument(core, form, now)
    BY <1>1
  <2>2. check' = check /\ doc = NoDocument
    BY <2>1 DEF IssueDocument
  <2>3. check.pc = "idle"
    BY <2>2 DEF CheckTypeOK
  <2>4. IssuedAsEntered'
    BY <2>1, IssueSound
  <2>5. CheckTypeOK' /\ CheckProgress'
    BY <2>2, <2>3 DEF CheckTypeOK, CheckProgress
  <2>. QED BY <2>4, <2>5
<1>2. CASE \E core \in Cores, now \in Clocks, offset \in Offsets,
             place \in Places \cup {NoPlace} :
               BeginVerification(core, now, offset, place)
  BY <1>2, BeginsSound
<1>3. CASE Reached("secrets") /\ \E answer \in Answers : AskSecret(answer)
  <2>1. PICK answer \in Answers : AskSecret(answer)
    BY <1>3
  <2>2. doc # NoDocument /\ Position \in DOMAIN doc.schema
    BY <1>3 DEF Reached, Position, CheckTypeOK, IssuedAsEntered
  <2>3. answer \in Heard
    BY <2>2, AnswersTyped
  <2>4. /\ check' = [check EXCEPT !.heard = Append(@, answer)]
        /\ doc' = doc /\ Reached("secrets")
    BY <2>1 DEF AskSecret
  <2>. QED BY <2>3, <2>4, SecretsSound
<1>4. CASE NoSecret
  <2>1. /\ check' = [check EXCEPT !.heard = Append(@, NoAnswer)]
        /\ doc' = doc /\ Reached("secrets")
    BY <1>4 DEF NoSecret
  <2>2. NoAnswer \in Heard
    BY DEF NoAnswer, Heard
  <2>. QED BY <2>1, <2>2, SecretsSound
<1>5. CASE CheckSignature
  BY <1>5, SignatureSound
<1>p. PICK p : p = Position
  OBVIOUS
<1>6. ASSUME Reached("fields")
      PROVE  /\ doc # NoDocument /\ doc.schema \in Seq(SchemaFields)
             /\ p \in DOMAIN doc.schema /\ DOMAIN check.heard = DOMAIN doc.schema
             /\ check.heard \in Seq(Heard)
  <2>1. JudgedSoFar /\ doc # NoDocument
    BY <1>6 DEF Reached, CheckTypeOK, CheckProgress
  <2>. QED
    BY <1>p, <1>6, <2>1
    DEF Reached, Position, CheckTypeOK, IssuedAsEntered, JudgedSoFar
<1>7. CASE Reached("fields") /\ \E answer \in Answers : AskValue(answer)
  <2>1. PICK answer \in Answers : AskValue(answer)
    BY <1>7
  <2>2. answer \in Heard
    BY <1>p, <1>6, <1>7, AnswersTyped
  <2>h. PICK heard : heard = [check.heard EXCEPT ![p] = answer]
    OBVIOUS
  <2>s. PICK state : state = AnswerState(answer, doc.stored[p])
    OBVIOUS
  <2>3. heard \in Seq(Heard) /\ Len(heard) = Len(check.heard) /\ heard[p] = answer
        /\ \A i \in DOMAIN heard : i # p => heard[i] = check.heard[i]
    BY <1>6, <1>7, <2>2, <2>h
  <2>4. Record(heard, state) /\ Asked(Field, doc.stored[p])
    BY <1>p, <2>1, <2>h, <2>s DEF AskValue
  <2>5. ~IsStripped(Field)
    BY <2>4 DEF Asked, IsInline, IsStripped
  <2>6. state = Judgement(p)'
    <3>1. /\ check'.heard = heard /\ doc' = doc /\ check'.core = check.core
          /\ check'.now = check.now /\ check'.offset = check.offset
          /\ check'.place = check.place
      BY <2>4 DEF Record, CheckTypeOK
    <3>2. FieldState(check'.core, Field, doc.stored[p], check')
            = FieldState(check.core, Field, doc.stored[p], check)
      BY <3>1 DEF FieldState, DateHolds
    <3>. QED
      BY <1>p, <2>3, <2>4, <2>s, <3>1, <3>2
      DEF Judgement, AnswerState, Field, NoAnswer
  <2>. QED BY <1>p, <1>7, <2>3, <2>4, <2>5, <2>6, FieldSound
<1>8. CASE CheckField
  <2>1. Reached("fields")
    BY <1>p, <1>8 DEF CheckField
  <2>2. ~Asked(Field, doc.stored[p])
    BY <1>p, <1>8 DEF CheckField
  <2>3. PICK state :
          /\ Record(check.heard, state)
          /\ state = IF IsStripped(Field) THEN "valid"
                     ELSE IF doc.stored[p] = Omitted
                     THEN IF Field.required = "yes" THEN "invalid" ELSE "valid"
                     ELSE FieldState(check.core, Field, doc.stored[p], check)
    BY <1>p, <1>8 DEF CheckField
  <2>4. state = Judgement(p)'
    <3>1. /\ check'.heard = check.heard /\ doc' = doc /\ check'.core = check.core
          /\ check'.now = check.now /\ check'.offset = check.offset
          /\ check'.place = check.place
      BY <2>3 DEF Record, CheckTypeOK
    <3>2. FieldState(check'.core, Field, doc.stored[p], check')
            = FieldState(check.core, Field, doc.stored[p], check)
      BY <3>1 DEF FieldState, DateHolds
    <3>. QED BY <1>p, <2>2, <2>3, <3>1, <3>2 DEF Judgement, Field
  <2>5. check.heard \in Seq(Heard)
    BY <1>6, <2>1
  <2>. QED BY <1>p, <2>1, <2>3, <2>4, <2>5, FieldSound
<1>9. CASE FinishVerification
  <2>1. /\ doc' = doc /\ check' = [check EXCEPT !.pc = "done"]
        /\ check.pc = "fields" /\ Position > Len(doc.schema)
    BY <1>9 DEF FinishVerification
  <2>2. check.cryptographic = "valid" /\ JudgedSoFar
        /\ doc.schema \in Seq(SchemaFields)
    BY <2>1 DEF CheckProgress, CheckTypeOK, IssuedAsEntered
  <2>3. CheckTypeOK'
    BY <2>1 DEF CheckTypeOK
  <2>4. IssuedAsEntered'
    BY <2>1 DEF IssuedAsEntered
  <2>5. /\ check'.heard = check.heard /\ check'.states = check.states
        /\ check'.schema = check.schema /\ check'.context = check.context
        /\ check'.cryptographic = check.cryptographic
        /\ check'.core = check.core /\ check'.now = check.now
        /\ check'.offset = check.offset /\ check'.place = check.place
        /\ check'.pc = "done"
    BY <2>1 DEF CheckTypeOK
  <2>6. \A i : Judgement(i)' = Judgement(i)
    BY <2>1, <2>5, SameJudgement
  <2>7. JudgedSoFar'
    <3>1. SignatureHolds(check.heard)'
      BY <2>1, <2>2, <2>5 DEF JudgedSoFar, SignatureHolds, AskedFor
    <3>. QED BY <2>1, <2>2, <2>5, <2>6, <3>1 DEF JudgedSoFar, AskedFor
  <2>8. Len(check.states) = Len(doc.schema)
    BY <2>1, <2>2 DEF Position, JudgedSoFar, CheckTypeOK
  <2>9. CheckProgress'
    BY <2>1, <2>2, <2>5, <2>7, <2>8 DEF CheckProgress
  <2>. QED BY <2>3, <2>4, <2>9
<1>10. CASE UNCHANGED documentVars
  <2>1. doc' = doc /\ check' = check
    BY <1>10 DEF documentVars
  <2>2. \A i : Judgement(i)' = Judgement(i)
    BY <2>1, SameJudgement
  <2>3. JudgedSoFar' = JudgedSoFar /\ StoppedEarly' = StoppedEarly
    <3>1. SignatureHolds(check.heard)' = SignatureHolds(check.heard)
      BY <2>1 DEF SignatureHolds, AskedFor
    <3>. QED BY <2>1, <2>2, <3>1 DEF JudgedSoFar, StoppedEarly, AskedFor
  <2>. QED
    BY <2>1, <2>3 DEF IssuedAsEntered, CheckTypeOK, CheckProgress
<1>. QED
  BY <1>1, <1>2, <1>3, <1>4, <1>5, <1>7, <1>8, <1>9, <1>10 DEF DocumentNext

LEMMA DocumentInit_Invariant ==
  ASSUME DocumentInit
  PROVE  DocumentInvariant
<1>1. "cannotVerify" \in FieldStates /\ <<>> \in Seq(Heard)
      /\ <<>> \in Seq(FieldStates) /\ 0 \in Nat /\ 0 \in Int /\ "ts" \in Cores
  BY DEF FieldStates, Cores
<1>2. NotRunning \in [pc: {"idle", "secrets", "fields", "done"}, core: Cores,
                     now: Nat, offset: Int, place: Places \cup {NoPlace},
                     heard: Seq(Heard), states: Seq(FieldStates),
                     cryptographic: FieldStates, schema: FieldStates,
                     context: {"satisfied", "missing"}]
  BY <1>1 DEF NotRunning
<1>3. NotRunning.pc = "idle"
  BY DEF NotRunning
<1>. QED
  BY <1>2, <1>3
  DEF DocumentInit, DocumentInvariant, IssuedAsEntered, CheckTypeOK,
      CheckProgress

\* A verification that is in progress or over has the result that the fields
\* it has come to and the answers it has heard call for.
THEOREM DocumentInvariantHolds == DocumentSpec => []DocumentInvariant
<1>1. DocumentInit => DocumentInvariant
  BY DocumentInit_Invariant
<1>2. DocumentInvariant /\ [DocumentNext]_documentVars => DocumentInvariant'
  BY DocumentStep
<1>. QED BY <1>1, <1>2, PTL DEF DocumentSpec

THEOREM DocumentTypeOKHolds == DocumentSpec => []DocumentTypeOK
<1>1. ASSUME DocumentInvariant PROVE DocumentTypeOK
  <2>1. ASSUME doc # NoDocument, NEW i \in DOMAIN doc.schema
        PROVE  /\ doc.schema[i].type \in FieldTypes
               /\ IsStripped(doc.schema[i]) => doc.stored[i] = Omitted
               /\ ~IsStripped(doc.schema[i]) => doc.secrets[i] = Omitted
    <3>1. /\ doc.schema[i] \in SchemaFields
          /\ doc.stored[i] = Stored(doc.issuer, doc.schema[i], doc.entries[i])
          /\ doc.secrets[i] = Secret(doc.issuer, doc.schema[i], doc.entries[i])
      BY <1>1, <2>1 DEF DocumentInvariant, IssuedAsEntered
    <3>. QED BY <3>1 DEF SchemaFields, Stored, Secret
  <2>2. ASSUME check.pc # "idle"
        PROVE  /\ Len(check.states) <= Len(check.heard)
               /\ Len(check.heard) <= Len(doc.schema)
               /\ \A i \in DOMAIN check.states : check.states[i] \in FieldStates
    <3>1. /\ check.states \in Seq(FieldStates) /\ check.heard \in Seq(Heard)
          /\ doc.schema \in Seq(SchemaFields)
          /\ check.pc \in {"secrets", "fields", "done"}
      BY <1>1, <2>2 DEF DocumentInvariant, CheckTypeOK, IssuedAsEntered
    <3>2. CheckProgress
      BY <1>1 DEF DocumentInvariant
    <3>. QED BY <3>1, <3>2 DEF CheckProgress, JudgedSoFar, StoppedEarly
  <2>. QED
    BY <1>1, <2>1, <2>2
    DEF DocumentTypeOK, DocumentInvariant, IssuedAsEntered, CheckTypeOK
<1>. QED BY <1>1, DocumentInvariantHolds, PTL

\* Valid overall is valid in every field.
LEMMA AcceptedInFull ==
  ASSUME DocumentInvariant, Accepted
  PROVE  /\ doc # NoDocument
         /\ JudgedSoFar
         /\ DOMAIN check.states = DOMAIN doc.schema
         /\ \A i \in DOMAIN doc.schema : Judgement(i) = "valid"
<1>1. /\ check.pc = "done" /\ check.cryptographic = "valid"
      /\ check.schema = "valid" /\ check.context = "satisfied"
  BY DEF Accepted, Verdict, DocumentInvariant, CheckTypeOK, FieldStates
<1>2. /\ doc # NoDocument /\ JudgedSoFar
      /\ Len(check.states) = Len(doc.schema)
      /\ check.states \in Seq(FieldStates) /\ doc.schema \in Seq(SchemaFields)
  BY <1>1 DEF DocumentInvariant, CheckTypeOK, CheckProgress, IssuedAsEntered
<1>3. DOMAIN check.states = DOMAIN doc.schema
  BY <1>2
<1>4. \A i \in DOMAIN check.states : check.states[i] = "valid"
  <2>1. \A i \in DOMAIN check.states : check.states[i] \in FieldStates
    BY <1>2
  <2>2. \A i \in DOMAIN check.states :
          check.states[i] # "invalid" /\ check.states[i] # "cannotVerify"
    BY <1>1, <1>2 DEF JudgedSoFar
  <2>. QED BY <2>1, <2>2 DEF FieldStates
<1>. QED BY <1>2, <1>3, <1>4 DEF JudgedSoFar

\* Nobody has a document accepted who does not know its bound values.
THEOREM HolderKnewTheValuesHolds == DocumentSpec => []HolderKnewTheValues
<1>1. ASSUME DocumentInvariant PROVE HolderKnewTheValues
  <2>1. SUFFICES ASSUME Accepted, NEW i \in DOMAIN doc.schema
                 PROVE  /\ IsStripped(doc.schema[i]) =>
                             doc.secrets[i] # Omitted
                               /\ check.heard[i] = doc.secrets[i]
                        /\ Asked(doc.schema[i], doc.stored[i]) =>
                             Trim(check.heard[i])
                               = Presentable(check.core, doc.stored[i])
    BY DEF HolderKnewTheValues
  <2>2. JudgedSoFar /\ Judgement(i) = "valid"
    BY <1>1, <2>1, AcceptedInFull
  <2>3. IsStripped(doc.schema[i]) => i \in AskedFor
    BY DEF AskedFor
  <2>4. IsStripped(doc.schema[i]) =>
          doc.secrets[i] # Omitted /\ check.heard[i] = doc.secrets[i]
    BY <2>2, <2>3 DEF JudgedSoFar, SignatureHolds, NoAnswer
  <2>5. Asked(doc.schema[i], doc.stored[i]) =>
          Trim(check.heard[i]) = Presentable(check.core, doc.stored[i])
    BY <2>2 DEF Judgement
  <2>. QED BY <2>4, <2>5
<1>. QED BY <1>1, DocumentInvariantHolds, PTL

-----------------------------------------------------------------------------
(* A signed document can be verified.                                      *)

\* What is safe is safe when it is read.
LEMMA SafeReading ==
  ASSUME NEW n \in Int, IsSafe(n)
  PROVE  IsSafe(Signed(n, Half))
BY FieldsAssumption DEF IsSafe, Signed

\* A core reads its own numbers as numbers.
LEMMA NumberReading ==
  ASSUME NEW core \in Cores, NEW v \in Numbers,
         NEW e, e = EncodeNumber(core, v)
  PROVE  Decoded(core, e).kind = "number"
<1>1. CASE core = "python"
  <2>1. CanonicalDecimal(core, v) \in Numbers
    BY DecimalTyped
  <2>. QED BY <1>1, <2>1 DEF Decoded, EncodeNumber, Numbers
<1>2. CASE core = "ts" /\ IsWhole(v) /\ v.exp = 0 /\ IsSafe(v.ticks)
  <2>1. e = [v EXCEPT !.float = FALSE]
    BY <1>2 DEF EncodeNumber
  <2>2. e.kind = "number" /\ ~e.float /\ e.ticks = v.ticks
    BY <2>1 DEF Numbers
  <2>3. IsSafe(Signed(e.ticks, Half))
    BY <1>2, <2>2, SafeReading DEF Numbers
  <2>4. Decoded(core, e) = [e EXCEPT !.ticks = Signed(@, Half)]
    BY <1>2, <2>2, <2>3 DEF Decoded
  <2>. QED BY <2>1, <2>4 DEF Numbers
<1>3. CASE core = "ts" /\ ~(IsWhole(v) /\ v.exp = 0 /\ IsSafe(v.ticks))
  <2>1. e = CanonicalDecimal(core, v)
    BY <1>3 DEF EncodeNumber
  <2>2. e \in Numbers
    BY <2>1, DecimalTyped
  <2>3. e.float
    <3>1. CASE v.exp = 0
      BY <2>1, <3>1 DEF CanonicalDecimal, Numbers
    <3>2. CASE v.exp # 0
      <4>1. Shortened(v) \in Numbers
        BY <3>2, ShorteningTyped
      <4>2. e = [Shortened(v) EXCEPT !.float = TRUE]
        BY <1>3, <2>1, <3>2 DEF CanonicalDecimal
      <4>. QED BY <4>1, <4>2 DEF Numbers
    <3>. QED BY <3>1, <3>2
  <2>. QED BY <2>2, <2>3 DEF Decoded, Numbers
<1>. QED BY <1>1, <1>2, <1>3 DEF Cores

\* A value whose stored form is read as it was entered is accepted by the
\* core that accepted it.
LEMMA StoredFormAccepted ==
  ASSUME NEW core \in Cores, NEW f \in SchemaFields, NEW v \in Values,
         f.type # "location", Accepts(core, f, v),
         Written(core, Decoded(core, Encode(core, f, v))) = Written(core, v)
  PROVE  Accepts(core, f, Decoded(core, Encode(core, f, v)))
<1>1. CASE f.type \in {"text", "textarea"}
  <2>1. v \in [kind: {"text"}, points: Nat, composed: Nat, astral: Nat,
               pad: Nat]
    BY <1>1, ValueShape DEF Accepts, AcceptsText, DateKind
  <2>2. Encode(core, f, v) = Normalize(v) /\ Normalize(v).kind = "text"
    BY <1>1, <2>1 DEF Encode, Normalize
  <2>3. Decoded(core, Encode(core, f, v)) = Normalize(v)
    BY <2>2 DEF Decoded
  <2>4. Decoded(core, Encode(core, f, v)) = v
    BY <2>1, <2>2, <2>3 DEF Written
  <2>. QED BY <2>4
<1>2. CASE f.type = "number"
  <2> DEFINE e == Decoded(core, Encode(core, f, v))
  <2>1. v \in Numbers
    BY <1>2, ValueShape DEF Accepts, AcceptsNumber, DateKind
  <2>2. e.kind = "number"
    BY <1>2, <2>1, NumberReading DEF Encode
  <2>3. e.ticks = v.ticks /\ e.exp = v.exp
    <3>. HIDE DEF e
    <3>. QED BY <2>1, <2>2 DEF Written, Numbers, e
  <2>4. AcceptsNumber(f, v)
    BY <1>2 DEF Accepts, DateKind
  <2>5. AcceptsNumber(f, e)
    BY <2>1, <2>2, <2>3, <2>4 DEF AcceptsNumber
  <2>. QED BY <1>2, <2>5 DEF Accepts
<1>3. CASE f.type \notin {"text", "textarea", "number", "location"}
  <2>1. Encode(core, f, v) = v
    BY <1>3 DEF Encode
  <2>2. v.kind # "number"
    BY <1>3 DEF Accepts, AcceptsSecret, AcceptsSelect, AcceptsSelectV2,
                AcceptsDate, DateKind
  <2>3. CASE v.kind # "epoch"
    <3>1. Decoded(core, v) = v
      BY <2>2, <2>3 DEF Decoded
    <3>. QED BY <2>1, <3>1
  <2>4. CASE v.kind = "epoch"
    <3>1. Decoded(core, v).kind = "epoch"
      BY <2>4, ValueShape DEF Decoded
    <3>2. Written(core, Decoded(core, v)) = Decoded(core, v)
      BY <3>1 DEF Written
    <3>3. Written(core, v) = v
      BY <2>4 DEF Written
    <3>. QED BY <2>1, <3>2, <3>3
  <2>. QED BY <2>3, <2>4
<1>. QED BY <1>1, <1>2, <1>3

\* Without a rule of time and place, a document whose values are entered again
\* and stand as they were entered is valid to the core that signed it.
THEOREM SignedIsVerifiableHolds == DocumentSpec => []SignedIsVerifiable
<1>1. ASSUME DocumentInvariant PROVE SignedIsVerifiable
  <2> SUFFICES ASSUME check.pc = "done", check.core = doc.issuer, Reentered,
                      ~Contextual,
                      \A i \in AskedFor : doc.entries[i] # Omitted,
                      \A i \in DOMAIN doc.schema : InStoredForm(i)
               PROVE  Verdict = "valid"
    BY DEF SignedIsVerifiable
  <2>1. /\ doc # NoDocument /\ doc.issuer \in Cores
        /\ doc.schema \in Seq(SchemaFields) /\ IssuedAsEntered
        /\ CheckProgress /\ check.states \in Seq(FieldStates)
    BY <1>1 DEF DocumentInvariant, CheckTypeOK, IssuedAsEntered
  <2>2. ASSUME NEW i \in DOMAIN doc.schema
        PROVE  /\ doc.schema[i] \in SchemaFields
               /\ doc.entries[i] \in Values \cup {Omitted}
               /\ MayEnter(doc.issuer, doc.schema[i], doc.entries[i])
               /\ doc.stored[i]
                    = Stored(doc.issuer, doc.schema[i], doc.entries[i])
               /\ doc.secrets[i]
                    = Secret(doc.issuer, doc.schema[i], doc.entries[i])
    BY <2>1 DEF IssuedAsEntered
  <2>3. ASSUME NEW v \in Values PROVE Written(doc.issuer, v) # Omitted
    BY <2>1, WrittenTyped, DocumentsAssumption
  <2>4. ASSUME NEW i \in AskedFor
        PROVE  check.heard[i] = doc.secrets[i] /\ check.heard[i] # NoAnswer
    <3>1. i \in DOMAIN doc.schema /\ IsStripped(doc.schema[i])
          /\ doc.entries[i] # Omitted
      BY DEF AskedFor
    <3>2. doc.entries[i] \in Values
      BY <2>2, <3>1
    <3>3. doc.secrets[i] = Written(doc.issuer, doc.entries[i])
      BY <2>2, <3>1 DEF Secret
    <3>4. check.heard[i] = Written(doc.issuer, doc.entries[i])
      BY <3>1 DEF Reentered, IsStripped
    <3>. QED BY <2>3, <3>2, <3>3, <3>4 DEF NoAnswer
  <2>5. check.cryptographic = "valid" /\ JudgedSoFar
        /\ Len(check.states) = Len(doc.schema)
    BY <2>1, <2>4 DEF CheckProgress, StoppedEarly, SignatureHolds
  <2>6. ASSUME NEW i \in DOMAIN doc.schema
        PROVE  Judgement(i) = "valid"
    <3> DEFINE f == doc.schema[i]
               e == doc.stored[i]
               v == doc.entries[i]
    <3>1. f.type # "location" /\ f.rules = <<>>
      BY DEF Contextual
    <3>2. CASE IsStripped(f)
      <4>1. ~Asked(f, e)
        BY <3>2 DEF Asked, IsInline, IsStripped
      <4>. QED BY <3>2, <4>1 DEF Judgement
    <3>3. CASE ~IsStripped(f) /\ e = Omitted
      <4>1. v = Omitted
        <5>1. SUFFICES ASSUME v # Omitted PROVE FALSE
          OBVIOUS
        <5>2. Accepts(doc.issuer, f, v) /\ v \in Values
          BY <2>2, <5>1 DEF MayEnter
        <5>3. Encode(doc.issuer, f, v) \in Values
          BY <2>1, <2>2, <5>2, EncodeTyped
        <5>4. e = Encode(doc.issuer, f, v)
          BY <2>2, <3>3, <5>1 DEF Stored
        <5>. QED BY <3>3, <5>3, <5>4, DocumentsAssumption
      <4>2. f.required # "yes"
        BY <2>2, <4>1 DEF MayEnter
      <4>. QED BY <3>3, <4>2 DEF Judgement, Asked
    <3>4. CASE ~IsStripped(f) /\ e # Omitted
      <4>1. /\ v \in Values /\ e = Encode(doc.issuer, f, v)
            /\ Accepts(doc.issuer, f, v) /\ v # Omitted
        BY <2>2, <3>4 DEF Stored, MayEnter
      <4>2. Written(doc.issuer, Decoded(doc.issuer, e))
              = Written(doc.issuer, v)
        BY <4>1 DEF InStoredForm
      <4>3. Accepts(doc.issuer, f, Decoded(doc.issuer, e))
        BY <2>1, <2>2, <3>1, <4>1, <4>2, StoredFormAccepted
      <4>4. DateHolds(doc.issuer, f, Decoded(doc.issuer, e), check)
        <5>. HIDE DEF e
        <5>. QED BY <3>1 DEF DateHolds, DateRulesHold
      <4>5. FieldState(check.core, f, e, check) = "valid"
        BY <3>1, <4>3, <4>4 DEF FieldState
      <4>6. Asked(f, e) => Trim(check.heard[i]) = Presentable(check.core, e)
                             /\ check.heard[i] # NoAnswer
        BY <2>3, <4>1, <4>2
        DEF Asked, IsInline, Reentered, NoAnswer, Presentable
      <4>. QED BY <3>4, <4>5, <4>6 DEF Judgement
    <3>. QED BY <3>2, <3>3, <3>4
  <2>7. \A i \in DOMAIN check.states : check.states[i] = "valid"
    <3>1. DOMAIN check.states = DOMAIN doc.schema
      BY <2>1, <2>5
    <3>. QED BY <2>5, <2>6, <3>1 DEF JudgedSoFar
  <2>8. check.schema = "valid" /\ check.context = "satisfied"
    BY <2>5, <2>7 DEF JudgedSoFar
  <2>. QED BY <2>5, <2>8 DEF Verdict
<1>. QED BY <1>1, DocumentInvariantHolds, PTL

-----------------------------------------------------------------------------
(* The two cores.                                                          *)

LEMMA StoredShape ==
  ASSUME DocumentInvariant, doc # NoDocument, NEW i \in DOMAIN doc.schema,
         doc.stored[i] # Omitted
  PROVE  /\ doc.stored[i] \in Values /\ doc.schema[i] \in SchemaFields
         /\ doc.schema[i].type \in DOMAIN DateKind =>
              /\ doc.stored[i].kind = DateKind[doc.schema[i].type]
              /\ doc.stored[i].at \in Int
         /\ doc.schema[i].type = "secretInput" =>
              /\ doc.stored[i].points \in Nat /\ doc.stored[i].astral \in Nat
              /\ doc.stored[i].pad \in Nat
         /\ doc.schema[i].type \notin {"number", "datetimeEpoch"} =>
              Decoded("ts", doc.stored[i]) = doc.stored[i]
<1> DEFINE f == doc.schema[i]
           e == doc.stored[i]
<1>1. /\ doc.entries[i] \in Values /\ f \in SchemaFields
      /\ Accepts(doc.issuer, f, doc.entries[i])
      /\ e = Encode(doc.issuer, f, doc.entries[i]) /\ e \in Values
  BY StoredTyped DEF DocumentInvariant
<1>2. ASSUME f.type \in DOMAIN DateKind
      PROVE  e.kind = DateKind[f.type] /\ e.at \in Int
  <2>1. f.type \in {"date", "datetime", "datetimeEpoch"}
    BY <1>2 DEF DateKind
  <2>2. e = doc.entries[i]
    BY <1>1, <2>1 DEF Encode
  <2>3. e.kind = DateKind[f.type]
    BY <1>1, <2>1, <2>2 DEF Accepts, AcceptsDate
  <2>4. e.kind \in {"date", "datetime", "epoch"}
    BY <2>1, <2>3 DEF DateKind
  <2>. QED BY <1>1, <2>3, <2>4, ValueShape
<1>3. ASSUME f.type = "secretInput"
      PROVE  e.points \in Nat /\ e.astral \in Nat /\ e.pad \in Nat
  <2>1. e = doc.entries[i]
    BY <1>1, <1>3 DEF Encode
  <2>2. e.kind = "text"
    BY <1>1, <1>3, <2>1 DEF Accepts, AcceptsSecret, DateKind
  <2>. QED BY <1>1, <2>2, ValueShape
<1>4. ASSUME f.type \notin {"number", "datetimeEpoch"}
      PROVE  Decoded("ts", e) = e
  <2> DEFINE v == doc.entries[i]
  <2>1. v.kind \notin {"number", "epoch"}
    BY <1>1, <1>4
    DEF Accepts, AcceptsText, AcceptsSecret, AcceptsSelect, AcceptsSelectV2,
        AcceptsDate, DateKind, SchemaFields, FieldTypes
  <2>2. CASE f.type \in {"text", "textarea"}
    <3>1. v.kind = "text"
      BY <1>1, <2>2 DEF Accepts, AcceptsText, DateKind
    <3>2. Normalize(v).kind = "text"
      BY <1>1, <3>1, ValueShape DEF Normalize
    <3>. QED BY <1>1, <2>2, <3>2 DEF Encode, Decoded
  <2>3. CASE f.type = "location"
    <3>1. v.kind = "point"
      BY <1>1, <2>3 DEF Accepts, DateKind
    <3>2. e.kind = "point"
      BY <1>1, <2>3, <3>1, ValueShape DEF Encode
    <3>. QED BY <3>2 DEF Decoded
  <2>4. CASE f.type \notin {"text", "textarea", "number", "location"}
    <3>1. e = v
      BY <1>1, <2>4 DEF Encode
    <3>. QED BY <2>1, <3>1 DEF Decoded
  <2>. QED BY <1>4, <2>2, <2>3, <2>4
<1>. QED BY <1>1, <1>2, <1>3, <1>4

\* Weekdays apart, a rule does not depend on the core.
LEMMA SameRule ==
  ASSUME NEW r, NEW x, r.kind # "day"
  PROVE  RuleHolds("ts", r, x) = RuleHolds("python", r, x)
BY DEF RuleHolds, AgeHolds

\* In UTC the time of the zone is the time.
LEMMA SameInput ==
  ASSUME NEW type, NEW e, e.at \in Int, NEW now \in Int
  PROVE  RuleInput("ts", type, e, now, 0) = RuleInput("python", type, e, now, 0)
<1>1. e.at + 0 = e.at /\ now + 0 = now
  OBVIOUS
<1>. QED BY <1>1 DEF RuleInput, ZoneTime

\* Both cores judge what is stored alike, but where they are known to differ.
THEOREM CoresAgreeHolds == DocumentSpec => []CoresAgree
<1>1. ASSUME DocumentInvariant PROVE CoresAgree
  <2> SUFFICES ASSUME check.pc = "done", check.offset = 0,
                      NEW i \in DOMAIN doc.schema, doc.stored[i] # Omitted,
                      ~Differs(doc.schema[i], doc.stored[i])
               PROVE  FieldState("ts", doc.schema[i], doc.stored[i], check)
                        = FieldState("python", doc.schema[i], doc.stored[i], check)
    BY DEF CoresAgree
  <2>1. PICK f, e : f = doc.schema[i] /\ e = doc.stored[i]
    OBVIOUS
  <2>2. doc # NoDocument /\ check.now \in Int
    BY <1>1 DEF DocumentInvariant, CheckTypeOK
  <2>3. /\ f \in SchemaFields
        /\ f.type \in DOMAIN DateKind => e.kind = DateKind[f.type] /\ e.at \in Int
        /\ f.type = "secretInput" =>
             e.points \in Nat /\ e.astral \in Nat /\ e.pad \in Nat
        /\ f.type \notin {"number", "datetimeEpoch"} => Decoded("ts", e) = e
    BY <1>1, <2>1, <2>2, StoredShape
  <2>4. Accepts("ts", f, e) = Accepts("python", f, e)
    <3>1. CASE f.type \in DOMAIN DateKind
      <4>1. ~e.loose
        BY <2>1, <2>3, <3>1 DEF Differs
      <4>2. AcceptsDate("ts", DateKind[f.type], e)
              = AcceptsDate("python", DateKind[f.type], e)
        BY <4>1 DEF AcceptsDate
      <4>. QED BY <3>1, <4>2 DEF Accepts, DateKind
    <3>2. CASE f.type = "secretInput"
      <4>1. e.astral = 0
        BY <2>1, <2>3, <3>2 DEF Differs
      <4>2. SecretLength("ts", e) = SecretLength("python", e)
        BY <2>3, <3>2, <4>1 DEF SecretLength, TextLength
      <4>. QED BY <3>2, <4>2 DEF Accepts, AcceptsSecret, DateKind
    <3>3. CASE f.type = "select"
      <4>1. f.ruleOptions # 0 \/ ~(f.options > 0)
        BY <2>1, <3>3 DEF Differs
      <4>2. f.options \in Nat
        BY <2>3 DEF SchemaFields
      <4>3. SelectOptions("ts", f) = SelectOptions("python", f)
        BY <4>1, <4>2 DEF SelectOptions
      <4>. QED BY <3>3, <4>3 DEF Accepts, AcceptsSelect, DateKind
    <3>4. CASE f.type = "attachment"
      BY <2>1, <3>4 DEF Differs
    <3>5. CASE f.type \notin DOMAIN DateKind \cup {"secretInput", "select",
                                                  "attachment"}
      BY <3>5 DEF Accepts
    <3>. QED BY <3>1, <3>2, <3>3, <3>4, <3>5
  <2>5. f.type \in DOMAIN DateKind =>
          DateHolds("ts", f, e, check) = DateHolds("python", f, e, check)
    <3>1. SUFFICES ASSUME f.type \in DOMAIN DateKind
                   PROVE  DateHolds("ts", f, e, check)
                            = DateHolds("python", f, e, check)
      OBVIOUS
    <3>2. \A j \in DOMAIN f.rules : f.rules[j].kind # "day"
      BY <2>1, <2>3, <3>1 DEF Differs
    <3>3. RuleInput("ts", f.type, e, check.now, check.offset)
            = RuleInput("python", f.type, e, check.now, check.offset)
      BY <2>2, <2>3, <3>1, SameInput
    <3>. QED BY <3>2, <3>3, SameRule DEF DateHolds, DateRulesHold
  <2>6. Decoded("ts", e) = e
    BY <2>1, <2>3 DEF Differs
  <2>7. Decoded("python", e) = e
    BY DEF Decoded
  <2>. QED BY <2>1, <2>4, <2>5, <2>6, <2>7 DEF FieldState
<1>. QED BY <1>1, DocumentInvariantHolds, PTL

-----------------------------------------------------------------------------
(* What the rules of a date mean.                                          *)

\* Day and night share the day: 06:00 to 17:59 is the second and the third
\* quarter.
LEMMA Quarters ==
  ASSUME NEW t \in Int
  PROVE  t \in 360..1079 <=> t \div 360 \in {1, 2}
OBVIOUS

LEMMA DayBefore ==
  ASSUME NEW d \in Int
  PROVE  (d + 6) % 7 = (d - 1) % 7
OBVIOUS

\* `lo < x' is `x > lo'.
LEMMA FlippedComparison ==
  ASSUME NEW a \in Int, NEW b \in Int, NEW op \in Orders
  PROVE  Compare(b, Flipped[op], a) <=> Compare(a, op, b)
BY DEF Compare, Flipped, Orders

\* What is compared is the order of two days.
LEMMA OrderedComparison ==
  ASSUME NEW a \in Int, NEW b \in Int, NEW op
  PROVE  Compare(Order(a, b), op, 0) <=> Compare(a, op, b)
BY DEF Compare, Order

LEMMA RuleShape ==
  ASSUME NEW r \in Rules
  PROVE  /\ r.kind = "window" =>
              r \in [kind: {"window"}, lo: Nat, lop: Orders, hop: Orders, hi: Nat]
         /\ r.kind = "daytime" => r.is \in {"day", "night"}
         /\ r.kind \in {"today", "day", "daytime", "window", "clock", "age",
                        "unknown"}
BY DEF Rules

\* The rule that a core evaluates is the rule that was written, of the same
\* day, time and age, with the weekday that the core takes.
LEMMA RuleMeaning ==
  ASSUME NEW core \in Cores, NEW r \in Rules, NEW x, NEW y,
         x.day \in Int, x.today \in Int, x.now \in Int,
         x.time \in Int \cup {NoTime}, x.epoch \in Int \cup {NoTime},
         y.time = x.time, y.today = x.today,
         y.age = IF x.epoch = NoTime THEN NoTime ELSE x.now - x.epoch,
         y.day = IF r.kind = "day"
                 THEN x.day - IF core = "python" THEN 1 ELSE 0 ELSE x.day
  PROVE  RuleHolds(core, r, x) <=> Meaning(r, y)
<1>1. CASE r.kind = "day"
  <2>1. y.day = x.day - IF core = "python" THEN 1 ELSE 0
    BY <1>1
  <2>2. Weekday(core, x.day) = y.day % 7
    BY <2>1, DayBefore DEF Weekday, Cores
  <2>. QED BY <1>1, <2>2 DEF RuleHolds, Meaning
<1>2. CASE r.kind = "window"
  <2>1. r.lo \in Int /\ r.lop \in Orders
    BY <1>2, RuleShape
  <2>2. x.time # NoTime =>
          (Compare(x.time, Flipped[r.lop], r.lo) <=> Compare(r.lo, r.lop, x.time))
    BY <2>1, FlippedComparison
  <2>. QED BY <1>2, <2>2 DEF RuleHolds, Meaning
<1>3. CASE r.kind = "daytime"
  <2>1. r.is \in {"day", "night"}
    BY <1>3, RuleShape
  <2>2. x.time # NoTime =>
          (x.time \in 360..1079 <=> x.time \div 360 \in {1, 2})
    BY Quarters
  <2>. QED BY <1>3, <2>1, <2>2 DEF RuleHolds, Meaning
<1>4. CASE r.kind = "age"
  <2>1. x.epoch # NoTime <=> y.age # NoTime
    <3>1. x.epoch # NoTime => x.now - x.epoch \in Int
      OBVIOUS
    <3>. QED BY <3>1, DocumentsAssumption
  <2>. QED BY <1>4, <2>1 DEF RuleHolds, Meaning, AgeHolds
<1>5. CASE r.kind = "today"
  <2>1. y.day = x.day
    BY <1>5
  <2>. QED BY <1>5, <2>1, OrderedComparison DEF RuleHolds, Meaning
<1>6. CASE r.kind = "clock"
  BY <1>6 DEF RuleHolds, Meaning
<1>7. CASE r.kind = "unknown"
  BY <1>7 DEF RuleHolds, Meaning
<1>. QED BY <1>1, <1>2, <1>3, <1>4, <1>5, <1>6, <1>7, RuleShape

\* What a date that reads as it was stored is in the rules.
InputOf(i) == RuleInput(check.core, doc.schema[i].type, doc.stored[i],
                        check.now, check.offset)

\* A date that has been judged is valid iff its rules hold of it.
LEMMA JudgedByRules ==
  ASSUME DocumentInvariant, NEW i \in JudgedDates
  PROVE  /\ i \in DOMAIN doc.schema /\ doc.stored[i].at \in Int
         /\ doc.schema[i] \in SchemaFields
         /\ doc.schema[i].type \in DOMAIN DateKind
         /\ check.states[i] = "valid"
              <=> DateRulesHold(check.core, doc.schema[i].rules, InputOf(i))
<1>1. /\ check.pc = "done" /\ i \in DOMAIN check.states
      /\ doc.schema[i].type \in DOMAIN DateKind
      /\ doc.stored[i] # Omitted /\ ~doc.stored[i].loose
      /\ ~IsBound(doc.schema[i])
      /\ Decoded(check.core, doc.stored[i]) = doc.stored[i]
  BY DEF JudgedDates
<1>2. /\ doc # NoDocument /\ doc.schema \in Seq(SchemaFields)
      /\ check.states \in Seq(FieldStates) /\ check.core \in Cores
  BY <1>1 DEF DocumentInvariant, CheckTypeOK, IssuedAsEntered
<1>3. JudgedSoFar
  <2>1. check.states # <<>>
    BY <1>1, <1>2
  <2>. QED BY <1>1, <2>1 DEF DocumentInvariant, CheckProgress
<1>4. i \in DOMAIN doc.schema /\ check.states[i] = Judgement(i)
  BY <1>1, <1>2, <1>3 DEF JudgedSoFar
<1>5. /\ doc.schema[i] \in SchemaFields
      /\ doc.stored[i].kind = DateKind[doc.schema[i].type]
      /\ doc.stored[i].at \in Int
  BY <1>1, <1>2, <1>4, StoredShape
<1>6. Judgement(i) = FieldState(check.core, doc.schema[i], doc.stored[i], check)
  BY <1>1 DEF Judgement, Asked, IsInline, IsStripped
<1>7. Accepts(check.core, doc.schema[i], doc.stored[i])
  BY <1>1, <1>5 DEF Accepts, AcceptsDate
<1>8. doc.schema[i].type # "location"
  BY <1>1 DEF DateKind
<1>9. Judgement(i) = "valid" <=> DateHolds(check.core, doc.schema[i],
                                           doc.stored[i], check)
  BY <1>1, <1>6, <1>7, <1>8 DEF FieldState
<1>. QED BY <1>1, <1>4, <1>5, <1>9 DEF DateHolds, InputOf

\* What a core puts into the rules is what the comments describe, with the
\* day and the time of an epoch in UTC.
LEMMA InputDescribed ==
  ASSUME DocumentInvariant, doc # NoDocument, NEW i, doc.stored[i].at \in Int,
         doc.schema[i].type \in {"date", "datetime", "datetimeEpoch"},
         NEW x, x = InputOf(i),
         NEW y, y = Described(i, IF doc.schema[i].type = "datetimeEpoch" THEN 0
                                 ELSE Zone, Zone)
  PROVE  /\ x.day \in Int /\ x.now \in Int /\ x.today \in Int
         /\ x.time \in Int \cup {NoTime} /\ x.epoch \in Int \cup {NoTime}
         /\ y.day = x.day /\ y.time = x.time /\ y.today = x.today
         /\ y.age = IF x.epoch = NoTime THEN NoTime ELSE x.now - x.epoch
         /\ y = [day |-> y.day, time |-> y.time, age |-> y.age,
                 today |-> y.today]
<1>1. /\ check.now \in Int /\ check.offset \in Int /\ check.core \in Cores
  BY DEF DocumentInvariant, CheckTypeOK
<1>2. /\ Zone \in Int
      /\ \A t \in Int : ZoneTime(check.core, t, check.offset) = t + Zone
  BY <1>1 DEF Zone, ZoneTime, Cores
<1> DEFINE at == doc.stored[i].at
           now == check.now
<1>3. (now + Zone) \div 1440 \in Int /\ (at + Zone) \div 1440 \in Int
      /\ (at + Zone) % 1440 \in Int /\ at \div 1440 \in Int
      /\ at % 1440 \in Int
  BY <1>1, <1>2
<1>4. DayOf(ZoneTime(check.core, check.now, check.offset))
        = (now + Zone) \div 1440
  BY <1>1, <1>2 DEF DayOf
<1>5. CASE doc.schema[i].type = "date"
  <2>1. x = [day |-> at, time |-> NoTime, epoch |-> NoTime, now |-> now,
             today |-> (now + Zone) \div 1440]
    BY <1>4, <1>5 DEF InputOf, RuleInput
  <2>2. y = [day |-> at, time |-> NoTime, age |-> NoTime,
             today |-> (now + Zone) \div 1440]
    BY <1>5 DEF Described
  <2>. QED BY <1>1, <1>3, <2>1, <2>2
<1>6. CASE doc.schema[i].type = "datetime"
  <2>1. x = [day |-> (at + Zone) \div 1440, time |-> (at + Zone) % 1440,
             epoch |-> at, now |-> now, today |-> (now + Zone) \div 1440]
    BY <1>2, <1>4, <1>6 DEF InputOf, RuleInput, DayOf, MinuteOf
  <2>2. y = [day |-> (at + Zone) \div 1440, time |-> (at + Zone) % 1440,
             age |-> now - at, today |-> (now + Zone) \div 1440]
    BY <1>6 DEF Described
  <2>3. at # NoTime
    BY DocumentsAssumption
  <2>. QED BY <1>1, <1>3, <2>1, <2>2, <2>3
<1>7. CASE doc.schema[i].type = "datetimeEpoch"
  <2>1. x = [day |-> at \div 1440, time |-> at % 1440,
             epoch |-> at, now |-> now, today |-> (now + Zone) \div 1440]
    BY <1>4, <1>7 DEF InputOf, RuleInput, DayOf, MinuteOf
  <2>2. at + 0 = at
    OBVIOUS
  <2>3. y = [day |-> at \div 1440, time |-> at % 1440,
             age |-> now - at, today |-> (now + Zone) \div 1440]
    BY <1>7, <2>2 DEF Described
  <2>4. at # NoTime
    BY DocumentsAssumption
  <2>. QED BY <1>1, <1>3, <2>1, <2>3, <2>4
<1>. QED BY <1>5, <1>6, <1>7

\* The verdict on a date is what the comments on date rules promise, but for
\* epochs, which are taken in UTC, and the weekdays of Python.
THEOREM DateRulesReadAsWrittenHolds == DocumentSpec => []DateRulesReadAsWritten
<1>1. ASSUME DocumentInvariant PROVE DateRulesReadAsWritten
  <2> DEFINE described(i) ==
               Described(i, IF doc.schema[i].type = "datetimeEpoch" THEN 0
                            ELSE Zone, Zone)
             before == IF check.core = "python" THEN 1 ELSE 0
  <2> SUFFICES ASSUME NEW i \in JudgedDates
               PROVE  ReadAs(i, described(i), before)
    BY DEF DateRulesReadAsWritten
  <2>1. /\ i \in DOMAIN doc.schema /\ doc.stored[i].at \in Int
        /\ doc.schema[i] \in SchemaFields
        /\ doc.schema[i].type \in {"date", "datetime", "datetimeEpoch"}
        /\ check.states[i] = "valid"
             <=> DateRulesHold(check.core, doc.schema[i].rules, InputOf(i))
    BY <1>1, JudgedByRules DEF DateKind
  <2>2. doc # NoDocument /\ check.core \in Cores
    BY <1>1 DEF DocumentInvariant, CheckTypeOK, JudgedDates
  <2>3. PICK x : x = InputOf(i)
    OBVIOUS
  <2>4. PICK y : y = described(i)
    OBVIOUS
  <2>5. /\ x.day \in Int /\ x.now \in Int /\ x.today \in Int
        /\ x.time \in Int \cup {NoTime} /\ x.epoch \in Int \cup {NoTime}
        /\ y.day = x.day /\ y.time = x.time /\ y.today = x.today
        /\ y.age = IF x.epoch = NoTime THEN NoTime ELSE x.now - x.epoch
        /\ y = [day |-> y.day, time |-> y.time, age |-> y.age,
                today |-> y.today]
    BY <1>1, <2>1, <2>2, <2>3, <2>4, InputDescribed
  <2>6. ASSUME NEW j \in DOMAIN doc.schema[i].rules
        PROVE  RuleHolds(check.core, doc.schema[i].rules[j], x)
                 <=> Meaning(doc.schema[i].rules[j],
                             IF doc.schema[i].rules[j].kind = "day"
                             THEN [y EXCEPT !.day = @ - before] ELSE y)
    <3>1. PICK r : r = doc.schema[i].rules[j]
      OBVIOUS
    <3>2. r \in Rules
      BY <2>1, <3>1 DEF SchemaFields
    <3>3. PICK z : z = IF r.kind = "day" THEN [y EXCEPT !.day = @ - before]
                       ELSE y
      OBVIOUS
    <3>4. /\ z.time = x.time /\ z.today = x.today
          /\ z.age = IF x.epoch = NoTime THEN NoTime ELSE x.now - x.epoch
          /\ z.day = IF r.kind = "day"
                     THEN x.day - IF check.core = "python" THEN 1 ELSE 0
                     ELSE x.day
      BY <2>5, <3>3
    <3>5. RuleHolds(check.core, r, x) <=> Meaning(r, z)
      BY <2>2, <2>5, <3>2, <3>4, RuleMeaning
    <3>. QED BY <3>1, <3>3, <3>5
  <2>. HIDE DEF described, before
  <2>. QED BY <2>1, <2>3, <2>4, <2>6 DEF ReadAs, DateRulesHold
<1>. QED BY <1>1, DocumentInvariantHolds, PTL

\* What is of this moment is of today, but for an epoch while it is another
\* day in UTC than here.
THEOREM NowIsTodayHolds == DocumentSpec => []NowIsToday
<1>1. ASSUME DocumentInvariant PROVE NowIsToday
  <2> SUFFICES ASSUME NEW i \in JudgedDates, OfThisMoment(i),
                      doc.schema[i].rules = <<[kind |-> "today", op |-> "=="]>>
               PROVE  check.states[i] = "valid" <=>
                        \/ doc.schema[i].type = "datetime"
                        \/ check.core = "python"
                        \/ DayOf(check.now + check.offset) = DayOf(check.now)
    BY DEF NowIsToday
  <2>1. /\ doc.stored[i].at \in Int
        /\ doc.schema[i].type \in {"date", "datetime", "datetimeEpoch"}
        /\ check.states[i] = "valid"
             <=> DateRulesHold(check.core, doc.schema[i].rules, InputOf(i))
    BY <1>1, JudgedByRules DEF DateKind
  <2>2. /\ check.core \in Cores /\ check.now \in Int /\ check.offset \in Int
    BY <1>1 DEF DocumentInvariant, CheckTypeOK
  <2>3. check.states[i] = "valid" <=> InputOf(i).day = InputOf(i).today
    <3>1. DOMAIN doc.schema[i].rules = {1}
          /\ doc.schema[i].rules[1].kind = "today"
          /\ doc.schema[i].rules[1].op = "=="
      OBVIOUS
    <3>. QED BY <2>1, <3>1 DEF DateRulesHold, RuleHolds, Compare, Order
  <2>4. InputOf(i).today = DayOf(ZoneTime(check.core, check.now, check.offset))
    BY DEF InputOf, RuleInput
  <2>5. CASE doc.schema[i].type = "date"
    <3>1. InputOf(i).day = DayOf(check.now)
      BY <2>5 DEF InputOf, RuleInput, OfThisMoment
    <3>. QED BY <2>2, <2>3, <2>4, <2>5, <3>1 DEF ZoneTime, Cores
  <2>6. CASE doc.schema[i].type = "datetime"
    <3>1. InputOf(i).day = DayOf(ZoneTime(check.core, check.now, check.offset))
      BY <2>6 DEF InputOf, RuleInput, OfThisMoment
    <3>. QED BY <2>3, <2>4, <2>6, <3>1
  <2>7. CASE doc.schema[i].type = "datetimeEpoch"
    <3>1. InputOf(i).day = DayOf(check.now)
      BY <2>7 DEF InputOf, RuleInput, OfThisMoment
    <3>. QED BY <2>2, <2>3, <2>4, <2>7, <3>1 DEF ZoneTime, Cores
  <2>. QED BY <2>1, <2>5, <2>6, <2>7
<1>. QED BY <1>1, DocumentInvariantHolds, PTL
=============================================================================
