------------------------- MODULE VerificationProofs -------------------------
(***************************************************************************)
(* The safety properties of Verification, for any number of concurrent     *)
(* verifications and any stores, parties, statements and documents.        *)
(***************************************************************************)
EXTENDS Verification, DeviceProofs

-----------------------------------------------------------------------------
(* Type correctness.                                                       *)

LEMMA UpdateType ==
  ASSUME TypeOK, NEW v \in Verifications, NEW STATE c, c \in Calls,
         Update(v, c)
  PROVE  TypeOK'
<1>1. run' \in [Verifications -> Calls]
  BY DEF TypeOK, Update
<1>2. UNCHANGED <<seen, deviceVars>>
  BY DEF Update
<1>3. DeviceTypeOK'
  BY <1>2 DEF TypeOK, DeviceTypeOK, deviceVars, storeVars, trustVars, revVars
<1>. QED BY <1>1, <1>2, <1>3 DEF TypeOK

LEMMA GotoType ==
  ASSUME TypeOK, NEW v \in Verifications, NEW STATE pc, pc \in Pcs,
         Goto(v, pc)
  PROVE  TypeOK'
<1> DEFINE c == [run[v] EXCEPT !.pc = pc]
<1>1. c \in Calls
  BY DEF TypeOK, Calls
<1>. QED BY <1>1, UpdateType DEF Goto

LEMMA ReturnType ==
  ASSUME TypeOK, NEW v \in Verifications, NEW STATE r, r \in Results,
         Return(v, r)
  PROVE  TypeOK'
<1> DEFINE c == [run[v] EXCEPT !.pc = "done", !.result = r]
<1>1. c \in Calls
  BY DEF TypeOK, Calls, Pcs
<1>. QED BY <1>1, UpdateType DEF Return

LEMMA NewCallType ==
  ASSUME NEW d \in Sdocs, NEW pc \in Pcs, NEW r \in Results
  PROVE  NewCall(d, pc, r) \in Calls
BY DEF NewCall, Calls

LEMMA NewCallSays ==
  ASSUME NEW d, NEW pc, NEW r
  PROVE  /\ NewCall(d, pc, r).pc = pc
         /\ NewCall(d, pc, r).doc = d
         /\ NewCall(d, pc, r).via = NoTcert
         /\ ~NewCall(d, pc, r).pinned
         /\ NewCall(d, pc, r).result = r
BY DEF NewCall

LEMMA NowType ==
  ASSUME DeviceTypeOK, NEW d \in Sdocs
  PROVE  Now(d) \in Seen
<1>1. /\ revAtt \subseteq Tcerts \X Tcerts
      /\ revKey \subseteq Keys
      /\ pinned \cup cas \subseteq Tcerts
  BY DEF DeviceTypeOK
<1>2. RetroRevoked(IssuerOf[d]) \in BOOLEAN
  BY DEF RetroRevoked
<1>. QED BY <1>1, <1>2 DEF Now, Seen, BoundContents

\* The same of the next state.
LEMMA NowTypeNext ==
  ASSUME DeviceTypeOK', NEW d \in Sdocs
  PROVE  Now(d)' \in Seen
<1>1. /\ revAtt' \subseteq Tcerts \X Tcerts
      /\ revKey' \subseteq Keys
      /\ pinned' \cup cas' \subseteq Tcerts
  BY DEF DeviceTypeOK
<1>2. RetroRevoked(IssuerOf[d])' \in BOOLEAN
  BY DEF RetroRevoked
<1>. QED BY <1>1, <1>2 DEF Now, Seen, BoundContents

LEMMA ExtendType ==
  ASSUME NEW h \in Seen, NEW n \in Seen
  PROVE  Extend(h, n) \in Seen
<1> DEFINE a == h.distrusted /\ n.distrusted
           b == h.retro /\ n.retro
           c == h.blocked /\ n.blocked
           d == h.pinned \/ n.pinned
           e == h.roots \cup n.roots
           f == h.bound \cup n.bound
<1>1. a \in BOOLEAN /\ b \in BOOLEAN /\ c \in BOOLEAN /\ d \in BOOLEAN
  OBVIOUS
<1>2. e \subseteq Tcerts /\ f \subseteq Contents
  BY DEF Seen
<1>3. Extend(h, n) = [h EXCEPT !.distrusted = a, !.retro = b, !.blocked = c,
                               !.pinned = d, !.roots = e, !.bound = f]
  BY DEF Extend
<1> HIDE DEF a, b, c, d, e, f
<1>. QED BY <1>1, <1>2, <1>3 DEF Seen

(* A result with one component set is a result.                            *)
LEMMA ResultType ==
  ASSUME NEW r \in Results, NEW x \in States,
         NEW y \in {"satisfied", "missing", "denied"}
  PROVE  /\ [r EXCEPT !.cryptographic = x] \in Results
         /\ [r EXCEPT !.tcert = x] \in Results
         /\ [r EXCEPT !.trust = x] \in Results
         /\ [r EXCEPT !.revocation = x] \in Results
         /\ [r EXCEPT !.schema = x] \in Results
         /\ [r EXCEPT !.context = y] \in Results
         /\ [r EXCEPT !.schema = x, !.context = y] \in Results
         /\ [r EXCEPT !.cryptographic = x, !.schema = x] \in Results
BY DEF Results

LEMMA EmptyResultType == EmptyResult \in Results
BY DEF EmptyResult, Results, States

(* Every step of verify keeps the state well typed.                        *)
LEMMA VerifyStepType ==
  ASSUME TypeOK, NEW v \in Verifications, VerifyStep(v)
  PROVE  TypeOK'
<1> DEFINE r == run[v].result
           t == Tcert(v)
<1>1. /\ run[v] \in Calls
      /\ r \in Results
      /\ t \in Tcerts
      /\ run[v].doc \in Sdocs
  BY DeviceAssumption DEF TypeOK, Calls, Tcert
<1>2. "valid" \in States /\ "invalid" \in States /\ "cannotVerify" \in States
  BY DEF States
<1> HIDE DEF r, t
<1>3. ASSUME NEW now \in Clock, ReadTcert(v, now) PROVE TypeOK'
  <2> DEFINE c == certs[t]
             n == [run[v] EXCEPT !.pc = "distrusted", !.content = c,
                                 !.result.tcert = "valid"]
  <2>1. c \in Contents \cup {NoContent}
    BY <1>1 DEF TypeOK, DeviceTypeOK
  <2>2. n \in Calls
    BY <1>1, <1>2, <2>1, ResultType DEF Calls, Pcs, r
  <2>3. \/ Update(v, n)
        \/ Return(v, r)
        \/ Return(v, [r EXCEPT !.tcert = "invalid"])
        \/ Return(v, [r EXCEPT !.schema = "invalid"])
    BY <1>3 DEF ReadTcert, r, t
  <2>. QED BY <1>1, <1>2, <2>2, <2>3, ResultType, UpdateType, ReturnType
<1>4. CASE ReadDistrusted(v)
  BY <1>1, <1>2, <1>4, ResultType, GotoType, ReturnType
  DEF ReadDistrusted, Pcs, r
<1>5. CASE ReadPinned(v)
  <2> DEFINE b == Tcert(v) \in pinned
             n == [run[v] EXCEPT !.pc = "attestations", !.pinned = b]
  <2>1. b \in BOOLEAN
    OBVIOUS
  <2> HIDE DEF b
  <2>2. n \in Calls
    BY <1>1, <2>1 DEF Calls, Pcs
  <2>3. Update(v, n)
    BY <1>5 DEF ReadPinned, b
  <2>. QED BY <2>2, <2>3, UpdateType
<1>6. CASE ReadAttestations(v)
  <2> DEFINE held == {[ca |-> ca, hash |-> atts[Tcert(v)][ca]] :
                        ca \in {x \in Tcerts : Attested(Tcert(v), x)}}
             n == [run[v] EXCEPT !.pc = "next", !.todo = held]
  <2>1. held \subseteq Attestations
    BY <1>1 DEF TypeOK, DeviceTypeOK, Attestations, t
  <2> HIDE DEF held
  <2>2. n \in Calls
    BY <1>1, <2>1 DEF Calls, Pcs
  <2>3. Update(v, n)
    BY <1>6 DEF ReadAttestations, held
  <2>. QED BY <2>2, <2>3, UpdateType
<1>7. CASE NextAttestation(v)
  <2>1. ASSUME NEW a \in run[v].todo,
               Update(v, [run[v] EXCEPT !.pc = "attestation", !.att = a,
                                        !.todo = @ \ {a}])
        PROVE  TypeOK'
    <3> DEFINE n == [run[v] EXCEPT !.pc = "attestation", !.att = a,
                                   !.todo = @ \ {a}]
    <3>1. n \in Calls
      BY <1>1 DEF Calls, Pcs, CaChecks
    <3>. QED BY <2>1, <3>1, UpdateType
  <2>2. ASSUME NEW x \in States,
               Update(v, [run[v] EXCEPT !.pc = "keyRevoked", !.att = NoAtt,
                                        !.result.trust = x])
        PROVE  TypeOK'
    <3> DEFINE n == [run[v] EXCEPT !.pc = "keyRevoked", !.att = NoAtt,
                                   !.result.trust = x]
    <3>1. n \in Calls
      BY <1>1, ResultType DEF Calls, Pcs, r
    <3>. QED BY <2>2, <3>1, UpdateType
  <2>. QED BY <1>2, <1>7, <2>1, <2>2 DEF NextAttestation
<1>8. ASSUME NEW pc \in Pcs, NEW ok \in BOOLEAN, NEW onward \in Pcs,
             CaCheck(v, pc, ok, onward)
      PROVE  TypeOK'
  BY <1>8, GotoType DEF CaCheck, Pcs
<1>9. CASE \/ ReadRevokedAttestation(v) \/ ReadCaTcert(v)
           \/ ReadCaDistrusted(v) \/ ReadCaRevoked(v)
           \/ ReadCaConfigured(v) \/ ReadCaKey(v)
  BY <1>8, <1>9
  DEF ReadRevokedAttestation, ReadCaTcert, ReadCaDistrusted, ReadCaRevoked,
      ReadCaConfigured, ReadCaKey, Pcs, CaChecks, CaCheck, Held
<1>10. CASE ReadCaPinned(v)
  BY <1>10, GotoType DEF ReadCaPinned, Pcs, CaChecks
<1>11. CASE ReadTarget(v)
  <2> DEFINE n == [run[v] EXCEPT !.pc = "keyRevoked", !.todo = {},
                     !.via = run[v].att.ca, !.result.trust = "valid"]
  <2>1. run[v].att.ca \in Tcerts \cup {NoTcert}
    BY <1>1 DEF Calls, Attestations, NoAtt
  <2>2. n \in Calls
    BY <1>1, <1>2, <2>1, ResultType DEF Calls, Pcs, r
  <2>. QED BY <1>11, <2>2, UpdateType, GotoType DEF ReadTarget, Pcs
<1>12. CASE ReadKeyRevoked(v)
  BY <1>1, <1>2, <1>12, ResultType, GotoType, ReturnType
  DEF ReadKeyRevoked, Pcs, r
<1>13. CASE ReadTcertRevoked(v) \/ ReadBlocked(v)
  <2> DEFINE n == [run[v] EXCEPT !.pc = "secrets",
                                 !.result.revocation = "valid"]
  <2>1. n \in Calls
    BY <1>1, <1>2, ResultType DEF Calls, Pcs, r
  <2>. QED
    BY <1>1, <1>2, <1>13, <2>1, ResultType, UpdateType, GotoType, ReturnType
    DEF ReadTcertRevoked, ReadBlocked, Pcs, r
<1>14. ASSUME NEW answer, CollectSecrets(v, answer) PROVE TypeOK'
  <2> DEFINE n == [run[v] EXCEPT !.pc = "fields",
               !.result.cryptographic = "valid", !.result.schema = "valid"]
  <2>1. n \in Calls
    BY <1>1, <1>2, ResultType DEF Calls, Pcs, Results, r
  <2>. QED
    BY <1>1, <1>2, <1>14, <2>1, ResultType, UpdateType, ReturnType
    DEF CollectSecrets, r
<1>15. ASSUME NEW x \in {"valid", "invalid"},
              NEW y \in {"satisfied", "missing", "denied"},
              CheckFields(v, x, y)
       PROVE  TypeOK'
  BY <1>1, <1>2, <1>15, ResultType, ReturnType DEF CheckFields, r
<1>. QED
  BY <1>3, <1>4, <1>5, <1>6, <1>7, <1>9, <1>10, <1>11, <1>12, <1>13, <1>14,
     <1>15
  DEF VerifyStep

LEMMA StartType ==
  ASSUME TypeOK, NEW v \in Verifications, NEW d \in Sdocs, Start(v, d)
  PROVE  TypeOK'
<1> DEFINE r == [EmptyResult EXCEPT !.cryptographic = "invalid"]
           c == IF d \in Malformed THEN NewCall(d, "done", r)
                ELSE NewCall(d, "tcert", EmptyResult)
<1>1. r \in Results
  BY DEF EmptyResult, Results, States
<1>2. c \in Calls
  BY <1>1, EmptyResultType, NewCallType DEF Pcs
<1>3. Now(d) \in Seen
  BY NowType DEF TypeOK
<1>4. /\ run' = [run EXCEPT ![v] = c]
      /\ seen' = [seen EXCEPT ![v] = Now(d)]
      /\ UNCHANGED deviceVars
  BY DEF Start
<1>5. DeviceTypeOK'
  BY <1>4 DEF TypeOK, DeviceTypeOK, deviceVars, storeVars, trustVars, revVars
<1> HIDE DEF r, c
<1>. QED BY <1>2, <1>3, <1>4, <1>5 DEF TypeOK

LEMMA OperateType ==
  ASSUME TypeOK, Operate
  PROVE  TypeOK'
<1>1. DeviceTypeOK'
  BY DeviceStepType DEF TypeOK, Operate
<1>2. run' \in [Verifications -> Calls]
  BY DEF TypeOK, Operate
<1>3. ASSUME NEW v \in Verifications PROVE seen'[v] \in Seen
  <2>1. run'[v].doc \in Sdocs /\ seen[v] \in Seen
    BY <1>2 DEF TypeOK, Calls
  <2>2. ASSUME NEW d \in Sdocs, d = run'[v].doc
        PROVE  Now(run[v].doc)' \in Seen
    <3>1. Now(d)' \in Seen
      BY <1>1, NowTypeNext
    <3>. QED BY <2>2, <3>1 DEF Now, BoundContents, RetroRevoked
  <2>3. Now(run[v].doc)' \in Seen
    BY <2>1, <2>2
  <2>. QED BY <2>1, <2>3, ExtendType DEF Operate
<1>4. seen' \in [Verifications -> Seen]
  BY <1>3 DEF Operate
<1>. QED BY <1>1, <1>2, <1>4 DEF TypeOK

LEMMA IdleType ==
  ASSUME NEW d \in Sdocs
  PROVE  Idle(d) \in Calls
BY EmptyResultType, NewCallType DEF Idle, Pcs

LEMMA NothingType == Nothing \in Seen
BY DEF Nothing, Seen

LEMMA StopType ==
  ASSUME TypeOK, NEW torn, Stop(torn)
  PROVE  TypeOK'
<1>1. DeviceTypeOK'
  BY RestartType DEF TypeOK, Stop
<1>2. \A v \in Verifications : run[v].doc \in Sdocs
  BY DEF TypeOK, Calls
<1>3. run' \in [Verifications -> Calls]
  BY <1>2, IdleType DEF Stop
<1>4. seen' \in [Verifications -> Seen]
  BY NothingType DEF Stop
<1>. QED BY <1>1, <1>3, <1>4 DEF TypeOK

LEMMA InitType == Init => TypeOK
BY DeviceInitType, IdleType, NothingType DEF Init, TypeOK

LEMMA NextType == TypeOK /\ [Next]_vars => TypeOK'
<1> SUFFICES ASSUME TypeOK, [Next]_vars PROVE TypeOK'
  OBVIOUS
<1>1. CASE UNCHANGED vars
  BY <1>1 DEF TypeOK, DeviceTypeOK, vars, deviceVars, storeVars, trustVars,
              revVars
<1>2. CASE Next
  BY <1>2, OperateType, StartType, VerifyStepType, StopType DEF Next
<1>. QED BY <1>1, <1>2

(* Every reachable state of the stores and of every verification is well   *)
(* typed: no operation, in any interleaving, stores something a reader     *)
(* does not expect.                                                        *)
THEOREM TypeInvariant == Spec => []TypeOK
BY InitType, NextType, PTL DEF Spec

-----------------------------------------------------------------------------
(* Revocations are kept, and local statements stay authorised.             *)

\* A step of one verification leaves the stores, the history and every other
\* verification alone; its document does not change.
LEMMA VerifyStepFrame ==
  ASSUME run \in [Verifications -> Calls],
         NEW v \in Verifications, VerifyStep(v)
  PROVE  /\ UNCHANGED <<deviceVars, seen>>
         /\ \A w \in Verifications \ {v} : run'[w] = run[w]
         /\ run'[v].doc = run[v].doc
         /\ Running(v)
<1> DEFINE Frame == /\ UNCHANGED <<deviceVars, seen>>
                    /\ \A w \in Verifications \ {v} : run'[w] = run[w]
                    /\ run'[v].doc = run[v].doc
<1>1. ASSUME NEW STATE c, Update(v, c), c.doc = run[v].doc PROVE Frame
  BY <1>1 DEF Update
<1>2. run[v] \in Calls
  OBVIOUS
<1>3. ASSUME NEW STATE pc, Goto(v, pc) PROVE Frame
  BY <1>1, <1>2, <1>3 DEF Goto, Calls
<1>4. ASSUME NEW STATE r, Return(v, r) PROVE Frame
  BY <1>1, <1>2, <1>4 DEF Return, Calls
<1> HIDE DEF Frame
<1>5. Frame
  <2>1. CASE \/ \E now \in Clock : ReadTcert(v, now)
             \/ ReadPinned(v) \/ ReadAttestations(v) \/ ReadTarget(v)
    BY <1>1, <1>2, <1>3, <1>4, <2>1
    DEF ReadTcert, ReadPinned, ReadAttestations, ReadTarget, Calls
  <2>2. CASE NextAttestation(v)
    BY <1>1, <1>2, <2>2 DEF NextAttestation, Calls
  <2>3. CASE \/ ReadDistrusted(v) \/ ReadRevokedAttestation(v)
             \/ ReadCaTcert(v) \/ ReadCaDistrusted(v) \/ ReadCaRevoked(v)
             \/ ReadCaPinned(v) \/ ReadCaConfigured(v) \/ ReadCaKey(v)
             \/ ReadKeyRevoked(v)
    BY <1>3, <1>4, <2>3
    DEF ReadDistrusted, ReadRevokedAttestation, ReadCaTcert, ReadCaDistrusted,
        ReadCaRevoked, ReadCaPinned, ReadCaConfigured, ReadCaKey,
        ReadKeyRevoked, CaCheck
  <2>4. CASE \/ ReadTcertRevoked(v) \/ ReadBlocked(v)
             \/ \E answer \in {"right", "wrong", "none"} :
                  CollectSecrets(v, answer)
             \/ \E schema \in {"valid", "invalid"},
                   context \in {"satisfied", "missing", "denied"} :
                  CheckFields(v, schema, context)
    BY <1>1, <1>2, <1>3, <1>4, <2>4
    DEF ReadTcertRevoked, ReadBlocked, CollectSecrets, CheckFields, Calls
  <2>. QED BY <2>1, <2>2, <2>3, <2>4 DEF VerifyStep
<1>6. Running(v)
  BY DEF VerifyStep, ReadTcert, ReadDistrusted, ReadPinned, ReadAttestations,
         NextAttestation, ReadRevokedAttestation, ReadCaTcert,
         ReadCaDistrusted, ReadCaRevoked, ReadCaPinned, ReadCaConfigured,
         ReadCaKey, ReadTarget, ReadKeyRevoked, ReadTcertRevoked, ReadBlocked,
         CollectSecrets, CheckFields, CaCheck, At, Running
<1>. QED BY <1>5, <1>6 DEF Frame

(* No step but a restart with a torn file forgets a revocation.            *)
THEOREM RevocationsGrow == Spec => RevocationsOnlyGrow
<1>1. TypeOK /\ [Next]_vars
        => [(\E torn \in Files : Stop(torn)) \/ RevocationsKept]_vars
  <2> SUFFICES ASSUME TypeOK, Next
               PROVE  (\E torn \in Files : Stop(torn)) \/ RevocationsKept
    OBVIOUS
  <2>1. CASE Operate
    BY <2>1, DeviceStepKeepsRevocations DEF Operate, TypeOK
  <2>2. ASSUME UNCHANGED deviceVars PROVE RevocationsKept
    BY <2>2 DEF RevocationsKept, Revokers, deviceVars, storeVars, revVars
  <2>3. ASSUME NEW v \in Verifications, VerifyStep(v)
        PROVE  UNCHANGED deviceVars
    BY <2>3, VerifyStepFrame DEF TypeOK
  <2>4. CASE Stop("none")
    BY <2>4 DEF Stop, Restart, Load, Files, RevocationsKept, Revokers
  <2>. QED BY <2>1, <2>2, <2>3, <2>4 DEF Next, Start
<1>. QED BY <1>1, TypeInvariant, PTL DEF Spec, RevocationsOnlyGrow

(* Every local revocation or block on its way to the stores comes from a   *)
(* key that issued the TCert or attested it, or owns the revoked key.      *)
THEOREM LocalAuthority == Spec => []LocalStatementsAuthorised
<1>1. Init => LocalStatementsAuthorised
  BY DEF Init, DeviceInit, LocalStatementsAuthorised
<1>2. TypeOK /\ LocalStatementsAuthorised /\ [Next]_vars
        => LocalStatementsAuthorised'
  <2> SUFFICES ASSUME TypeOK, LocalStatementsAuthorised, [Next]_vars
               PROVE  LocalStatementsAuthorised'
    OBVIOUS
  <2>1. ASSUME UNCHANGED deviceVars PROVE LocalStatementsAuthorised'
    BY <2>1 DEF LocalStatementsAuthorised, Authorised, HasStanding, Attested,
                deviceVars, storeVars, trustVars
  <2>2. CASE Operate
    BY <2>2, DeviceStepAuthorised DEF Operate, TypeOK
  <2>3. ASSUME NEW v \in Verifications, VerifyStep(v)
        PROVE  UNCHANGED deviceVars
    BY <2>3, VerifyStepFrame DEF TypeOK
  <2>4. ASSUME NEW torn, Stop(torn) PROVE LocalStatementsAuthorised'
    BY <2>4 DEF Stop, Restart, LocalStatementsAuthorised
  <2>. QED BY <2>1, <2>2, <2>3, <2>4 DEF Next, Start, vars
<1>. QED BY <1>1, <1>2, TypeInvariant, PTL DEF Spec

-----------------------------------------------------------------------------
(* The strengthening CallInvariant is inductive.                           *)

OneCall(v) == (Running(v) => StillTrue(v)) /\ RefusalsRead(v) /\ TrustRead(v)

(* A valid result has every component valid and its context satisfied.     *)
LEMMA ValidResult ==
  ASSUME NEW r \in Results, Overall(r) = "valid"
  PROVE  /\ r.cryptographic = "valid" /\ r.tcert = "valid"
         /\ r.trust = "valid" /\ r.revocation = "valid"
         /\ r.schema = "valid" /\ r.context = "satisfied"
BY DEF Overall, Components, Results, States

(* The facts of StillTrue carry over a step of any verification, which     *)
(* leaves the stores, the history and the document as they are.            *)
LEMMA StillTrueFrame ==
  ASSUME NEW v \in Verifications, StillTrue(v),
         UNCHANGED <<deviceVars, seen>>, run'[v].doc = run[v].doc
  PROVE  StillTrue(v)'
BY DEF StillTrue, Tcert, RetroRevoked, deviceVars, storeVars, trustVars,
       revVars

(* An early return with a result that is not valid leaves nothing to show. *)
LEMMA EarlyReturn ==
  ASSUME TypeOK, NEW v \in Verifications, TrustRead(v),
         NEW STATE r, r \in Results, Return(v, r), Overall(r) # "valid",
         r.trust = "valid" => run[v].result.trust = "valid"
  PROVE  RefusalsRead(v)' /\ TrustRead(v)'
<1>1. run'[v] = [run[v] EXCEPT !.pc = "done", !.result = r]
  BY DEF Return, Update, TypeOK
<1>2. run[v] \in Calls
  BY DEF TypeOK
<1>3. /\ run'[v].pc = "done" /\ run'[v].result = r
      /\ UNCHANGED <<run[v].via, run[v].pinned, run[v].doc>>
  BY <1>1, <1>2 DEF Calls
<1>4. UNCHANGED seen
  BY DEF Return, Update
<1>. QED
  BY <1>3, <1>4 DEF RefusalsRead, TrustRead, Past, Accepted, Tcert, CaChecks, Pcs

(* Moving on to another place.                                             *)
LEMMA MoveOn ==
  ASSUME TypeOK, NEW v \in Verifications, NEW STATE pc, Goto(v, pc),
         pc \in Pcs \ {"idle", "done"}
  PROVE  /\ run'[v].pc = pc
         /\ UNCHANGED <<run[v].via, run[v].pinned, run[v].doc, run[v].att,
                        run[v].result, seen, deviceVars>>
         /\ ~Accepted(v)'
BY DEF TypeOK, Calls, Goto, Update, Accepted

(* A step of a verification keeps its own part of the invariant.           *)
LEMMA OwnStep ==
  ASSUME TypeOK, NEW v \in Verifications, OneCall(v), VerifyStep(v)
  PROVE  OneCall(v)'
<1> DEFINE r == run[v].result
           t == Tcert(v)
           Good == RefusalsRead(v)' /\ TrustRead(v)'
<1>1. /\ run[v] \in Calls
      /\ run[v].result \in Results
      /\ seen[v] \in Seen
      /\ Tcert(v) \in Tcerts
  BY DeviceAssumption DEF TypeOK, Calls, Tcert
<1>2. /\ UNCHANGED <<deviceVars, seen>>
      /\ run'[v].doc = run[v].doc
      /\ Running(v)
  BY VerifyStepFrame DEF TypeOK
<1>3. StillTrue(v) /\ StillTrue(v)'
  BY <1>2, StillTrueFrame DEF OneCall
<1>4. "valid" \in States /\ "invalid" \in States
  BY DEF States
<1>5. RefusalsRead(v) /\ TrustRead(v)
  BY DEF OneCall
<1> SUFFICES Good
  BY <1>3 DEF OneCall
<1>6. ASSUME NEW now \in Clock, ReadTcert(v, now) PROVE Good
  <2>1. run[v].pc = "tcert" /\ r.revocation # "valid"
    BY <1>5, <1>6 DEF RefusalsRead, ReadTcert, At
  <2>2. ASSUME NEW q \in Results, q.trust = r.trust,
               q.revocation = r.revocation, Return(v, q)
        PROVE  Good
    BY <1>5, <2>1, <2>2, EarlyReturn, ValidResult
  <2>3. CASE run'[v] = [run[v] EXCEPT !.pc = "distrusted",
                          !.content = certs[t], !.result.tcert = "valid"]
    <3>1. /\ run'[v].pc = "distrusted"
          /\ run'[v].via = run[v].via /\ run'[v].pinned = run[v].pinned
          /\ run'[v].result.trust = r.trust
          /\ run'[v].result.revocation = r.revocation
      BY <1>1, <2>3 DEF Calls, Results
    <3>. QED
      BY <1>2, <1>5, <2>1, <3>1
      DEF RefusalsRead, TrustRead, Past, Accepted, Tcert, CaChecks, Pcs
  <2>4. /\ [r EXCEPT !.tcert = "invalid"] \in Results
        /\ [r EXCEPT !.schema = "invalid"] \in Results
    BY <1>1, <1>4, ResultType
  <2>. QED
    BY <1>1, <1>6, <2>2, <2>3, <2>4
    DEF ReadTcert, Update, TypeOK, Results
<1>7. CASE ReadDistrusted(v)
  <2>1. CASE Tcert(v) \in distrusted
    <3>1. [r EXCEPT !.trust = "invalid"] \in Results
      BY <1>1, <1>4, ResultType
    <3>. QED
      BY <1>1, <1>5, <1>7, <2>1, <3>1, EarlyReturn, ValidResult
      DEF ReadDistrusted, Results
  <2>2. CASE Tcert(v) \notin distrusted
    <3>1. Goto(v, "pinned") /\ run[v].pc = "distrusted"
      BY <1>7, <2>2 DEF ReadDistrusted, At
    <3>2. ~seen[v].distrusted
      BY <1>3, <2>2 DEF StillTrue
    <3>. QED
      BY <1>5, <3>1, <3>2, MoveOn
      DEF RefusalsRead, TrustRead, Past, Tcert, CaChecks, Pcs
  <2>. QED BY <2>1, <2>2
<1>9. CASE ReadRevokedAttestation(v)
  <2>1. CASE <<Tcert(v), run[v].att.ca>> \in revAtt
    <3>1. Goto(v, "next") /\ run[v].pc = "attestation"
      BY <1>9, <2>1 DEF ReadRevokedAttestation, CaCheck, At
    <3>. QED
      BY <1>5, <3>1, MoveOn
      DEF RefusalsRead, TrustRead, Past, Tcert, CaChecks, Pcs
  <2>2. CASE <<Tcert(v), run[v].att.ca>> \notin revAtt
    <3>1. Goto(v, "caTcert") /\ run[v].pc = "attestation"
      BY <1>9, <2>2 DEF ReadRevokedAttestation, CaCheck, At
    <3>2. <<Tcert(v), run[v].att.ca>> \notin seen[v].deadAtts
      BY <1>3, <2>2 DEF StillTrue
    <3>. QED
      BY <1>5, <3>1, <3>2, MoveOn
      DEF RefusalsRead, TrustRead, Past, Tcert, CaChecks, Pcs
  <2>. QED BY <2>1, <2>2
<1>10. CASE ReadCaTcert(v) \/ ReadCaDistrusted(v)
  BY <1>5, <1>10, MoveOn
  DEF ReadCaTcert, ReadCaDistrusted, CaCheck, At, RefusalsRead, TrustRead,
      Past, Tcert, CaChecks, Pcs
<1>11. CASE ReadCaRevoked(v)
  BY <1>3, <1>5, <1>11, MoveOn
  DEF ReadCaRevoked, CaCheck, At, StillTrue, RefusalsRead, TrustRead, Past,
      Tcert, CaChecks, Pcs
<1>12. CASE ReadCaPinned(v) \/ ReadCaConfigured(v)
  BY <1>3, <1>5, <1>12, MoveOn
  DEF ReadCaPinned, ReadCaConfigured, CaCheck, At, StillTrue, RefusalsRead,
      TrustRead, Past, Tcert, CaChecks, Pcs
<1>13. CASE ReadCaKey(v)
  BY <1>3, <1>5, <1>13, MoveOn
  DEF ReadCaKey, CaCheck, At, StillTrue, RefusalsRead, TrustRead, Past,
      Tcert, CaChecks, Pcs
<1>14. CASE ReadPinned(v)
  <2> DEFINE b == Tcert(v) \in pinned
  <2>1. run[v].pc = "pinned"
        /\ Update(v, [run[v] EXCEPT !.pc = "attestations", !.pinned = b])
    BY <1>14 DEF ReadPinned, At
  <2> HIDE DEF b
  <2>2. /\ run'[v].pc = "attestations" /\ run'[v].pinned = b
        /\ UNCHANGED <<run[v].via, run[v].doc, run[v].result>>
    BY <1>1, <2>1 DEF Update, TypeOK, Calls
  <2>3. /\ run[v].pc = "pinned" /\ run'[v].pc = "attestations"
        /\ run'[v].pinned => Tcert(v) \in pinned
        /\ UNCHANGED <<run[v].via, run[v].doc, run[v].result>>
    BY <2>1, <2>2 DEF b
  <2>4. run'[v].pinned => seen[v].pinned
    BY <1>3, <2>3 DEF StillTrue
  <2>5. ~Accepted(v)' /\ ~seen[v].distrusted
    BY <1>5, <2>3 DEF RefusalsRead, Past, Accepted, Pcs
  <2>6. RefusalsRead(v)'
    BY <1>2, <1>5, <2>3, <2>5 DEF RefusalsRead, Past, Tcert
  <2>7. TrustRead(v)'
    BY <1>2, <1>5, <2>3, <2>4 DEF TrustRead, Tcert, CaChecks
  <2>. QED BY <2>6, <2>7
<1>15. CASE ReadAttestations(v)
  <2>1. /\ run[v].pc = "attestations" /\ run'[v].pc = "next"
        /\ UNCHANGED <<run[v].via, run[v].doc, run[v].result,
                       run[v].pinned>>
    BY <1>1, <1>15 DEF ReadAttestations, At, Update, TypeOK, Calls
  <2>. QED
    BY <1>2, <1>5, <2>1
    DEF RefusalsRead, TrustRead, Past, Accepted, Tcert, CaChecks, Pcs
<1>16. CASE NextAttestation(v)
  <2>1. ASSUME NEW a \in run[v].todo,
               Update(v, [run[v] EXCEPT !.pc = "attestation", !.att = a,
                                        !.todo = @ \ {a}])
        PROVE  Good
    <3>1. /\ run'[v].pc = "attestation" /\ run'[v].att.ca \in Tcerts
          /\ UNCHANGED <<run[v].via, run[v].doc, run[v].result,
                         run[v].pinned>>
      BY <1>1, <2>1 DEF Update, TypeOK, Calls, Attestations
    <3>2. run[v].pc = "next"
      BY <1>16 DEF NextAttestation, At
    <3>. QED
      BY <1>2, <1>5, <3>1, <3>2
      DEF RefusalsRead, TrustRead, Past, Accepted, Tcert, CaChecks, Pcs
  <2>2. ASSUME Update(v, [run[v] EXCEPT !.pc = "keyRevoked", !.att = NoAtt,
                 !.result.trust = IF run[v].pinned THEN "valid"
                                  ELSE "cannotVerify"])
        PROVE  Good
    <3>1. /\ run'[v].pc = "keyRevoked"
          /\ run'[v].result.revocation = r.revocation
          /\ run'[v].result.trust = "valid" => run[v].pinned
          /\ UNCHANGED <<run[v].via, run[v].doc, run[v].pinned>>
      BY <1>1, <2>2 DEF Update, TypeOK, Calls, Results
    <3>2. run[v].pc = "next"
      BY <1>16 DEF NextAttestation, At
    <3>. QED
      BY <1>2, <1>5, <3>1, <3>2
      DEF RefusalsRead, TrustRead, Past, Accepted, Tcert, CaChecks, Pcs
  <2>. QED BY <1>16, <2>1, <2>2 DEF NextAttestation
<1>17. CASE ReadTarget(v)
  <2>0. run[v].pc = "target"
    BY <1>17 DEF ReadTarget, At
  <2>1. CASE Update(v, [run[v] EXCEPT !.pc = "keyRevoked", !.todo = {},
                          !.via = run[v].att.ca, !.result.trust = "valid"])
    <3>1. /\ run'[v].pc = "keyRevoked"
          /\ run'[v].via = run[v].att.ca
          /\ run'[v].result.revocation = r.revocation
          /\ UNCHANGED <<run[v].doc, run[v].pinned>>
      BY <1>1, <2>1 DEF Update, TypeOK, Calls, Results
    <3>2. run[v].att.ca \in Tcerts /\ NoTcert \notin Tcerts
      BY <1>5, <2>0, DeviceAssumption DEF TrustRead, CaChecks
    <3>. QED
      BY <1>2, <1>5, <2>0, <3>1, <3>2
      DEF RefusalsRead, TrustRead, Past, Accepted, Tcert, CaChecks, Pcs
  <2>2. CASE Goto(v, "next")
    BY <1>5, <2>0, <2>2, MoveOn
    DEF RefusalsRead, TrustRead, Past, Tcert, CaChecks, Pcs
  <2>. QED BY <1>17, <2>1, <2>2 DEF ReadTarget
<1>18. [r EXCEPT !.revocation = "invalid"] \in Results
  BY <1>1, <1>4, ResultType
<1>19. ASSUME Return(v, [r EXCEPT !.revocation = "invalid"]) PROVE Good
  BY <1>1, <1>5, <1>18, <1>19, EarlyReturn, ValidResult DEF Results
<1>20. CASE ReadKeyRevoked(v)
  <2>1. CASE Goto(v, "tcertRevoked") /\ KeyOf[Tcert(v)] \notin revKey
    <3>1. run[v].pc = "keyRevoked" /\ KeyOf[Tcert(v)] \notin seen[v].deadKeys
      BY <1>3, <1>20, <2>1 DEF ReadKeyRevoked, At, StillTrue
    <3>. QED
      BY <1>5, <2>1, <3>1, MoveOn
      DEF RefusalsRead, TrustRead, Past, Tcert, CaChecks, Pcs
  <2>. QED BY <1>19, <1>20, <2>1 DEF ReadKeyRevoked
<1>21. ASSUME Update(v, [run[v] EXCEPT !.pc = "secrets",
                                       !.result.revocation = "valid"])
       PROVE  /\ run'[v].pc = "secrets"
              /\ run'[v].result.trust = r.trust
              /\ UNCHANGED <<run[v].via, run[v].doc, run[v].pinned>>
  BY <1>1, <1>21 DEF Update, TypeOK, Calls, Results
<1>22. CASE ReadTcertRevoked(v)
  <2>0. run[v].pc = "tcertRevoked"
    BY <1>22 DEF ReadTcertRevoked, At
  <2>1. CASE Goto(v, "blocked") /\ revTcert[Tcert(v)] = {}
    <3>1. ~seen[v].retro
      BY <1>3, <2>1 DEF StillTrue, RetroRevoked
    <3>. QED
      BY <1>5, <2>0, <2>1, <3>1, MoveOn
      DEF RefusalsRead, TrustRead, Past, Tcert, CaChecks, Pcs
  <2>2. CASE /\ Update(v, [run[v] EXCEPT !.pc = "secrets",
                                         !.result.revocation = "valid"])
             /\ revTcert[Tcert(v)] # {}
             /\ ~RefusedBy(revTcert[Tcert(v)], IssuedAt[run[v].doc])
    <3>1. ~seen[v].retro
      BY <1>3, <2>2 DEF StillTrue, RetroRevoked, RefusedBy
    <3>2. /\ run'[v].pc = "secrets"
          /\ run'[v].result.trust = r.trust
          /\ UNCHANGED <<run[v].via, run[v].doc, run[v].pinned>>
      BY <1>21, <2>2
    <3>3. revTcert'[Tcert(v)] # {}
      BY <1>2, <2>2 DEF deviceVars, storeVars, revVars
    <3>. QED
      BY <1>2, <1>5, <2>0, <3>1, <3>2, <3>3
      DEF RefusalsRead, TrustRead, Past, Accepted, Tcert, CaChecks, Pcs
  <2>. QED BY <1>19, <1>22, <2>1, <2>2 DEF ReadTcertRevoked
<1>23. CASE ReadBlocked(v)
  <2>0. run[v].pc = "blocked"
    BY <1>23 DEF ReadBlocked, At
  <2>1. CASE /\ Update(v, [run[v] EXCEPT !.pc = "secrets",
                                         !.result.revocation = "valid"])
             /\ run[v].doc \notin blocked
    <3>1. ~seen[v].blocked
      BY <1>3, <2>1 DEF StillTrue
    <3>2. /\ run'[v].pc = "secrets"
          /\ run'[v].result.trust = r.trust
          /\ UNCHANGED <<run[v].via, run[v].doc, run[v].pinned>>
      BY <1>21, <2>1
    <3>. QED
      BY <1>2, <1>5, <2>0, <3>1, <3>2
      DEF RefusalsRead, TrustRead, Past, Accepted, Tcert, CaChecks, Pcs
  <2>. QED BY <1>19, <1>23, <2>1 DEF ReadBlocked
<1>24. ASSUME NEW answer, CollectSecrets(v, answer) PROVE Good
  <2>0. run[v].pc = "secrets"
    BY <1>24 DEF CollectSecrets, At
  <2>1. CASE Update(v, [run[v] EXCEPT !.pc = "fields",
               !.result.cryptographic = "valid", !.result.schema = "valid"])
    <3>1. /\ run'[v].pc = "fields"
          /\ run'[v].result.trust = r.trust
          /\ UNCHANGED <<run[v].via, run[v].doc, run[v].pinned>>
      BY <1>1, <2>1 DEF Update, TypeOK, Calls, Results
    <3>2. revTcert' = revTcert
      BY <1>2 DEF deviceVars, storeVars, revVars
    <3>. QED
      BY <1>2, <1>5, <2>0, <3>1, <3>2
      DEF RefusalsRead, TrustRead, Past, Accepted, Tcert, CaChecks, Pcs
  <2>2. ASSUME NEW q \in Results, q.trust = r.trust,
               ~(/\ q.cryptographic = "valid" /\ q.schema = "valid"
                 /\ q.context = "satisfied"),
               Return(v, q)
        PROVE  Good
    BY <1>5, <2>2, EarlyReturn, ValidResult
  <2>3. /\ [r EXCEPT !.schema = "invalid"] \in Results
        /\ [r EXCEPT !.context = "missing"] \in Results
        /\ [r EXCEPT !.cryptographic = "invalid"] \in Results
    BY <1>1, <1>4, ResultType
  <2>. QED
    BY <1>1, <1>24, <2>1, <2>2, <2>3 DEF CollectSecrets, Results
<1>25. ASSUME NEW x \in {"valid", "invalid"},
              NEW y \in {"satisfied", "missing", "denied"},
              CheckFields(v, x, y)
       PROVE  Good
  <2>1. /\ run[v].pc = "fields" /\ run'[v].pc = "done"
        /\ run'[v].result.trust = r.trust
        /\ UNCHANGED <<run[v].via, run[v].doc, run[v].pinned>>
    BY <1>1, <1>25
    DEF CheckFields, At, Return, Update, TypeOK, Calls, Results
  <2>2. revTcert' = revTcert
    BY <1>2 DEF deviceVars, storeVars, revVars
  <2>. QED
    BY <1>2, <1>5, <2>1, <2>2
    DEF RefusalsRead, TrustRead, Past, Tcert, CaChecks, Pcs
<1>. QED
  BY <1>6, <1>7, <1>9, <1>10, <1>11, <1>12, <1>13, <1>14, <1>15, <1>16,
     <1>17, <1>20, <1>22, <1>23, <1>24, <1>25
  DEF VerifyStep

(* What the history records of a moment.                                   *)
LEMMA NowSays ==
  ASSUME NEW d
  PROVE  /\ Now(d).distrusted => IssuerOf[d] \in distrusted
         /\ Now(d).retro => RetroRevoked(IssuerOf[d])
         /\ Now(d).blocked => d \in blocked
         /\ IssuerOf[d] \in pinned => Now(d).pinned
         /\ Now(d).roots = pinned \cup cas
         /\ Now(d).deadKeys = revKey
         /\ Now(d).deadCas = {ca \in Tcerts : revTcert[ca] # {}}
         /\ Now(d).deadAtts = revAtt
BY DEF Now

LEMMA NowSaysNext ==
  ASSUME NEW d
  PROVE  /\ Now(d)'.distrusted => IssuerOf[d] \in distrusted'
         /\ Now(d)'.retro => RetroRevoked(IssuerOf[d])'
         /\ Now(d)'.blocked => d \in blocked'
         /\ IssuerOf[d] \in pinned' => Now(d)'.pinned
         /\ Now(d)'.roots = pinned' \cup cas'
BY DEF Now, RetroRevoked

(* An operation of the device keeps every call's part: it forgets no       *)
(* revocation, and the history follows what it changes.                    *)
LEMMA OperateKeeps ==
  ASSUME TypeOK, NEW v \in Verifications, OneCall(v), Operate
  PROVE  OneCall(v)'
<1>1. RevocationsKept
  BY DeviceStepKeepsRevocations DEF Operate, TypeOK
<1>2. /\ run' = run
      /\ seen'[v] = IF Running(v) THEN Extend(seen[v], Now(run[v].doc)')
                    ELSE seen[v]
  BY DEF Operate
<1>3. /\ run[v] \in Calls
      /\ seen[v] \in Seen
      /\ Tcert(v) \in Tcerts
  BY DeviceAssumption DEF TypeOK, Calls, Tcert
<1>4. ASSUME NEW t \in Tcerts, revTcert[t] # {} PROVE revTcert'[t] # {}
  BY <1>1, <1>4 DEF RevocationsKept, Revokers
<1>5. /\ seen'[v].deadKeys = seen[v].deadKeys
      /\ seen'[v].deadCas = seen[v].deadCas
      /\ seen'[v].deadAtts = seen[v].deadAtts
      /\ seen[v].roots \subseteq seen'[v].roots
      /\ seen[v].pinned => seen'[v].pinned
      /\ seen'[v].distrusted => seen[v].distrusted
      /\ seen'[v].retro => seen[v].retro
      /\ seen'[v].blocked => seen[v].blocked
  BY <1>2, <1>3 DEF Extend, Seen
<1>6. ASSUME Running(v)
      PROVE  /\ seen'[v].distrusted => Tcert(v) \in distrusted'
             /\ seen'[v].retro => RetroRevoked(Tcert(v))'
             /\ seen'[v].blocked => run[v].doc \in blocked'
             /\ Tcert(v) \in pinned' => seen'[v].pinned
             /\ pinned' \cup cas' \subseteq seen'[v].roots
  <2>1. ASSUME NEW n, n = Now(run[v].doc)', n \in Seen
        PROVE  /\ seen'[v].distrusted => n.distrusted
               /\ seen'[v].retro => n.retro
               /\ seen'[v].blocked => n.blocked
               /\ n.pinned => seen'[v].pinned
               /\ n.roots \subseteq seen'[v].roots
    BY <1>2, <1>3, <1>6, <2>1 DEF Extend, Seen
  <2>2. ASSUME NEW d, d = run[v].doc PROVE Now(run[v].doc)' = Now(d)'
    BY <1>2, <2>2 DEF Now, BoundContents, RetroRevoked
  <2>3. run[v].doc \in Sdocs /\ run'[v].doc = run[v].doc
    BY <1>2, <1>3 DEF Calls
  <2>4. ASSUME NEW d \in Sdocs, d = run[v].doc
        PROVE  /\ seen'[v].distrusted => IssuerOf[d] \in distrusted'
               /\ seen'[v].retro => RetroRevoked(IssuerOf[d])'
               /\ seen'[v].blocked => d \in blocked'
               /\ IssuerOf[d] \in pinned' => seen'[v].pinned
               /\ pinned' \cup cas' \subseteq seen'[v].roots
    <3>1. Now(run[v].doc)' = Now(d)'
      BY <2>2, <2>4
    <3>2. Now(d)' \in Seen
      BY NowTypeNext, DeviceStepType DEF TypeOK, Operate
    <3>. QED BY <2>1, <3>1, <3>2, NowSaysNext
  <2>. QED BY <2>3, <2>4 DEF Tcert, RetroRevoked
<1>7. Running(v)' => StillTrue(v)'
  <2> SUFFICES ASSUME Running(v) PROVE StillTrue(v)'
    BY <1>2 DEF Running
  <2>1. StillTrue(v)
    BY DEF OneCall
  <2>2. seen[v].deadCas \subseteq Tcerts
    BY <1>3 DEF Seen
  <2>. QED
    BY <1>1, <1>2, <1>4, <1>5, <1>6, <2>1, <2>2
    DEF StillTrue, Tcert, RevocationsKept, RetroRevoked
<1>8. RefusalsRead(v)'
  BY <1>2, <1>3, <1>4, <1>5
  DEF OneCall, RefusalsRead, Past, Accepted, Tcert
<1>9. TrustRead(v)'
  BY <1>2, <1>3, <1>5 DEF OneCall, TrustRead, Tcert
<1>. QED BY <1>7, <1>8, <1>9 DEF OneCall

(* A call that begins knows nothing yet, and what its history says of the  *)
(* stores is what they are.                                                *)
LEMMA StartKeeps ==
  ASSUME TypeOK, NEW v \in Verifications, NEW d \in Sdocs, Start(v, d)
  PROVE  OneCall(v)'
<1> DEFINE bad == [EmptyResult EXCEPT !.cryptographic = "invalid"]
<1>1. /\ \/ run'[v] = NewCall(d, "done", bad)
         \/ run'[v] = NewCall(d, "tcert", EmptyResult)
      /\ seen'[v] = Now(d)
      /\ UNCHANGED deviceVars
  BY DEF Start, TypeOK
<1>2. ASSUME NEW r \in {EmptyResult, bad}
      PROVE  /\ r \in Results /\ r.trust = "cannotVerify"
             /\ r.revocation = "cannotVerify"
  BY DEF EmptyResult, Results, States
<1> HIDE DEF bad
<1>3. /\ run'[v].doc = d /\ run'[v].via = NoTcert /\ ~run'[v].pinned
      /\ run'[v].pc \in {"done", "tcert"}
      /\ run'[v].result.trust = "cannotVerify"
      /\ run'[v].result.revocation = "cannotVerify"
      /\ run'[v].result \in Results
  <2>1. CASE run'[v] = NewCall(d, "done", bad)
    BY <1>2, <2>1, NewCallSays
  <2>2. CASE run'[v] = NewCall(d, "tcert", EmptyResult)
    BY <1>2, <2>2, NewCallSays
  <2>. QED BY <1>1, <2>1, <2>2
<1>4. ~Accepted(v)'
  BY <1>3, ValidResult DEF Accepted
<1>5. StillTrue(v)'
  BY <1>1, <1>3, NowSays
  DEF StillTrue, Tcert, RetroRevoked, deviceVars, storeVars, trustVars, revVars
<1>6. RefusalsRead(v)' /\ TrustRead(v)'
  BY <1>3, <1>4 DEF RefusalsRead, TrustRead, Past, CaChecks, Pcs
<1>. QED BY <1>5, <1>6 DEF OneCall

(* So does an idle one.                                                    *)
LEMMA IdleCall ==
  ASSUME NEW v \in Verifications, NEW d, run[v] = Idle(d)
  PROVE  OneCall(v)
<1>1. /\ run[v].pc = "idle" /\ run[v].via = NoTcert /\ ~run[v].pinned
      /\ run[v].result.trust = "cannotVerify"
      /\ run[v].result.revocation = "cannotVerify"
  BY DEF Idle, NewCall, EmptyResult
<1>. QED
  BY <1>1 DEF OneCall, Running, RefusalsRead, TrustRead, Past, Accepted,
              CaChecks, Pcs

LEMMA StopKeeps ==
  ASSUME TypeOK, NEW v \in Verifications, NEW torn, Stop(torn)
  PROVE  OneCall(v)'
<1>1. run'[v] = Idle(run[v].doc)
  BY DEF Stop
<1>2. /\ run'[v].pc = "idle" /\ run'[v].via = NoTcert /\ ~run'[v].pinned
      /\ run'[v].result.trust = "cannotVerify"
      /\ run'[v].result.revocation = "cannotVerify"
  BY <1>1 DEF Idle, NewCall, EmptyResult
<1>. QED
  BY <1>2 DEF OneCall, Running, RefusalsRead, TrustRead, Past, Accepted,
              CaChecks, Pcs

(* A call is not touched by the step of another one.                       *)
LEMMA OtherKeeps ==
  ASSUME NEW v \in Verifications, OneCall(v), UNCHANGED deviceVars,
         run'[v] = run[v], seen'[v] = seen[v]
  PROVE  OneCall(v)'
BY DEF OneCall, Running, StillTrue, RefusalsRead, TrustRead, Past, Accepted,
       Tcert, RetroRevoked, deviceVars, storeVars, trustVars, revVars

(* CallInvariant, the strengthening the safety properties rest on, holds   *)
(* in every reachable state.                                               *)
THEOREM CallsInvariant == Spec => []CallInvariant
<1>1. Init => CallInvariant
  <2> SUFFICES ASSUME Init, NEW v \in Verifications PROVE OneCall(v)
    BY DEF CallInvariant, OneCall
  <2>. QED BY IdleCall DEF Init
<1>2. TypeOK /\ CallInvariant /\ [Next]_vars => CallInvariant'
  <2> SUFFICES ASSUME TypeOK, [Next]_vars, NEW v \in Verifications, OneCall(v)
               PROVE  OneCall(v)'
    BY DEF CallInvariant, OneCall
  <2>1. CASE UNCHANGED vars
    BY <2>1, OtherKeeps DEF vars
  <2>2. CASE Operate
    BY <2>2, OperateKeeps
  <2>3. ASSUME NEW w \in Verifications, NEW d \in Sdocs, Start(w, d)
        PROVE  OneCall(v)'
    <3>1. CASE v = w
      BY <2>3, <3>1, StartKeeps
    <3>2. CASE v # w
      BY <2>3, <3>2, OtherKeeps DEF Start, TypeOK
    <3>. QED BY <3>1, <3>2
  <2>4. ASSUME NEW w \in Verifications, VerifyStep(w) PROVE OneCall(v)'
    <3>1. CASE v = w
      BY <2>4, <3>1, OwnStep
    <3>2. CASE v # w
      BY <2>4, <3>2, OtherKeeps, VerifyStepFrame DEF TypeOK
    <3>. QED BY <3>1, <3>2
  <2>5. ASSUME NEW torn, Stop(torn) PROVE OneCall(v)'
    BY <2>5, StopKeeps
  <2>. QED BY <2>1, <2>2, <2>3, <2>4, <2>5 DEF Next
<1>. QED BY <1>1, <1>2, TypeInvariant, PTL DEF Spec

-----------------------------------------------------------------------------
(* The safety properties.                                                  *)

(* No document of a key revoked when its verification began is reported    *)
(* valid.                                                                  *)
THEOREM RevokedKeys == Spec => []RevokedKeyNeverAccepted
<1>1. CallInvariant => RevokedKeyNeverAccepted
  BY DEF CallInvariant, RefusalsRead, Past, RevokedKeyNeverAccepted
<1>. QED BY <1>1, CallsInvariant, PTL

(* No CA that was revoked, with its key or its attestation, when the       *)
(* verification began carries trust to a valid result.                     *)
THEOREM RevokedCas == Spec => []RevokedCaCarriesNoTrust
<1>1. CallInvariant => RevokedCaCarriesNoTrust
  BY DEF CallInvariant, TrustRead, RevokedCaCarriesNoTrust
<1>. QED BY <1>1, CallsInvariant, PTL

(* A TCert distrusted or retrospectively revoked throughout a verification *)
(* yields no valid result.                                                 *)
THEOREM StandingRefusals == Spec => []StandingRefusalHolds
<1>1. CallInvariant => StandingRefusalHolds
  BY DEF CallInvariant, RefusalsRead, Past, StandingRefusalHolds
<1>. QED BY <1>1, CallsInvariant, PTL

(* A valid result rests on a pin or a CA the user configured.              *)
THEOREM ConfiguredTrust == Spec => []AcceptedWasTrusted
<1>1. TypeOK /\ CallInvariant => AcceptedWasTrusted
  <2> SUFFICES ASSUME TypeOK, CallInvariant, NEW v \in Verifications,
                      Accepted(v)
               PROVE  seen[v].pinned \/ run[v].via \in seen[v].roots
    BY DEF AcceptedWasTrusted
  <2>1. run[v].result.trust = "valid"
    BY ValidResult DEF Accepted, TypeOK, Calls
  <2>. QED BY <2>1 DEF CallInvariant, TrustRead
<1>. QED BY <1>1, TypeInvariant, CallsInvariant, PTL

(* A blocked document is reported valid only when its TCert is revoked.    *)
THEOREM BlockedDocuments == Spec => []BlockEscapesOnlyByRevocation
<1>1. CallInvariant => BlockEscapesOnlyByRevocation
  BY DEF CallInvariant, RefusalsRead, Past, BlockEscapesOnlyByRevocation
<1>. QED BY <1>1, CallsInvariant, PTL
=============================================================================
