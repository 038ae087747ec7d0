-------------------------- MODULE EnterpriseProofs --------------------------
(***************************************************************************)
(* What the enterprise server keeps of its answers and of the documents it *)
(* signed, for any number of users, TCerts, documents and concurrent       *)
(* requests, and whatever the administrator edits and deletes.  The        *)
(* invariants say how far each running request has come and what it has    *)
(* stored by then.                                                         *)
(***************************************************************************)
EXTENDS Enterprise, TLAPS

Signing == {"issue", "save", "enrich", "update"}
Creating == {"private", "public", "tcert"}

\* TCerts that are or once were in the database.
Known == tcerts \cup altered

\* Those whose statements must have been published.
Due == (cas \cap endpoints) \ altered

\* What a request works on fits the step it is at.
Shape(r) ==
  /\ req[r].pc \in Signing => req[r].op.action = "sign"
  /\ req[r].pc \in Creating => req[r].op.action = "create_tcert"
  /\ req[r].pc \in {"publish", "upload"} =>
       req[r].op.action \in StatementActions
  /\ req[r].pc = "load" => req[r].op.action \in StatementActions \cup {"sign"}
  /\ Running(r) /\ req[r].op.action = "sign" =>
       /\ req[r].op.doc \in Docs
       /\ req[r].op.tcert = IssuerOf[req[r].op.doc]

\* Nobody else works on a TCert that a request is creating.
Alone(r) ==
  req[r].pc \in Creating =>
    /\ req[r].op.tcert \notin Known
    /\ \A q \in Requests \ {r} :
         Running(q) => req[q].op.tcert # req[r].op.tcert

\* What a running request has stored of keys and statements.
Stored(r) ==
  /\ req[r].pc = "public" => "private" \in halves[req[r].op.tcert]
  /\ req[r].pc = "tcert" => KeyStored(req[r].op.tcert)
  /\ Running(r) /\ req[r].pc \notin Creating => req[r].op.tcert \in Known
  /\ /\ req[r].pc = "audit" /\ req[r].op.action \in StatementActions
     /\ req[r].op.tcert \in Due
     => req[r].op \in published

RequestsInv ==
  /\ TypeOK
  /\ \A r \in Requests : Shape(r)

KeysInv ==
  /\ \A t \in tcerts : KeyStored(t)
  /\ \A d \in Docs : records[d].stored => IssuerOf[d] \in Known
  /\ \A o \in answered : o.tcert \in Known
  /\ \A r \in Requests : Alone(r) /\ Stored(r)

\* A record names its TCert and a signer who is in the audit trail, or
\* about to be; or a request is about to make it so.
Audited(d) == \E o \in audit \cup erased : /\ o.action = "sign" /\ o.doc = d
                                         /\ o.user = records[d].by

BeingAudited(d) == \E r \in Requests : /\ req[r].pc = "audit"
                                       /\ req[r].op.action = "sign"
                                       /\ req[r].op.doc = d
                                       /\ req[r].op.user = records[d].by

Links(r, d) ==
  /\ req[r].op.doc = d
  /\ \/ req[r].pc = "enrich"
     \/ req[r].pc = "update" /\ req[r].row.id = records[d].id

BeingLinked(d) == \E r \in Requests : Running(r) /\ Links(r, d)

Linked(d) == \/ /\ records[d].tcert = IssuerOf[d]
                /\ Audited(d) \/ BeingAudited(d)
             \/ BeingLinked(d)

RecordsInv ==
  ~stopped => \A d \in Docs :
    records[d].stored /\ IssuerOf[d] \in tcerts => Linked(d)

-----------------------------------------------------------------------------
(* A running request has an operation and a row; moving on keeps them.     *)

LEMMA RunningTyped ==
  ASSUME TypeOK, NEW r \in Requests, Running(r)
  PROVE  /\ req[r] \in Busy /\ req[r].op \in Operations /\ req[r].row \in Rows
         /\ req[r].op.tcert \in Tcerts
BY DEF TypeOK, Running, Idle, Busy, Operations

Pcs == {"private", "public", "tcert", "load", "issue", "save", "enrich",
        "update", "publish", "upload", "audit"}

\* How a step moves the request on: it ends, or goes on as the code does.
Moves(r) ==
  /\ Running(r)
  /\ req' \in [Requests -> {Idle} \cup Busy]
  /\ \A q \in Requests \ {r} : req'[q] = req[q]
  /\ \/ Fail(r)
     \/ /\ req'[r].op = req[r].op
        /\ <<req[r].pc, req'[r].pc>> \in
             {<<"private", "public">>, <<"public", "tcert">>,
              <<"tcert", "audit">>, <<"load", "issue">>,
              <<"load", "publish">>, <<"issue", "save">>,
              <<"save", "enrich">>, <<"enrich", "update">>,
              <<"update", "audit">>, <<"publish", "upload">>,
              <<"publish", "audit">>, <<"upload", "audit">>}
        /\ req[r].pc = "load" =>
             (req'[r].pc = "issue" <=> req[r].op.action = "sign")

LEMMA GotoTyped ==
  ASSUME TypeOK, NEW r \in Requests, Running(r), NEW pc \in Pcs, Goto(r, pc)
  PROVE  /\ req' \in [Requests -> {Idle} \cup Busy]
         /\ \A q \in Requests \ {r} : req'[q] = req[q]
         /\ req'[r].op = req[r].op /\ req'[r].pc = pc /\ ~Fail(r)
<1>1. req[r] \in Busy
  BY RunningTyped
<1>2. [req[r] EXCEPT !.pc = pc] \in Busy
  BY <1>1 DEF Busy, Pcs
<1>3. req'[r] = [req[r] EXCEPT !.pc = pc]
  BY DEF Goto, TypeOK
<1>4. req'[r].op = req[r].op /\ req'[r].pc = pc
  BY <1>1, <1>3 DEF Busy
<1>5. pc # "idle"
  BY DEF Pcs
<1>6. ~Fail(r)
  BY <1>4, <1>5 DEF Fail, Idle, TypeOK
<1> QED
  BY <1>2, <1>3, <1>4, <1>6 DEF Goto, TypeOK

LEMMA RowTyped ==
  ASSUME TypeOK, NEW r \in Requests, Running(r), NEW d \in Docs,
         NEW pc \in {"save", "update"},
         req' = [req EXCEPT ![r].pc = pc, ![r].row = records[d]]
  PROVE  /\ req' \in [Requests -> {Idle} \cup Busy]
         /\ \A q \in Requests \ {r} : req'[q] = req[q]
         /\ req'[r].op = req[r].op /\ req'[r].pc = pc
         /\ req'[r].row = records[d]
<1>1. req[r] \in Busy /\ records[d] \in Rows
  BY RunningTyped DEF TypeOK
<1>2. [req[r] EXCEPT !.pc = pc, !.row = records[d]] \in Busy
  BY <1>1 DEF Busy
<1>3. req'[r] = [req[r] EXCEPT !.pc = pc, !.row = records[d]]
  BY DEF TypeOK
<1> QED
  BY <1>1, <1>2, <1>3 DEF TypeOK, Busy

LEMMA FailTyped ==
  ASSUME TypeOK, NEW r \in Requests, Fail(r)
  PROVE  /\ req' \in [Requests -> {Idle} \cup Busy]
         /\ \A q \in Requests \ {r} : req'[q] = req[q]
         /\ req'[r] = Idle
BY DEF Fail, TypeOK

-----------------------------------------------------------------------------
(* Every request moves along its own steps.                                *)

LEMMA StepMoves ==
  ASSUME RequestsInv, NEW r \in Requests, Step(r)
  PROVE  Moves(r)
<1>0. TypeOK /\ Shape(r)
  BY DEF RequestsInv
<1>1. Running(r)
  BY DEF Step, Advance, Running, SavePrivateKey, SavePublicKey, SaveTcert,
         Load, ReadForSave, SaveDocument, ReadForEnrich, Enrich, Publish,
         Upload, LogAudit, FailAnywhere, At
<1> USE <1>0, <1>1 DEF Moves, Pcs
<1>2. CASE SavePrivateKey(r) \/ SavePublicKey(r) \/ SaveTcert(r)
  BY <1>2, GotoTyped DEF SavePrivateKey, SavePublicKey, SaveTcert, At
<1>3. CASE Load(r)
  <2>1. req[r].pc = "load" /\ Shape(r)
    BY <1>3 DEF Load, At
  <2>2. Fail(r) \/ (req[r].op.action = "sign" /\ Goto(r, "issue"))
          \/ (req[r].op.action # "sign" /\ Goto(r, "publish"))
    BY <1>3 DEF Load
  <2> QED
    BY <2>1, <2>2, GotoTyped, FailTyped
<1>4. CASE ReadForSave(r) \/ ReadForEnrich(r)
  <2>1. req[r].op.doc \in Docs
    BY <1>4 DEF ReadForSave, ReadForEnrich, At, Shape, Signing
  <2>2. CASE Fail(r)
    BY <2>2, FailTyped
  <2>3. CASE ~Fail(r)
    BY <1>4, <2>1, <2>3, RowTyped DEF ReadForSave, ReadForEnrich, At
  <2> QED
    BY <2>2, <2>3
<1>5. CASE SaveDocument(r) \/ Enrich(r)
  <2>1. Fail(r) \/ (req[r].pc = "save" /\ Goto(r, "enrich"))
          \/ (req[r].pc = "update" /\ Goto(r, "audit"))
    BY <1>5 DEF SaveDocument, Enrich, At
  <2> QED
    BY <2>1, GotoTyped, FailTyped
<1>6. CASE Publish(r) \/ Upload(r)
  <2>1. Fail(r) \/ (req[r].pc = "publish" /\ Goto(r, "upload"))
          \/ (req[r].pc \in {"publish", "upload"} /\ Goto(r, "audit"))
    BY <1>6 DEF Publish, Upload, At
  <2> QED
    BY <2>1, GotoTyped, FailTyped
<1>7. CASE LogAudit(r) \/ FailAnywhere(r)
  BY <1>7, FailTyped DEF LogAudit, FailAnywhere
<1> QED
  BY <1>2, <1>3, <1>4, <1>5, <1>6, <1>7 DEF Step, Advance

LEMMA ShapeKept ==
  ASSUME RequestsInv, NEW r \in Requests, Moves(r)
  PROVE  \A q \in Requests : Shape(q)'
<1> SUFFICES ASSUME NEW q \in Requests PROVE Shape(q)'
  OBVIOUS
<1>1. Shape(q) /\ TypeOK
  BY DEF RequestsInv
<1>2. CASE q # r
  BY <1>1, <1>2 DEF Moves, Shape, Running
<1>3. CASE q = r /\ Fail(r)
  BY <1>1, <1>3, FailTyped
     DEF Idle, Shape, Signing, Creating, Running
<1>4. CASE q = r /\ ~Fail(r)
  <2>1. /\ req'[r].op = req[r].op /\ Running(r)
        /\ req[r].pc = "load" =>
             (req'[r].pc = "issue" <=> req[r].op.action = "sign")
    BY <1>4 DEF Moves
  <2>2. \/ {req[r].pc, req'[r].pc} \subseteq Creating
        \/ req[r].pc \in Signing /\ req'[r].pc \in Signing
        \/ req'[r].pc = "audit"
        \/ req[r].pc = "load" /\ req'[r].pc \in {"issue", "publish"}
        \/ req[r].pc = "publish" /\ req'[r].pc = "upload"
    BY <1>4 DEF Moves, Creating, Signing
  <2> QED
    BY <1>1, <1>4, <2>1, <2>2 DEF Shape, Signing, Creating, Running
<1> QED
  BY <1>2, <1>3, <1>4

LEMMA StepTyped ==
  ASSUME RequestsInv, NEW r \in Requests, Step(r)
  PROVE  RequestsInv'
<1> USE EnterpriseAssumption DEF database, tcertTable, history
<1>0. TypeOK /\ Shape(r) /\ Moves(r)
  BY StepMoves DEF RequestsInv
<1>1. Running(r) /\ req' \in [Requests -> {Idle} \cup Busy]
  BY <1>0 DEF Moves
<1>2. /\ req[r].op \in Operations /\ req[r].row \in Rows
      /\ req[r].op.tcert \in Tcerts /\ req[r].op.user \in Users
      /\ req[r].op.n \in 1..MaxRequests
  BY <1>0, <1>1, RunningTyped DEF Operations
<1>3. req[r].pc \in Signing => req[r].op.doc \in Docs
  BY <1>0, <1>1 DEF Shape
<1>4. TypeOK'
  <2>1. CASE Advance(r) /\ SavePrivateKey(r)
    BY <1>0, <1>1, <1>2, <2>1 DEF Advance, SavePrivateKey, TypeOK
  <2>2. CASE Advance(r) /\ SavePublicKey(r)
    BY <1>0, <1>1, <1>2, <2>2 DEF Advance, SavePublicKey, TypeOK
  <2>3. CASE Advance(r) /\ SaveTcert(r)
    BY <1>0, <1>1, <1>2, <2>3 DEF Advance, SaveTcert, TypeOK
  <2>4. CASE Advance(r) /\ SaveDocument(r)
    <3>1. Kept(r) \in Rows
      <4>1. /\ req[r].op.n \in 0..MaxRequests
            /\ req[r].row.id \in 0..MaxRequests
        BY <1>2 DEF Rows
      <4>2. (IF req[r].row.stored THEN req[r].row.id ELSE req[r].op.n)
              \in 0..MaxRequests
        BY <4>1
      <4> QED
        BY <1>2, <4>2 DEF Kept, Rows
    <3>2. records' \in [Docs -> Rows]
      BY <1>0, <2>4, <3>1 DEF Advance, SaveDocument, TypeOK
    <3> QED
      BY <1>0, <1>1, <2>4, <3>2 DEF Advance, SaveDocument, TypeOK
  <2>5. CASE Advance(r) /\ Enrich(r)
    <3>1. Signed(r) \in Rows
      BY <1>2 DEF Signed, Rows
    <3>2. records' \in [Docs -> Rows]
      BY <1>0, <2>5, <3>1 DEF Advance, Enrich, TypeOK
    <3> QED
      BY <1>0, <1>1, <2>5, <3>2 DEF Advance, Enrich, TypeOK
  <2>6. CASE Advance(r) /\ Upload(r)
    BY <1>0, <1>1, <1>2, <2>6 DEF Advance, Upload, TypeOK
  <2>7. CASE LogAudit(r)
    BY <1>0, <1>1, <1>2, <2>7 DEF LogAudit, TypeOK
  <2>8. CASE \/ /\ Advance(r)
                /\ \/ Load(r) \/ ReadForSave(r) \/ ReadForEnrich(r)
                   \/ Publish(r)
             \/ FailAnywhere(r)
    BY <1>0, <1>1, <2>8 DEF Advance, Load, ReadForSave, ReadForEnrich,
       Publish, FailAnywhere, TypeOK
  <2> QED
    BY <2>1, <2>2, <2>3, <2>4, <2>5, <2>6, <2>7, <2>8 DEF Step, Advance
<1> QED
  BY <1>0, <1>4, ShapeKept DEF RequestsInv

-----------------------------------------------------------------------------
(* Requests that are let in, and what the administrator does.              *)

\* The requests a view lets in, as Accept takes them.
Started(r) ==
  \E pc \in {"private", "load"}, action \in Actions, u \in Users,
     t \in Tcerts, d \in Docs \cup {NoDoc} :
       /\ Accept(r, pc, action, u, t, d)
       /\ action = "sign" => d \in Docs /\ t = IssuerOf[d]
       /\ pc = "private" =>
            /\ action = "create_tcert"
            /\ t \notin Known
            /\ \A o \in Requests : Running(o) => req[o].op.tcert # t
       /\ pc = "load" =>
            /\ action \in StatementActions \cup {"sign"}
            /\ t \in tcerts \/ \E e \in Docs : /\ records[e].stored
                                               /\ t = IssuerOf[e]

\* Nobody is creating the TCert.
NotCreated(t) ==
  \A r \in Requests : req[r].pc \in Creating => req[r].op.tcert # t

\* What the administrator may do to the tables, and leaves alone.
Administration ==
  /\ UNCHANGED <<published, req, answered, stopped>>
  /\ audit \cup erased = audit' \cup erased'
  /\ tcerts' \subseteq tcerts /\ Known \subseteq Known'
  /\ Due' \subseteq Due
  /\ \A t \in Tcerts : \/ NotCreated(t)
                       \/ halves'[t] = halves[t] /\ (t \in Known' => t \in Known)
  /\ \A t \in tcerts' : halves'[t] = halves[t]
  /\ \A d \in Docs : records'[d].stored =>
       /\ records[d].stored
       /\ records'[d].id = records[d].id /\ records'[d].by = records[d].by
       /\ \/ records'[d].tcert = records[d].tcert
          \/ records[d].tcert \notin tcerts'

LEMMA AcceptTyped ==
  ASSUME RequestsInv, NEW r \in Requests, Started(r)
  PROVE  RequestsInv'
<1> USE EnterpriseAssumption
<1>1. PICK pc \in {"private", "load"}, action \in Actions, u \in Users,
           t \in Tcerts, d \in Docs \cup {NoDoc} :
        /\ Accept(r, pc, action, u, t, d)
        /\ action = "sign" => d \in Docs /\ t = IssuerOf[d]
        /\ pc = "private" => action = "create_tcert"
        /\ pc = "load" => action \in StatementActions \cup {"sign"}
  BY DEF Started
<1> DEFINE op == [n |-> requests + 1, action |-> action, user |-> u,
                  tcert |-> t, doc |-> d]
<1>2. requests + 1 \in 1..MaxRequests /\ requests' = requests + 1
  BY <1>1 DEF RequestsInv, TypeOK, Accept, Count
<1>3. op \in Operations
  BY <1>2 DEF Operations
<1>4. NoRow \in Rows
  BY DEF NoRow, Rows
<1>5. [pc |-> pc, row |-> NoRow, op |-> op] \in Busy
  BY <1>3, <1>4 DEF Busy
<1>6. req' = [req EXCEPT ![r] = [pc |-> pc, row |-> NoRow, op |-> op]]
  BY <1>1 DEF Accept
<1>7. TypeOK'
  BY <1>1, <1>2, <1>5, <1>6
     DEF RequestsInv, TypeOK, Accept, database, tcertTable, history
<1>8. ASSUME NEW q \in Requests PROVE Shape(q)'
  <2>1. CASE q = r
    <3>1. /\ req'[q].pc = pc /\ req'[q].op.action = action
          /\ req'[q].op.doc = d /\ req'[q].op.tcert = t
      BY <1>6, <2>1 DEF RequestsInv, TypeOK
    <3> QED
      BY <1>1, <3>1 DEF Shape, Signing, Creating
  <2>2. CASE q # r
    <3>1. req'[q] = req[q]
      BY <1>6, <2>2 DEF RequestsInv, TypeOK
    <3> QED
      BY <3>1 DEF Shape, RequestsInv, Running
  <2> QED
    BY <2>1, <2>2
<1> QED
  BY <1>7, <1>8 DEF RequestsInv

LEMMA AdministerFacts ==
  ASSUME RequestsInv, Administer
  PROVE  TypeOK' /\ Administration
<1> USE EnterpriseAssumption
    DEF RequestsInv, database, tcertTable, history, Known, Due, Elsewhere
<1>1. ASSUME NEW u \in Users, NEW t \in Tcerts, Grant(u, t) \/ Withdraw(u, t)
      PROVE  TypeOK' /\ Administration
  BY <1>1 DEF Grant, Withdraw, TypeOK, Count, Administration
<1>2. ASSUME NEW k \in ApiKeys, CreateApiKey(k) \/ DeleteApiKey(k)
      PROVE  TypeOK' /\ Administration
  BY <1>2 DEF CreateApiKey, DeleteApiKey, TypeOK, Count, Administration
<1>3. ASSUME NEW t \in Tcerts, EditTcert(t)
      PROVE  TypeOK' /\ Administration
  <2>1. TypeOK'
    BY <1>3 DEF EditTcert, Toggled, TypeOK, Count
  <2> QED
    BY <1>3, <2>1 DEF EditTcert, Toggled, TypeOK, Administration
<1>4. ASSUME NEW t \in Tcerts, RemoveTcert(t), Count,
             \/ UNCHANGED halves /\ t \in tcerts
             \/ /\ halves' = [halves EXCEPT ![t] = {}]
                /\ NotCreated(t)
      PROVE  TypeOK' /\ Administration
  <2>1. records' \in [Docs -> Rows]
    <3>1. ASSUME NEW d \in Docs
          PROVE  [records[d] EXCEPT !.tcert = NoTcert] \in Rows
      BY DEF TypeOK, Rows
    <3> QED
      BY <1>4, <3>1 DEF RemoveTcert, TypeOK
  <2>2. halves' \in [Tcerts -> SUBSET {"private", "public"}]
    BY <1>4 DEF TypeOK
  <2>3. TypeOK'
    BY <1>4, <2>1, <2>2 DEF RemoveTcert, TypeOK, Count
  <2>4. ASSUME NEW d \in Docs, records'[d].stored
        PROVE  /\ records[d].stored
               /\ records'[d].id = records[d].id
               /\ records'[d].by = records[d].by
               /\ \/ records'[d].tcert = records[d].tcert
                  \/ records[d].tcert \notin tcerts'
    <3>1. records[d] \in Rows
      BY DEF TypeOK
    <3> QED
      BY <1>4, <2>4, <3>1 DEF RemoveTcert, Rows
  <2>5. ASSUME NEW s \in Tcerts
        PROVE  \/ NotCreated(s)
               \/ halves'[s] = halves[s] /\ (s \in Known' => s \in Known)
    BY <1>4 DEF RemoveTcert, TypeOK
  <2>6. \A s \in tcerts' : halves'[s] = halves[s]
    BY <1>4 DEF RemoveTcert, TypeOK
  <2> QED
    BY <1>4, <2>3, <2>4, <2>5, <2>6 DEF RemoveTcert, Administration, TypeOK
<1>5. ASSUME NEW t \in Tcerts, DeleteTcert(t) \/ DeleteKey(t)
      PROVE  TypeOK' /\ Administration
  <2>1. CASE DeleteTcert(t)
    BY <1>4, <2>1 DEF DeleteTcert
  <2>2. CASE DeleteKey(t)
    <3>1. NotCreated(t)
      <4>1. ASSUME NEW r \in Requests, req[r].pc \in Creating
            PROVE  Running(r) /\ req[r].op.action = "create_tcert"
        BY <4>1 DEF Shape, Running, Creating
      <4> QED
        BY <2>2, <4>1 DEF DeleteKey, NotCreated
    <3> QED
      BY <1>4, <2>2, <3>1 DEF DeleteKey
  <2> QED
    BY <1>5, <2>1, <2>2
<1>6. ASSUME NEW d \in Docs, DeleteRecord(d)
      PROVE  TypeOK' /\ Administration
  <2>1. NoRow \in Rows /\ ~NoRow.stored
    BY DEF NoRow, Rows
  <2> QED
    BY <1>6, <2>1 DEF DeleteRecord, TypeOK, Count, Administration
<1>7. ASSUME NEW o \in audit, DeleteAudit(o)
      PROVE  TypeOK' /\ Administration
  BY <1>7 DEF DeleteAudit, TypeOK, Count, Administration
<1> QED
  BY <1>1, <1>2, <1>3, <1>5, <1>6, <1>7 DEF Administer

LEMMA NextCases ==
  ASSUME Next, RequestsInv
  PROVE  (\E r \in Requests : Step(r) \/ Started(r)) \/ Administer
<1> USE EnterpriseAssumption
<1>1. ASSUME NEW r \in Requests, NEW u \in Users, NEW t \in Tcerts,
             CreateTcert(r, u, t)
      PROVE  Started(r)
  BY <1>1 DEF CreateTcert, Started, Actions, Known
<1>2. ASSUME NEW r \in Requests, NEW u \in Users,
             NEW k \in ApiKeys \cup {NoKey}, NEW d \in Docs,
             SignSdoc(r, u, k, d)
      PROVE  Started(r)
  BY <1>2 DEF SignSdoc, Started, Actions
<1>3. ASSUME NEW r \in Requests, NEW u \in Users,
             NEW k \in ApiKeys \cup {NoKey}, NEW d \in Docs,
             NEW a \in {"block", "unblock"}, BlockOrUnblockSdoc(r, u, k, d, a)
      PROVE  Started(r)
  <2>1. /\ IssuerOf[d] \in Tcerts /\ a \in Actions /\ a # "sign"
        /\ a \in StatementActions
    BY DEF Actions, StatementActions
  <2> QED
    BY <1>3, <2>1 DEF BlockOrUnblockSdoc, Started
<1>4. ASSUME NEW r \in Requests, NEW u \in Users,
             NEW k \in ApiKeys \cup {NoKey}, NEW t \in Tcerts,
             RevokeTcert(r, u, k, t)
      PROVE  Started(r)
  BY <1>4 DEF RevokeTcert, Started, Actions, StatementActions
<1> QED
  BY <1>1, <1>2, <1>3, <1>4 DEF Next

LEMMA RequestsStep ==
  ASSUME RequestsInv, [Next]_vars
  PROVE  RequestsInv'
<1>1. ASSUME NEW r \in Requests, Started(r)
      PROVE  RequestsInv'
  BY <1>1, AcceptTyped
<1>2. ASSUME NEW r \in Requests, Step(r)
      PROVE  RequestsInv'
  BY <1>2, StepTyped
<1>3. CASE UNCHANGED vars
  BY <1>3 DEF vars, database, tcertTable, history, RequestsInv, TypeOK, Shape,
     Running
<1>4. CASE Administer
  BY <1>4, AdministerFacts DEF Administration, RequestsInv, Shape, Running
<1> QED
  BY <1>1, <1>2, <1>3, <1>4, NextCases

(* The tables of the enterprise server and the requests it serves keep     *)
(* their types, and each request is at a step of its own operation.        *)
THEOREM RequestsSound == Spec => []RequestsInv
<1>1. Init => RequestsInv
  <2> USE EnterpriseAssumption
  <2>1. NoRow \in Rows
    BY DEF NoRow, Rows
  <2>2. Init => halves \in [Tcerts -> SUBSET {"private", "public"}]
    BY DEF Init
  <2>3. Init => records \in [Docs -> Rows]
    BY <2>1 DEF Init
  <2>4. Init => req \in [Requests -> {Idle} \cup Busy]
    BY DEF Init
  <2>5. Init => /\ grants \subseteq Users \X Tcerts /\ tcerts \subseteq Tcerts
                /\ cas \subseteq tcerts /\ endpoints \subseteq tcerts
                /\ apiKeys \subseteq ApiKeys /\ audit \subseteq Operations
                /\ erased \subseteq Operations /\ altered \subseteq Tcerts
                /\ published \subseteq Operations
                /\ answered \subseteq Operations
                /\ stopped \in BOOLEAN
    BY DEF Init
  <2>6. Init => requests \in 0..MaxRequests
    BY DEF Init
  <2>7. Init => TypeOK
    BY <2>2, <2>3, <2>4, <2>5, <2>6 DEF TypeOK
  <2> QED
    BY <2>7 DEF Init, RequestsInv, Shape, Idle, Signing, Creating, Running
<1> QED
  BY <1>1, RequestsStep, PTL DEF Spec

(* Type correctness of the enterprise server, for any users, TCerts and    *)
(* numbers of concurrent requests.                                         *)
THEOREM EnterpriseTyped == Spec => []TypeOK
BY RequestsSound, PTL DEF RequestsInv

-----------------------------------------------------------------------------
(* Keys and statements are stored before the request that needs them is    *)
(* answered, and no request takes them back.                               *)

LEMMA StepTables ==
  ASSUME RequestsInv, NEW r \in Requests, Step(r)
  PROVE  /\ \A t \in Tcerts : halves[t] \subseteq halves'[t]
         /\ published \subseteq published' /\ audit \subseteq audit'
         /\ altered' = altered /\ erased' = erased
         /\ \/ tcerts' = tcerts /\ Due' = Due
            \/ /\ req[r].pc = "tcert"
               /\ tcerts' = tcerts \cup {req[r].op.tcert}
               /\ Due' \subseteq Due \cup {req[r].op.tcert}
         /\ \A d \in Docs : records'[d].stored =>
              \/ records[d].stored
              \/ req[r].pc \in Signing /\ d = req[r].op.doc
         /\ \/ answered' = answered
            \/ /\ req[r].pc = "audit" /\ Fail(r)
               /\ answered' = answered \cup {req[r].op}
               /\ req[r].op \in audit'
         /\ stopped => stopped'
<1> USE DEF database, tcertTable, history, Due
<1>0. TypeOK /\ req[r].op.tcert \in Tcerts
  BY StepMoves, RunningTyped DEF RequestsInv, Moves
<1>1. CASE Advance(r) /\ (SavePrivateKey(r) \/ SavePublicKey(r))
  BY <1>0, <1>1 DEF Advance, SavePrivateKey, SavePublicKey, TypeOK
<1>2. CASE Advance(r) /\ SaveTcert(r)
  BY <1>0, <1>2 DEF Advance, SaveTcert, TypeOK, At
<1>3. CASE Advance(r) /\ (SaveDocument(r) \/ Enrich(r))
  <2>1. \A d \in Docs : records'[d].stored =>
          records[d].stored \/ d = req[r].op.doc
    BY <1>0, <1>3 DEF SaveDocument, Enrich, TypeOK
  <2>2. req[r].pc \in Signing
    BY <1>3 DEF SaveDocument, Enrich, At, Signing
  <2> QED
    BY <1>0, <1>3, <2>1, <2>2 DEF Advance, SaveDocument, Enrich
<1>4. CASE Advance(r) /\ Upload(r)
  BY <1>0, <1>4 DEF Advance, Upload
<1>5. CASE LogAudit(r)
  BY <1>0, <1>5 DEF LogAudit, At
<1>6. CASE \/ /\ Advance(r)
              /\ \/ Load(r) \/ ReadForSave(r) \/ ReadForEnrich(r)
                 \/ Publish(r)
           \/ FailAnywhere(r)
  BY <1>6 DEF Advance, Load, ReadForSave, ReadForEnrich, Publish,
     FailAnywhere
<1> QED
  BY <1>1, <1>2, <1>3, <1>4, <1>5, <1>6 DEF Step, Advance

\* What a step of the request itself has stored when it has moved on.
LEMMA StepStores ==
  ASSUME RequestsInv, KeysInv, NEW r \in Requests, Step(r)
  PROVE  Stored(r)'
<1> USE DEF RequestsInv
<1>1. /\ Running(r) /\ req[r] \in Busy /\ req[r].op.tcert \in Tcerts
      /\ Shape(r) /\ Stored(r) /\ Alone(r) /\ TypeOK
  BY StepMoves, RunningTyped DEF Moves, KeysInv
<1>2. CASE Fail(r)
  BY <1>1, <1>2, FailTyped DEF Idle, Stored, Running
<1>3. CASE ~Fail(r)
  <2>1. /\ req'[r].op = req[r].op /\ Moves(r)
        /\ altered' = altered /\ tcerts \subseteq tcerts'
        /\ req[r].op.tcert \in Known => req[r].op.tcert \in Known'
    BY <1>3, StepMoves, StepTables DEF Moves, Known
  <2>2. CASE req[r].pc = "private"
    <3>1. SavePrivateKey(r) /\ req'[r].pc = "public"
      BY <1>3, <2>1, <2>2 DEF Moves, Step, Advance, SavePublicKey, SaveTcert,
         Load, ReadForSave, SaveDocument, ReadForEnrich, Enrich, Publish,
         Upload, LogAudit, FailAnywhere, At
    <3>2. "private" \in halves'[req[r].op.tcert]
      BY <1>1, <3>1 DEF SavePrivateKey, TypeOK
    <3> QED
      BY <2>1, <3>1, <3>2 DEF Stored, Creating
  <2>3. CASE req[r].pc = "public"
    <3>1. SavePublicKey(r) /\ req'[r].pc = "tcert"
      BY <1>3, <2>1, <2>3 DEF Moves, Step, Advance, SavePrivateKey, SaveTcert,
         Load, ReadForSave, SaveDocument, ReadForEnrich, Enrich, Publish,
         Upload, LogAudit, FailAnywhere, At
    <3>2. halves'[req[r].op.tcert] = {"private", "public"}
      BY <1>1, <2>3, <3>1 DEF SavePublicKey, TypeOK, Stored
    <3> QED
      BY <2>1, <3>1, <3>2 DEF Stored, Creating, KeyStored
  <2>4. CASE req[r].pc = "tcert"
    <3>1. SaveTcert(r) /\ req'[r].pc = "audit"
      BY <1>3, <2>1, <2>4 DEF Moves, Step, Advance, SavePrivateKey,
         SavePublicKey, Load, ReadForSave, SaveDocument, ReadForEnrich, Enrich,
         Publish, Upload, LogAudit, FailAnywhere, At
    <3>2. req[r].op.tcert \in Known'
      BY <3>1 DEF SaveTcert, Known
    <3>3. req[r].op.action \notin StatementActions
      BY <1>1, <2>4 DEF Shape, Creating, StatementActions
    <3> QED
      BY <2>1, <3>1, <3>2, <3>3 DEF Stored
  <2>5. CASE req[r].pc \in {"load"} \cup Signing
    <3>1. /\ req'[r].pc \notin Creating
          /\ req'[r].pc = "audit" => req[r].op.action \notin StatementActions
      BY <1>1, <1>3, <2>1, <2>5
         DEF Moves, Signing, Creating, Shape, StatementActions
    <3>2. req[r].op.tcert \in Known'
      BY <1>1, <2>1, <2>5 DEF Stored, Signing, Creating
    <3> QED
      BY <2>1, <3>1, <3>2 DEF Stored, Creating
  <2>6. CASE req[r].pc \in {"publish", "upload"}
    <3>1. /\ Advance(r) /\ (Publish(r) \/ Upload(r))
          /\ req'[r].pc \in {"upload", "audit"}
      BY <1>3, <2>1, <2>6 DEF Moves, Step, Advance, SavePrivateKey,
         SavePublicKey, SaveTcert, Load, ReadForSave, SaveDocument,
         ReadForEnrich, Enrich, LogAudit, FailAnywhere, At
    <3>2. req[r].op.tcert \in Known'
      BY <1>1, <2>1, <2>6 DEF Stored, Creating
    <3>3. Due' = Due
      BY <2>6, StepTables
    <3>4. /\ req'[r].pc = "audit" /\ req[r].op.tcert \in Due
          => req[r].op \in published'
      <4>1. CASE Publish(r)
        BY <1>1, <1>3, <3>1, <4>1, GotoTyped
           DEF Publish, Due, TypeOK, Pcs
      <4>2. CASE Upload(r)
        BY <1>1, <1>3, <4>2 DEF Upload, Due, TypeOK
      <4> QED
        BY <3>1, <4>1, <4>2
    <3> QED
      BY <2>1, <3>1, <3>2, <3>3, <3>4 DEF Stored, Creating
  <2> QED
    BY <1>1, <1>3, <2>1, <2>2, <2>3, <2>4, <2>5, <2>6 DEF Moves, Signing
<1> QED
  BY <1>2, <1>3

\* A request is left with its own TCert by a step of another.
LEMMA StepAlone ==
  ASSUME RequestsInv, KeysInv, NEW r \in Requests, Step(r),
         NEW q \in Requests
  PROVE  Alone(q)'
<1>1. /\ Running(r) /\ Moves(r) /\ Alone(r) /\ Alone(q)
      /\ TypeOK /\ Shape(q)
  BY StepMoves DEF Moves, KeysInv, RequestsInv
<1>2. ASSUME NEW p \in Requests, Running(p)'
      PROVE  Running(p) /\ req'[p].op = req[p].op
  BY <1>1, <1>2, FailTyped DEF Moves, Running, Idle
<1> SUFFICES ASSUME req'[q].pc \in Creating
             PROVE  /\ req'[q].op.tcert \notin Known'
                    /\ \A p \in Requests \ {q} :
                         Running(p)' => req'[p].op.tcert # req'[q].op.tcert
  BY DEF Alone
<1>3. Running(q)' /\ req'[q].op = req[q].op /\ Running(q)
  BY <1>2 DEF Running, Creating
<1>4. req[q].pc \in Creating /\ (q = r => req[r].pc # "tcert")
  <2>1. CASE q = r
    <3>1. ~Fail(r)
      BY <1>3, <2>1, <1>1, FailTyped DEF Idle, Running
    <3> QED
      BY <1>1, <2>1, <3>1 DEF Moves, Creating
  <2>2. CASE q # r
    BY <1>1, <2>2 DEF Moves
  <2> QED
    BY <2>1, <2>2
<1>5. /\ req[q].op.tcert \notin Known
      /\ \A p \in Requests \ {q} :
           Running(p) => req[p].op.tcert # req[q].op.tcert
  BY <1>1, <1>4 DEF Alone
<1>6. \/ Known' = Known
      \/ /\ req[r].pc = "tcert" /\ q # r
         /\ Known' = Known \cup {req[r].op.tcert}
  BY <1>4, StepTables DEF Known
<1> QED
  BY <1>1, <1>2, <1>3, <1>5, <1>6

LEMMA KeysStep ==
  ASSUME RequestsInv, KeysInv, [Next]_vars
  PROVE  KeysInv'
<1> USE EnterpriseAssumption
<1>0. /\ TypeOK
      /\ \A r \in Requests : Running(r) => req[r].op.tcert \in Tcerts
      /\ \A o \in answered : o.tcert \in Tcerts
  BY RunningTyped DEF RequestsInv, TypeOK, Operations
<1>1. ASSUME NEW r \in Requests, Step(r)
      PROVE  KeysInv'
  <2>1. Running(r) /\ Moves(r) /\ Stored(r) /\ Alone(r) /\ Shape(r)
    BY <1>1, StepMoves DEF Moves, KeysInv, RequestsInv
  <2>2. /\ \A t \in Tcerts : KeyStored(t) => KeyStored(t)'
        /\ Known \subseteq Known' /\ published \subseteq published'
    <3>1. halves' \in [Tcerts -> SUBSET {"private", "public"}]
      BY <1>1, StepTyped DEF RequestsInv, TypeOK
    <3> QED
      BY <1>1, <3>1, StepTables DEF KeyStored, Known
  <2>3. ASSUME NEW q \in Requests, q # r PROVE Stored(q)'
    <3>1. req'[q] = req[q] /\ Stored(q)
      BY <2>1, <2>3 DEF Moves, KeysInv
    <3>2. CASE Running(q)
      <4>1. /\ "private" \in halves[req[q].op.tcert]
              => "private" \in halves'[req[q].op.tcert]
            /\ KeyStored(req[q].op.tcert) => KeyStored(req[q].op.tcert)'
        BY <1>0, <1>1, <2>2, <3>1, <3>2, StepTables DEF KeyStored
      <4>2. /\ req[q].pc = "audit" /\ req[q].op.tcert \in Due'
            => req[q].op.tcert \in Due
        <5>1. req[q].pc = "audit" => req[q].op.tcert \in Known
          BY <3>1, <3>2 DEF Stored, Creating
        <5>2. req[r].pc = "tcert" => req[r].op.tcert \notin Known
          BY <2>1 DEF Alone, Creating
        <5> QED
          BY <1>1, <5>1, <5>2, StepTables
      <4> QED
        BY <2>2, <3>1, <3>2, <4>1, <4>2 DEF Stored, Running
    <3>3. CASE ~Running(q)
      BY <3>1, <3>3 DEF Running, Stored
    <3> QED
      BY <3>2, <3>3
  <2>4. ASSUME NEW t \in tcerts' PROVE KeyStored(t)'
    <3>1. t \in tcerts \/ (req[r].pc = "tcert" /\ t = req[r].op.tcert)
      BY <1>1, StepTables
    <3>2. t \in Tcerts /\ KeyStored(t)
      BY <1>0, <2>1, <3>1 DEF Stored, KeysInv, TypeOK
    <3> QED
      BY <2>2, <3>2
  <2>5. ASSUME NEW d \in Docs, records'[d].stored
        PROVE  IssuerOf[d] \in Known'
    <3>1. records[d].stored
            \/ (req[r].pc \in Signing /\ d = req[r].op.doc)
      BY <1>1, <2>5, StepTables
    <3>2. IssuerOf[d] \in Known
      BY <2>1, <3>1 DEF Stored, Shape, Signing, Creating, KeysInv
    <3> QED
      BY <2>2, <3>2
  <2>6. ASSUME NEW o \in answered' PROVE o.tcert \in Known'
    <3>1. o \in answered \/ (req[r].pc = "audit" /\ o = req[r].op)
      BY <1>1, <2>6, StepTables
    <3>2. o.tcert \in Known
      BY <2>1, <3>1 DEF Stored, Creating, KeysInv
    <3> QED
      BY <2>2, <3>2
  <2>7. \A q \in Requests : Alone(q)' /\ Stored(q)'
    BY <1>1, <2>3, StepAlone, StepStores
  <2> QED
    BY <2>4, <2>5, <2>6, <2>7 DEF KeysInv
<1>2. ASSUME NEW r \in Requests, Started(r)
      PROVE  KeysInv'
  <2>1. PICK pc \in {"private", "load"}, action \in Actions,
             u \in Users, t \in Tcerts, d \in Docs \cup {NoDoc} :
          /\ Accept(r, pc, action, u, t, d)
          /\ pc = "private" =>
               /\ t \notin Known
               /\ \A o \in Requests : Running(o) => req[o].op.tcert # t
          /\ pc = "load" =>
               t \in tcerts \/ \E e \in Docs : /\ records[e].stored
                                              /\ t = IssuerOf[e]
    BY <1>2 DEF Started
  <2>2. /\ req'[r].pc = pc /\ req'[r].op.tcert = t /\ ~Running(r)
        /\ \A q \in Requests \ {r} : req'[q] = req[q]
    BY <1>0, <2>1 DEF Accept, TypeOK
  <2>3. /\ halves' = halves /\ records' = records /\ published' = published
        /\ answered' = answered /\ tcerts' = tcerts
        /\ Known' = Known /\ Due' = Due
    BY <2>1 DEF Accept, database, tcertTable, history, Known, Due
  <2>4. pc = "load" => t \in Known
    BY <2>1 DEF KeysInv, Known
  <2>5. Stored(r)'
    BY <2>2, <2>3, <2>4 DEF Stored, Creating
  <2>6. Alone(r)'
    BY <2>1, <2>2, <2>3 DEF Alone, Creating, Running
  <2>7. ASSUME NEW q \in Requests, q # r PROVE Alone(q)' /\ Stored(q)'
    <3>1. req'[q] = req[q] /\ Alone(q) /\ Stored(q)
      BY <2>2, <2>7 DEF KeysInv
    <3>2. Stored(q)'
      BY <2>3, <3>1 DEF Stored, KeyStored, Running
    <3>3. req[q].pc \in Creating => req[q].op.tcert # t
      <4>1. req[q].pc \in Creating => Running(q) /\ req[q].op.tcert \notin Known
        BY <3>1 DEF Alone, Running, Creating
      <4> QED
        BY <2>1, <2>4, <4>1
    <3>4. Alone(q)'
      BY <2>2, <2>3, <3>1, <3>3 DEF Alone, Running
    <3> QED
      BY <3>2, <3>4
  <2> QED
    BY <2>3, <2>5, <2>6, <2>7 DEF KeysInv, KeyStored
<1>3. CASE Administer
  <2>1. Administration
    BY <1>3, AdministerFacts
  <2>2. /\ req' = req /\ published' = published /\ answered' = answered
        /\ tcerts' \subseteq tcerts /\ Known \subseteq Known'
        /\ Due' \subseteq Due
        /\ \A t \in tcerts' : halves'[t] = halves[t]
        /\ \A d \in Docs : records'[d].stored => records[d].stored
    BY <2>1 DEF Administration
  <2>3. ASSUME NEW q \in Requests PROVE Alone(q)' /\ Stored(q)'
    <3>1. Alone(q) /\ Stored(q)
      BY DEF KeysInv
    <3>2. req[q].pc \in Creating =>
            /\ halves'[req[q].op.tcert] = halves[req[q].op.tcert]
            /\ req[q].op.tcert \in Known' => req[q].op.tcert \in Known
      BY <1>0, <2>1 DEF Administration, NotCreated, Running, Creating
    <3>3. Alone(q)'
      BY <2>2, <3>1, <3>2 DEF Alone, Running
    <3>4. Stored(q)'
      BY <2>2, <3>1, <3>2 DEF Stored, KeyStored, Running, Creating
    <3> QED
      BY <3>3, <3>4
  <2> QED
    BY <2>2, <2>3 DEF KeysInv, KeyStored
<1>4. CASE UNCHANGED vars
  BY <1>4 DEF vars, database, tcertTable, history, KeysInv, KeyStored, Stored,
     Alone, Running, Known, Due
<1> QED
  BY <1>1, <1>2, <1>3, <1>4, NextCases

(* The invariant of the keys: both halves are stored before a TCert is,    *)
(* whoever signs with it works on a TCert that is or was in the database,  *)
(* and a TCert being created has no other request, in every interleaving.  *)
THEOREM KeysSound == Spec => [](RequestsInv /\ KeysInv)
<1>1. Init /\ RequestsInv => KeysInv
  BY EnterpriseAssumption
     DEF Init, KeysInv, KeyStored, Stored, Alone, Idle, Creating, NoRow,
         Running, RequestsInv, TypeOK
<1>2. RequestsInv /\ KeysInv /\ [Next]_vars => RequestsInv' /\ KeysInv'
  BY KeysStep, RequestsStep
<1> QED
  BY <1>1, <1>2, RequestsSound, PTL DEF Spec

(* Whatever the enterprise server answered with success is in the audit    *)
(* trail unless the administrator erased it there; was published if the    *)
(* signer's TCert is a CA with an endpoint that the administrator neither  *)
(* edited nor deleted; and, while its TCert is there, so are both halves   *)
(* of the key it was signed by, whatever failed in between (services.py).  *)
THEOREM AnsweredRecorded == Spec => []AnsweredIsRecorded
<1>1. Init => AnsweredIsRecorded
  BY DEF Init, AnsweredIsRecorded
<1>2. ASSUME RequestsInv, KeysInv, AnsweredIsRecorded, [Next]_vars
      PROVE  AnsweredIsRecorded'
  <2>1. \A o \in answered' : o.tcert \in tcerts' => KeyStored(o.tcert)'
    BY <1>2, KeysStep DEF KeysInv
  <2>2. ASSUME NEW r \in Requests, Step(r), NEW o \in answered'
        PROVE  /\ o \in audit' \cup erased'
               /\ o.action \in StatementActions /\ o.tcert \in Due'
                    => o \in published'
    <3>1. Stored(r) /\ Alone(r)
      BY <1>2 DEF KeysInv
    <3>2. CASE o \in answered
      <4>1. o.tcert \in Known
        BY <1>2, <3>2 DEF KeysInv
      <4>2. req[r].pc = "tcert" => req[r].op.tcert \notin Known
        BY <3>1 DEF Alone, Creating
      <4>3. o.tcert \in Due' => o.tcert \in Due
        BY <1>2, <2>2, <4>1, <4>2, StepTables
      <4> QED
        BY <1>2, <2>2, <3>2, <4>3, StepTables DEF AnsweredIsRecorded, Due
    <3>3. CASE o \notin answered
      <4>1. /\ req[r].pc = "audit" /\ o = req[r].op /\ o \in audit'
            /\ Due' = Due /\ published \subseteq published'
        BY <1>2, <2>2, <3>3, StepTables
      <4> QED
        BY <3>1, <4>1 DEF Stored
    <3> QED
      BY <3>2, <3>3
  <2>3. ASSUME NEW r \in Requests, Started(r), NEW o \in answered'
        PROVE  /\ o \in audit' \cup erased'
               /\ o.action \in StatementActions /\ o.tcert \in Due'
                    => o \in published'
    <3>1. UNCHANGED <<answered, audit, erased, published, cas, endpoints,
                      altered>>
      BY <2>3 DEF Started, Accept, database, tcertTable, history
    <3> QED
      BY <1>2, <3>1 DEF AnsweredIsRecorded, Due
  <2>4. ASSUME Administer \/ UNCHANGED vars, NEW o \in answered'
        PROVE  /\ o \in audit' \cup erased'
               /\ o.action \in StatementActions /\ o.tcert \in Due'
                    => o \in published'
    <3>1. /\ answered' = answered /\ published' = published
          /\ audit' \cup erased' = audit \cup erased /\ Due' \subseteq Due
      BY <1>2, <2>4, AdministerFacts
         DEF Administration, vars, database, tcertTable, history, Due
    <3> QED
      BY <1>2, <3>1 DEF AnsweredIsRecorded, Due
  <2> QED
    BY <1>2, <2>1, <2>2, <2>3, <2>4, NextCases DEF AnsweredIsRecorded, Due
<1> QED
  BY <1>1, <1>2, KeysSound, PTL DEF Spec

-----------------------------------------------------------------------------
(* Which steps touch the records, and what they leave there.               *)

\* What keeps a record linked: it stays as it is, and the requests for its
\* document go on towards what they were about to do.
LEMMA LinkedKept ==
  ASSUME NEW d \in Docs, Linked(d),
         records'[d].id = records[d].id, records'[d].by = records[d].by,
         records[d].tcert = IssuerOf[d] => records'[d].tcert = IssuerOf[d],
         audit \cup erased \subseteq audit' \cup erased',
         \A q \in Requests : Running(q) /\ req'[q] # req[q] =>
           /\ req[q].pc = "enrich" /\ req[q].op.doc = d => Links(q, d)'
           /\ /\ req[q].pc = "audit" /\ req[q].op.doc = d
              /\ req[q].op.action = "sign"
              => req[q].op \in audit' \cup erased'
           /\ ~(req[q].pc = "update" /\ Links(q, d)),
         \A q \in Requests : Links(q, d)' => Running(q)'
  PROVE  Linked(d)'
<1>1. ASSUME NEW q \in Requests, Running(q), Links(q, d)
      PROVE  Links(q, d)'
  <2>1. CASE req'[q] = req[q]
    BY <1>1, <2>1 DEF Links
  <2>2. CASE req'[q] # req[q]
    BY <1>1, <2>2 DEF Links
  <2> QED
    BY <2>1, <2>2
<1>2. CASE BeingLinked(d)
  BY <1>1, <1>2 DEF BeingLinked, Linked
<1>3. ASSUME BeingAudited(d) PROVE BeingAudited(d)' \/ Audited(d)'
  BY <1>3 DEF BeingAudited, Audited, Running
<1>4. Audited(d) => Audited(d)'
  BY DEF Audited
<1> QED
  BY <1>2, <1>3, <1>4 DEF Linked

LEMMA RecordsStep ==
  ASSUME RequestsInv, KeysInv, RecordsInv, [Next]_vars
  PROVE  RecordsInv'
<1> SUFFICES ASSUME ~stopped', NEW d \in Docs, records'[d].stored,
                    IssuerOf[d] \in tcerts'
             PROVE  Linked(d)'
  BY DEF RecordsInv
<1>0. TypeOK
  BY DEF RequestsInv
<1>1. ASSUME NEW r \in Requests, Step(r)
      PROVE  Linked(d)'
  <2>1. /\ ~stopped /\ audit \cup erased \subseteq audit' \cup erased'
        /\ Running(r) /\ Moves(r) /\ Shape(r) /\ Alone(r)
        /\ req[r] \in Busy /\ req[r].op \in Operations
        /\ req[r].row \in Rows
        /\ \A q \in Requests \ {r} : req'[q] = req[q]
    BY <1>0, <1>1, StepMoves, StepTables, RunningTyped
       DEF Moves, RequestsInv, KeysInv
  <2>2. records[d].stored => IssuerOf[d] \in tcerts /\ Linked(d)
    <3>1. records[d].stored => IssuerOf[d] \in Known
      BY DEF KeysInv
    <3>2. \/ tcerts' = tcerts
          \/ /\ tcerts' = tcerts \cup {req[r].op.tcert}
             /\ req[r].op.tcert \notin Known
      BY <1>1, <2>1, StepTables DEF Alone, Creating
    <3> QED
      BY <2>1, <3>1, <3>2 DEF RecordsInv
  <2>3. \A q \in Requests : Links(q, d)' => Running(q)'
    BY DEF Links, Running
  <2>4. ~FailAnywhere(r)
    BY DEF FailAnywhere
  <2>5. CASE SaveDocument(r) /\ req[r].op.doc = d /\ ~Fail(r)
    <3>1. Goto(r, "enrich")
      BY <2>5 DEF SaveDocument
    <3>2. req'[r].pc = "enrich" /\ req'[r].op.doc = d
      BY <1>0, <2>1, <2>5, <3>1, GotoTyped DEF Pcs
    <3> QED
      BY <2>3, <3>2 DEF Linked, BeingLinked, Links
  <2>6. CASE Enrich(r) /\ req[r].op.doc = d /\ ~Fail(r)
    <3>1. /\ Goto(r, "audit") /\ records'[d] = Signed(r)
      BY <1>0, <2>6 DEF Enrich, TypeOK
    <3>2. /\ req'[r].pc = "audit" /\ req'[r].op = req[r].op
          /\ records'[d].tcert = req[r].op.tcert
          /\ records'[d].by = req[r].op.user
      BY <1>0, <2>1, <3>1, GotoTyped DEF Signed, Rows, Pcs
    <3>3. req[r].op.action = "sign" /\ req[r].op.tcert = IssuerOf[d]
      BY <2>1, <2>6 DEF Enrich, At, Shape, Signing
    <3> QED
      BY <2>6, <3>2, <3>3 DEF Linked, BeingAudited
  <2>7. CASE /\ SaveDocument(r) => req[r].op.doc # d \/ Fail(r)
             /\ Enrich(r) => req[r].op.doc # d \/ Fail(r)
    <3>1. records'[d] = records[d]
      <4>1. CASE SaveDocument(r) \/ Enrich(r)
        <5>1. ASSUME NEW pc \in Pcs, Goto(r, pc)
              PROVE  ~Fail(r)
          BY <1>0, <2>1, <5>1, GotoTyped
        <5>2. "enrich" \in Pcs /\ "audit" \in Pcs
          BY DEF Pcs
        <5> QED
          BY <1>0, <2>7, <4>1, <5>1, <5>2 DEF SaveDocument, Enrich, TypeOK
      <4>2. CASE ~SaveDocument(r) /\ ~Enrich(r)
        BY <1>1, <4>2 DEF Step, Advance, SavePrivateKey, SavePublicKey,
           SaveTcert, Load, ReadForSave, ReadForEnrich, Publish, Upload,
           LogAudit, FailAnywhere, database
      <4> QED
        BY <4>1, <4>2
    <3>2. Linked(d) /\ records[d].stored /\ IssuerOf[d] \in tcerts
      BY <2>2, <3>1
    <3>3. req[r].pc = "enrich" /\ req[r].op.doc = d => Links(r, d)'
      <4>1. SUFFICES ASSUME req[r].pc = "enrich", req[r].op.doc = d
                     PROVE  Links(r, d)'
        OBVIOUS
      <4>2. ReadForEnrich(r)
        BY <1>1, <2>4, <4>1 DEF Step, Advance, SavePrivateKey, SavePublicKey,
           SaveTcert, Load, ReadForSave, SaveDocument, Enrich, Publish,
           Upload, LogAudit, At
      <4>3. req' = [req EXCEPT ![r].pc = "update", ![r].row = records[d]]
        BY <3>2, <4>1, <4>2 DEF ReadForEnrich
      <4>4. /\ req'[r].pc = "update" /\ req'[r].op = req[r].op
            /\ req'[r].row = records[d]
        BY <1>0, <2>1, <4>3, RowTyped
      <4> QED
        BY <3>1, <4>1, <4>4 DEF Links
    <3>4. /\ req[r].pc = "audit" /\ req[r].op.doc = d
          => req[r].op \in audit' \/ req[r].op.action # "sign"
      <4>1. req[r].pc = "audit" => LogAudit(r)
        BY <1>1, <2>4 DEF Step, Advance, SavePrivateKey, SavePublicKey,
           SaveTcert, Load, ReadForSave, SaveDocument, ReadForEnrich, Enrich,
           Publish, Upload, At
      <4>2. req[r].op.action = "sign" =>
              req[r].op.tcert = IssuerOf[req[r].op.doc]
        BY <2>1 DEF Shape
      <4> QED
        BY <3>2, <4>1, <4>2 DEF LogAudit, StatementActions
    <3>5. ~(req[r].pc = "update" /\ Links(r, d))
      <4>1. SUFFICES ASSUME req[r].pc = "update", Links(r, d)
                     PROVE  FALSE
        OBVIOUS
      <4>2. Enrich(r) /\ req[r].op.doc = d
        BY <1>1, <2>4, <4>1 DEF Step, Advance, SavePrivateKey, SavePublicKey,
           SaveTcert, Load, ReadForSave, SaveDocument, ReadForEnrich, Publish,
           Upload, LogAudit, At, Links
      <4>3. Fail(r) /\ Signed(r).tcert = IssuerOf[d]
            /\ Signed(r).id = records[d].id
        BY <2>1, <2>7, <4>1, <4>2 DEF Signed, Rows, Links, Shape, Signing
      <4>4. "audit" \in Pcs
        BY DEF Pcs
      <4>5. ~Goto(r, "audit")
        BY <1>0, <2>1, <4>3, <4>4, GotoTyped
      <4>6. Refused(d, Signed(r))
        BY <4>2, <4>5 DEF Enrich
      <4> QED
        BY <3>2, <4>3, <4>6 DEF Refused
    <3> QED
      BY <2>1, <2>3, <3>1, <3>2, <3>3, <3>4, <3>5, LinkedKept
  <2> QED
    BY <2>5, <2>6, <2>7
<1>2. ASSUME NEW r \in Requests, Started(r)
      PROVE  Linked(d)'
  <2>1. /\ UNCHANGED <<records, audit, erased, tcerts, stopped>> /\ ~Running(r)
        /\ \A q \in Requests \ {r} : req'[q] = req[q]
    BY <1>0, <1>2 DEF Started, Accept, database, tcertTable, history, TypeOK
  <2>2. Linked(d)
    BY <2>1 DEF RecordsInv
  <2>3. \A q \in Requests : Links(q, d)' => Running(q)'
    BY DEF Links, Running
  <2> QED
    BY <2>1, <2>2, <2>3, LinkedKept
<1>3. CASE Administer \/ UNCHANGED vars
  <2>1. /\ UNCHANGED <<req, stopped>> /\ tcerts' \subseteq tcerts
        /\ audit \cup erased = audit' \cup erased'
        /\ records[d].stored /\ records'[d].id = records[d].id
        /\ records'[d].by = records[d].by
        /\ \/ records'[d].tcert = records[d].tcert
           \/ records[d].tcert \notin tcerts'
    BY <1>3, AdministerFacts
       DEF Administration, vars, database, tcertTable, history
  <2>2. Linked(d)
    BY <2>1 DEF RecordsInv
  <2>3. \A q \in Requests : Links(q, d)' => Running(q)'
    BY DEF Links, Running
  <2> QED
    BY <2>1, <2>2, <2>3, LinkedKept
<1> QED
  BY <1>1, <1>2, <1>3, NextCases

(* When no request for a document is running any more and none has broken  *)
(* off, its record names its TCert, if that is still there, and a signer   *)
(* whose signature was written to the audit trail, however many requests   *)
(* signed it at once and whatever the administrator deleted meanwhile      *)
(* (sign_sdoc, OrmDocumentStore.save).                                     *)
THEOREM RecordsNameSigners == Spec => []RecordNamesItsSigner
<1>1. Init => RecordsInv
  BY DEF Init, RecordsInv, NoRow
<1>2. RecordsInv => RecordNamesItsSigner
  BY DEF RecordsInv, RecordNamesItsSigner, Linked, BeingLinked, Links,
         BeingAudited, Audited, Running
<1> QED
  BY <1>1, <1>2, RecordsStep, KeysSound, PTL DEF Spec
=============================================================================
