----------------------------- MODULE Enterprise -----------------------------
(***************************************************************************)
(* The enterprise server (qrs-enterprise/enterprise): its database, the    *)
(* requests that create TCerts, sign SDocs and issue statements with the   *)
(* keys it keeps, and the administrator, who edits and deletes rows in the *)
(* Django admin, all running side by side.  Every write and every read     *)
(* that decides is a step, and so is the call to the distribution server;  *)
(* no request runs in a transaction, so the server may be stopped between  *)
(* two steps of it.                                                        *)
(*                                                                         *)
(* Each view builds a runtime of its own (views.py, runtime.py), and the   *)
(* trust and revocation stores of a runtime start empty and are not filled *)
(* from the database: a request knows no CA, no attestation, no revocation *)
(* and no block but its own.  Hence no state for them here: a signer acts  *)
(* on its own TCerts and SDocs only, and `attest' is refused.  An SDoc     *)
(* stands for what one TCert signs over one set of values in one second:   *)
(* Ed25519 signs it to the same bytes, and so the same id, every time.     *)
(*                                                                         *)
(* The server publishes a statement only if the signer's TCert is a CA     *)
(* (services.py:206, 233, 259); comments above those lines speak of the    *)
(* signer's endpoint, which a TCert that is no CA may have as well.        *)
(*                                                                         *)
(* Users and what they may do are constants; of what the Django admin can  *)
(* do with the other tables, rows added by hand are left out.              *)
(***************************************************************************)
EXTENDS Naturals, FiniteSets

CONSTANTS
  Users, Admins,
  ApiKeys,      \* scoped keys that external systems may come to have
  OwnerOf,      \* [ApiKeys -> Users]
  ScopeOf,      \* [ApiKeys -> SUBSET Permissions]
  UserScopeOf,  \* [Users -> SUBSET Permissions]: Django permissions
  Tcerts,       \* TCert ids the server may come to create, a key each
  Cas,          \* those created with is_ca
  Schemaless,   \* those created with no fields
  Endpoint,     \* those created with an online endpoint
  LoadedTcerts, LoadedApiKeys, \* those in the database when it starts
  Docs,
  IssuerOf,     \* [Docs -> Tcerts]
  Requests,     \* requests in progress at the same time
  NoUser, NoKey, NoTcert, NoDoc,
  MaxRequests   \* bound: requests, administration and stops in a behaviour

Permissions == {"can_sign", "can_revoke_tcert", "can_block_sdoc",
                "can_unblock_sdoc"}

ASSUME EnterpriseAssumption ==
  /\ Admins \subseteq Users
  /\ OwnerOf \in [ApiKeys -> Users]
  /\ ScopeOf \in [ApiKeys -> SUBSET Permissions]
  /\ UserScopeOf \in [Users -> SUBSET Permissions]
  /\ Cas \subseteq Tcerts /\ Schemaless \subseteq Tcerts
  /\ Endpoint \subseteq Tcerts /\ LoadedTcerts \subseteq Tcerts
  /\ LoadedApiKeys \subseteq ApiKeys
  /\ IssuerOf \in [Docs -> Tcerts]
  /\ NoUser \notin Users /\ NoKey \notin ApiKeys
  /\ NoTcert \notin Tcerts /\ NoDoc \notin Docs
  /\ MaxRequests \in Nat

VARIABLES
  halves,     \* ManagedKey rows: [Tcerts -> halves of its key stored]
  tcerts,     \* ManagedTcert rows
  cas,        \* those with is_ca
  endpoints,  \* those with an online_endpoint
  grants,     \* TcertGrant rows: <<user, tcert>>
  apiKeys,    \* ApiKey rows
  records,    \* SdocRecord rows: [Docs -> row], the issuer and signer it names
  audit,      \* AuditLog rows
  published,  \* statements the distribution server has stored
  req,        \* [Requests -> the request being served]
  answered,   \* history: operations answered with 201
  altered,    \* history: TCerts the administrator has edited or deleted
  erased,     \* history: operations whose audit row he has deleted
  requests,   \* requests so far: numbers them (and bounds them)
  stopped     \* history: was the server ever stopped?

tcertTable == <<tcerts, cas, endpoints>>
database == <<halves, tcertTable, grants, apiKeys, records, audit>>
history == <<answered, altered, erased, stopped>>
vars == <<database, published, req, history, requests>>

\* A row is told from another of the same document by the number of the
\* request that inserted it.
NoRow == [stored |-> FALSE, id |-> 0, tcert |-> NoTcert, by |-> NoUser]
Rows == [stored: BOOLEAN, id: 0..MaxRequests, tcert: Tcerts \cup {NoTcert},
         by: Users \cup {NoUser}]

StatementActions == {"revoke", "block", "unblock"}
Actions == {"create_tcert", "sign"} \cup StatementActions
Operations == [n: 1..MaxRequests, action: Actions, user: Users,
               tcert: Tcerts, doc: Docs \cup {NoDoc}]

Idle == [pc |-> "idle"]
Busy == [pc: {"private", "public", "tcert", "load", "issue", "save",
              "enrich", "update", "publish", "upload", "audit"},
         op: Operations, row: Rows]

Running(r) == req[r].pc # "idle"

-----------------------------------------------------------------------------
(* Who may do what.  With an API key the scope of the key decides, and for *)
(* signing also what its owner may do.                                     *)

MaySignWith(u, t) == u \in Admins \/ <<u, t>> \in grants

MayDo(u, k, permission) ==
  IF k = NoKey THEN u \in Admins \/ permission \in UserScopeOf[u]
  ELSE permission \in ScopeOf[k]

\* The session user, or the owner of a key that is still there.
Authenticated(u, k) == k = NoKey \/ (k \in apiKeys /\ u = OwnerOf[k])

-----------------------------------------------------------------------------
(* A request starts once its view has checked it; what the view refuses    *)
(* changes nothing and has no step.                                        *)

Count == requests < MaxRequests /\ requests' = requests + 1

Accept(r, pc, action, u, t, d) ==
  /\ ~Running(r)
  /\ Count
  /\ req' = [req EXCEPT ![r] =
       [pc |-> pc, row |-> NoRow,
        op |-> [n |-> requests + 1, action |-> action, user |-> u,
                tcert |-> t, doc |-> d]]]
  /\ UNCHANGED <<database, published, history>>

\* A new key pair every time: no two requests make the same TCert.
CreateTcert(r, u, t) ==
  /\ u \in Admins
  /\ halves[t] = {} /\ t \notin tcerts \cup altered
  /\ \A o \in Requests : Running(o) => req[o].op.tcert # t
  /\ Accept(r, "private", "create_tcert", u, t, NoDoc)

\* TcertSignView, which takes an API key of any scope; ExternalSignView asks
\* for `can_sign' as well, and so lets nobody in whom this one does not.
SignSdoc(r, u, k, d) ==
  /\ Authenticated(u, k)
  /\ IssuerOf[d] \in tcerts \ Schemaless
  /\ MaySignWith(u, IssuerOf[d])
  /\ Accept(r, "load", "sign", u, IssuerOf[d], d)

\* The signer is the TCert's own key, which may revoke its own TCerts only.
RevokeTcert(r, u, k, t) ==
  /\ Authenticated(u, k)
  /\ MayDo(u, k, "can_revoke_tcert")
  /\ t \in tcerts
  /\ Accept(r, "load", "revoke", u, t, NoDoc)

\* The signer must be the key that signed the SDoc.
BlockOrUnblockSdoc(r, u, k, d, action) ==
  /\ Authenticated(u, k)
  /\ MayDo(u, k, IF action = "block" THEN "can_block_sdoc"
                 ELSE "can_unblock_sdoc")
  /\ records[d].stored
  /\ Accept(r, "load", action, u, IssuerOf[d], d)

-----------------------------------------------------------------------------
(* The steps of a request.                                                 *)

At(r, pc) == req[r].pc = pc

Goto(r, pc) == req' = [req EXCEPT ![r].pc = pc]

\* Answered with an error: what it has done so far stays.
Fail(r) == req' = [req EXCEPT ![r] = Idle]

KeyStored(t) == halves[t] = {"private", "public"}

\* Mutant: without a vault the key is stored as it is.
SavePlaintextKey(r) ==
  /\ At(r, "private")
  /\ halves' = [halves EXCEPT ![req[r].op.tcert] = @ \cup {"plaintext"}]
  /\ Goto(r, "public")
  /\ UNCHANGED <<tcertTable, grants, apiKeys, records, audit, published>>

\* generate_key_pair stores the private half, then the public one.
SavePrivateKey(r) ==
  /\ At(r, "private")
  /\ halves' = [halves EXCEPT ![req[r].op.tcert] = @ \cup {"private"}]
  /\ Goto(r, "public")
  /\ UNCHANGED <<tcertTable, grants, apiKeys, records, audit, published>>

SavePublicKey(r) ==
  /\ At(r, "public")
  /\ halves' = [halves EXCEPT ![req[r].op.tcert] = @ \cup {"public"}]
  /\ Goto(r, "tcert")
  /\ UNCHANGED <<tcertTable, grants, apiKeys, records, audit, published>>

\* The certificate store has no row to fill; create_tcert adds it.
SaveTcert(r) ==
  /\ At(r, "tcert")
  /\ LET t == req[r].op.tcert
     IN /\ tcerts' = tcerts \cup {t}
        /\ cas' = cas \cup ({t} \cap Cas)
        /\ endpoints' = endpoints \cup ({t} \cap Endpoint)
  /\ Goto(r, "audit")
  /\ UNCHANGED <<halves, grants, apiKeys, records, audit, published>>

\* The key, and to sign an SDoc the TCert, is read and the object signed.
Load(r) ==
  /\ At(r, "load")
  /\ LET op == req[r].op
     IN IF \/ ~KeyStored(op.tcert)
           \/ op.action = "sign" /\ op.tcert \notin tcerts
        THEN Fail(r)
        ELSE Goto(r, IF op.action = "sign" THEN "issue" ELSE "publish")
  /\ UNCHANGED <<database, published>>

\* The document store looks for a row of the document.
ReadForSave(r) ==
  /\ At(r, "issue")
  /\ req' = [req EXCEPT ![r].pc = "save", ![r].row = records[req[r].op.doc]]
  /\ UNCHANGED <<database, published>>

\* A row is written back whole, and inserted again if it was deleted.  The
\* database refuses a second row of a document and a TCert that is gone.
Refused(d, row) ==
  \/ records[d].stored /\ records[d].id # row.id
  \/ row.tcert \notin tcerts \cup {NoTcert}

\* The row SaveDocument writes: the one found, or a new one.
Kept(r) ==
  LET found == req[r].row
  IN [found EXCEPT !.stored = TRUE,
                   !.id = IF found.stored THEN @ ELSE req[r].op.n]

\* Mutant: a document that was found is not linked to its signer again.
SaveDocumentOnce(r) ==
  /\ At(r, "save")
  /\ LET d == req[r].op.doc
     IN IF Refused(d, req[r].row)
        THEN Fail(r) /\ UNCHANGED records
        ELSE /\ records' = [records EXCEPT ![d] = Kept(r)]
             /\ Goto(r, IF req[r].row.stored THEN "audit" ELSE "enrich")
  /\ UNCHANGED <<halves, tcertTable, grants, apiKeys, audit, published>>

SaveDocument(r) ==
  /\ At(r, "save")
  /\ LET d == req[r].op.doc
     IN IF Refused(d, req[r].row)
        THEN Fail(r) /\ UNCHANGED records
        ELSE /\ records' = [records EXCEPT ![d] = Kept(r)]
             /\ Goto(r, "enrich")
  /\ UNCHANGED <<halves, tcertTable, grants, apiKeys, audit, published>>

ReadForEnrich(r) ==
  /\ At(r, "enrich")
  /\ LET row == records[req[r].op.doc]
     IN IF row.stored
        THEN req' = [req EXCEPT ![r].pc = "update", ![r].row = row]
        ELSE Fail(r)
  /\ UNCHANGED <<database, published>>

\* The record with its issuer and signer.
Signed(r) ==
  [req[r].row EXCEPT !.tcert = req[r].op.tcert, !.by = req[r].op.user]

Enrich(r) ==
  /\ At(r, "update")
  /\ LET d == req[r].op.doc
     IN IF Refused(d, Signed(r))
        THEN Fail(r) /\ UNCHANGED records
        ELSE /\ records' = [records EXCEPT ![d] = Signed(r)]
             /\ Goto(r, "audit")
  /\ UNCHANGED <<halves, tcertTable, grants, apiKeys, audit, published>>

\* The statement is to be published if the signer's TCert is a CA.
Publish(r) ==
  /\ At(r, "publish")
  /\ LET t == req[r].op.tcert
     IN IF halves[t] = {} THEN Fail(r)
        ELSE Goto(r, IF t \in tcerts \cap cas THEN "upload" ELSE "audit")
  /\ UNCHANGED <<database, published>>

\* Mutant: a failed upload is taken for a TCert without an endpoint.
UploadOrSkip(r) ==
  /\ At(r, "upload")
  /\ \/ published' = published \cup {req[r].op}
     \/ UNCHANGED published
  /\ Goto(r, "audit")
  /\ UNCHANGED database

\* If that TCert has an endpoint the statement is uploaded: challenge, proof
\* of work, token, upload, each of which may fail; and an upload may be
\* stored and its answer lost.
Upload(r) ==
  /\ At(r, "upload")
  /\ LET t == req[r].op.tcert
     IN \/ /\ t \in tcerts \ endpoints
           /\ Goto(r, "audit")
           /\ UNCHANGED published
        \/ /\ t \in tcerts \cap endpoints
           /\ published' = published \cup {req[r].op}
           /\ Goto(r, "audit") \/ Fail(r)
        \/ /\ t \in tcerts => t \in endpoints
           /\ Fail(r)
           /\ UNCHANGED published
  /\ UNCHANGED database

\* The audit entry is the last write; then the view answers.  The entry of a
\* signature or a creation names the TCert, that of a statement does not.
LogAudit(r) ==
  /\ At(r, "audit")
  /\ Fail(r)
  /\ LET op == req[r].op
     IN IF op.action \notin StatementActions /\ op.tcert \notin tcerts
        THEN UNCHANGED <<audit, answered>>
        ELSE /\ audit' = audit \cup {op}
             /\ answered' = answered \cup {op}
  /\ UNCHANGED <<halves, tcertTable, grants, apiKeys, records, published>>
  /\ UNCHANGED <<altered, erased, stopped, requests>>

\* The connection, the database or the key vault fails at some step.
FailAnywhere(r) ==
  /\ Running(r)
  /\ Fail(r)
  /\ stopped' = TRUE
  /\ UNCHANGED <<database, published, answered, altered, erased, requests>>

-----------------------------------------------------------------------------
(* Administration, by the API and in the Django admin.                     *)

Elsewhere ==
  UNCHANGED <<halves, tcertTable, records, audit, published, req, history>>

Grant(u, t) ==
  /\ Count
  /\ t \in tcerts
  /\ grants' = grants \cup {<<u, t>>}
  /\ UNCHANGED apiKeys /\ Elsewhere

Withdraw(u, t) ==
  /\ Count
  /\ <<u, t>> \in grants
  /\ grants' = grants \ {<<u, t>>}
  /\ UNCHANGED apiKeys /\ Elsewhere

\* Users create keys of their own; an inactive or expired key is as good as
\* deleted.
CreateApiKey(k) ==
  /\ Count
  /\ k \notin apiKeys
  /\ apiKeys' = apiKeys \cup {k}
  /\ UNCHANGED grants /\ Elsewhere

DeleteApiKey(k) ==
  /\ Count
  /\ k \in apiKeys
  /\ apiKeys' = apiKeys \ {k}
  /\ UNCHANGED grants /\ Elsewhere

\* is_ca and online_endpoint can be edited.
Toggled(set, t) == IF t \in set THEN set \ {t} ELSE set \cup {t}

EditTcert(t) ==
  /\ Count
  /\ t \in tcerts
  /\ \/ cas' = Toggled(cas, t) /\ UNCHANGED endpoints
     \/ endpoints' = Toggled(endpoints, t) /\ UNCHANGED cas
  /\ altered' = altered \cup {t}
  /\ UNCHANGED <<halves, tcerts, grants, apiKeys, records, audit, published>>
  /\ UNCHANGED <<req, answered, erased, stopped>>

\* A TCert takes its grants with it; documents lose the reference to it.
RemoveTcert(t) ==
  /\ tcerts' = tcerts \ {t}
  /\ cas' = cas \ {t}
  /\ endpoints' = endpoints \ {t}
  /\ grants' = {g \in grants : g[2] # t}
  /\ records' = [d \in Docs |-> IF records[d].tcert = t
                                THEN [records[d] EXCEPT !.tcert = NoTcert]
                                ELSE records[d]]
  /\ altered' = altered \cup {t}
  /\ UNCHANGED <<apiKeys, audit, published, req, answered, erased, stopped>>

DeleteTcert(t) ==
  /\ Count
  /\ t \in tcerts
  /\ RemoveTcert(t)
  /\ UNCHANGED halves

\* A key takes its TCert with it.  A key that a running request is creating
\* is left alone.
DeleteKey(t) ==
  /\ Count
  /\ halves[t] # {}
  /\ \A r \in Requests : Running(r) /\ req[r].op.action = "create_tcert"
                           => req[r].op.tcert # t
  /\ halves' = [halves EXCEPT ![t] = {}]
  /\ RemoveTcert(t)

DeleteRecord(d) ==
  /\ Count
  /\ records[d].stored
  /\ records' = [records EXCEPT ![d] = NoRow]
  /\ UNCHANGED <<halves, tcertTable, grants, apiKeys, audit, published, req>>
  /\ UNCHANGED history

DeleteAudit(o) ==
  /\ Count
  /\ o \in audit
  /\ audit' = audit \ {o}
  /\ erased' = erased \cup {o}
  /\ UNCHANGED <<halves, tcertTable, grants, apiKeys, records, published, req>>
  /\ UNCHANGED <<answered, altered, stopped>>

-----------------------------------------------------------------------------
Init ==
  /\ halves = [t \in Tcerts |-> IF t \in LoadedTcerts
                              THEN {"private", "public"} ELSE {}]
  /\ tcerts = LoadedTcerts
  /\ cas = LoadedTcerts \cap Cas
  /\ endpoints = LoadedTcerts \cap Endpoint
  /\ grants = {}
  /\ apiKeys = LoadedApiKeys
  /\ records = [d \in Docs |-> NoRow]
  /\ audit = {} /\ erased = {}
  /\ published = {}
  /\ req = [r \in Requests |-> Idle]
  /\ answered = {}
  /\ altered = {}
  /\ requests = 0
  /\ stopped = FALSE

Advance(r) ==
  /\ \/ SavePrivateKey(r) \/ SavePublicKey(r) \/ SaveTcert(r)
     \/ Load(r)
     \/ ReadForSave(r) \/ SaveDocument(r) \/ ReadForEnrich(r) \/ Enrich(r)
     \/ Publish(r) \/ Upload(r)
  /\ UNCHANGED <<history, requests>>

Step(r) == Advance(r) \/ LogAudit(r) \/ FailAnywhere(r)

Administer ==
  \/ \E u \in Users, t \in Tcerts : Grant(u, t) \/ Withdraw(u, t)
  \/ \E k \in ApiKeys : CreateApiKey(k) \/ DeleteApiKey(k)
  \/ \E t \in Tcerts : EditTcert(t) \/ DeleteTcert(t) \/ DeleteKey(t)
  \/ \E d \in Docs : DeleteRecord(d)
  \/ \E o \in audit : DeleteAudit(o)

Next ==
  \/ \E r \in Requests :
       \/ Step(r)
       \/ \E u \in Users, t \in Tcerts : CreateTcert(r, u, t)
       \/ \E u \in Users, k \in ApiKeys \cup {NoKey} :
            \/ \E d \in Docs :
                 \/ SignSdoc(r, u, k, d)
                 \/ \E a \in {"block", "unblock"} :
                      BlockOrUnblockSdoc(r, u, k, d, a)
            \/ \E t \in Tcerts : RevokeTcert(r, u, k, t)
  \/ Administer

Spec == Init /\ [][Next]_vars

-----------------------------------------------------------------------------
TypeOK ==
  /\ halves \in [Tcerts -> SUBSET {"private", "public"}]
  /\ tcerts \subseteq Tcerts
  /\ cas \subseteq tcerts /\ endpoints \subseteq tcerts
  /\ grants \subseteq Users \X Tcerts
  /\ apiKeys \subseteq ApiKeys
  /\ records \in [Docs -> Rows]
  /\ audit \subseteq Operations /\ erased \subseteq Operations
  /\ published \subseteq Operations
  /\ req \in [Requests -> {Idle} \cup Busy]
  /\ answered \subseteq Operations
  /\ altered \subseteq Tcerts
  /\ requests \in 0..MaxRequests
  /\ stopped \in BOOLEAN

(* An operation that was answered with success is in the audit trail until *)
(* the administrator erases it there; its statement is on the distribution *)
(* server if its signer's TCert is a CA with an endpoint and was neither   *)
(* edited nor deleted by the administrator; and both halves of the signing *)
(* key are stored as long as its TCert is, whatever failed in between      *)
(* (sign_sdoc, create_tcert, revoke_tcert, block_sdoc, unblock_sdoc).      *)
AnsweredIsRecorded ==
  \A o \in answered :
    /\ o \in audit \cup erased
    /\ /\ o.action \in StatementActions
       /\ o.tcert \in (cas \cap endpoints) \ altered
       => o \in published
    /\ o.tcert \in tcerts => KeyStored(o.tcert)

(* Two requests may sign the same document at once, each writing the whole *)
(* record from what it read earlier, while the administrator deletes it.   *)
(* When none of them is running any more, a record there is names its      *)
(* TCert, if that is still there, and a user whose signature of it was     *)
(* written to the audit trail, unless a request broke off (sign_sdoc,      *)
(* OrmDocumentStore.save).                                                 *)
RecordNamesItsSigner ==
  \A d \in Docs :
    /\ records[d].stored /\ IssuerOf[d] \in tcerts
    /\ ~stopped
    /\ \A r \in Requests : Running(r) => req[r].op.doc # d
    => /\ records[d].tcert = IssuerOf[d]
       /\ \E o \in audit \cup erased : /\ o.action = "sign"
                                     /\ o.doc = d
                                     /\ o.user = records[d].by
=============================================================================
