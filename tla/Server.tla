------------------------------- MODULE Server -------------------------------
(***************************************************************************)
(* The distribution server (qrs-server/api): it hosts the statements of    *)
(* registered TCerts.  A host solves a challenge, redeems it for a token,  *)
(* and uploads under the token; CAs enrol targets with an attestation.     *)
(* Requests are handled in parallel and each query is a step of its own:   *)
(* settings.py neither serialises requests nor wraps them in transactions. *)
(*                                                                         *)
(* The two throttles, the texts of the answers and attachments are left    *)
(* out, and so are rows that the administrator writes or edits by hand     *)
(* (admin.py:17 forbids it for TCerts), a token apart.  Signatures are     *)
(* ideal, a body carries the key of its id, and the random identity of a   *)
(* statement is the statement itself.                                      *)
(***************************************************************************)
EXTENDS Naturals, FiniteSets

CONSTANTS
  Keys, Tcerts, Bodies,
  KeyOf,       \* [Tcerts -> Keys]
  Number,      \* [Tcerts -> Nat]: certificate_number
  TcertOf,     \* [Bodies -> Tcerts]: the id a body states
  Genuine,     \* bodies whose self-signature holds
  Statements,  \* statements that hosts have signed
  Nonces, Requests,
  LoadedCerts, LoadedCas,  \* what the administrator has registered before
  NoTcert, NoBody, NoKey, NoStatement, NoNonce,
  Switched,    \* bound: services the administrator switches on and off
  Favoured,    \* bound: keys the administrator makes tokens for
  MaxAdmin     \* bound: operations of the administrator

Services == {"attestation", "enrollment", "sdocBlock", "sdocUnblock",
             "selfRevocation"}

Actions == {"attest", "revokeTcert", "revokeAttestation", "blockSdoc",
            "unblockSdoc"}

StatementType == [action: Actions, signer: Keys, target: Tcerts \cup {NoTcert},
                  body: Bodies \cup {NoBody}]

ASSUME ServerAssumption ==
  /\ KeyOf \in [Tcerts -> Keys]
  /\ Number \in [Tcerts -> Nat]
  /\ TcertOf \in [Bodies -> Tcerts]
  /\ Genuine \subseteq Bodies
  /\ Statements \subseteq StatementType
  /\ LoadedCerts \in [Tcerts -> Bodies \cup {NoBody}]
  /\ \A t \in Tcerts : LoadedCerts[t] # NoBody =>
       LoadedCerts[t] \in Genuine /\ TcertOf[LoadedCerts[t]] = t
  /\ LoadedCas \subseteq {t \in Tcerts : LoadedCerts[t] # NoBody}
  /\ NoTcert \notin Tcerts
  /\ NoBody \notin Bodies
  /\ NoKey \notin Keys
  /\ NoStatement \notin Statements
  /\ NoNonce \notin Nonces
  /\ Switched \subseteq Services
  /\ Favoured \subseteq Keys
  /\ MaxAdmin \in Nat

VARIABLES
  cert,        \* [Tcerts -> tcert_b64 of the row, or NoBody: no row]
  cas,         \* TCerts with is_ca
  enabled,     \* [Tcerts -> services with their allow_ flag on]
  hosted,      \* [Tcerts -> statements hosted under it: SignedObject]
  enrolled,    \* [Tcerts -> attestations by it: TcertAttestation]
  challenges,  \* nonces with a TcertChallenge
  aged,        \* those older than CHALLENGE_TTL_SECONDS
  tokens,      \* TcertToken rows that have not expired
  gifts,       \* keys for which the administrator has made such a row
  req,         \* [Requests -> the state of the request being handled]
  issued,      \* [Nonces -> the key it was made for, or NoKey]
  minted,      \* tokens handed out (history)
  raced,       \* nonces two requests were redeeming at once (history)
  given,       \* keys that ever had a token of the administrator (history)
  found,       \* [Requests -> what has held at some moment of it] (history)
  imported,    \* bodies the administrator has registered (history)
  removed,     \* TCerts the administrator has deleted (history)
  withdrawn,   \* [Tcerts -> statements under it that the administrator has
               \* deleted since they were last uploaded] (history)
  admin        \* operations of the administrator so far (bound only)

tables == <<cert, cas, enabled, hosted, enrolled>>
gate == <<tokens, gifts, minted, given>>
passes == <<challenges, aged, issued, raced, gate>>
admins == <<imported, removed, withdrawn, admin>>
vars == <<tables, passes, req, found, admins>>

Endpoints == {"attestations", "caStatements", "statements", "selfRevocation"}

\* `flags' is the loaded copy of the row's services; `row' says whether that
\* very row is still there.
Idle == [pc |-> "idle", endpoint |-> "none", tcert |-> NoTcert, flags |-> {},
         stmt |-> NoStatement, nonce |-> NoNonce, row |-> TRUE]

RequestType == [pc: {"idle", "delete", "mint", "token", "target", "store"},
                endpoint: Endpoints \cup {"none", "token"},
                tcert: Tcerts \cup {NoTcert}, flags: SUBSET Services,
                stmt: Statements \cup {NoStatement},
                nonce: Nonces \cup {NoNonce}, row: BOOLEAN]

TokenType == [nonce: Nonces, by: Requests]

Registered == {t \in Tcerts : cert[t] # NoBody}

Init ==
  /\ cert = LoadedCerts
  /\ cas = LoadedCas
  /\ enabled = [t \in Tcerts |-> Services]
  /\ hosted = [t \in Tcerts |-> {}]
  /\ enrolled = [t \in Tcerts |-> {}]
  /\ challenges = {} /\ aged = {} /\ tokens = {} /\ gifts = {}
  /\ req = [r \in Requests |-> Idle]
  /\ issued = [n \in Nonces |-> NoKey]
  /\ minted = {} /\ raced = {} /\ given = {}
  /\ found = [r \in Requests |-> {}]
  /\ imported = {LoadedCerts[t] : t \in Tcerts} \ {NoBody}
  /\ removed = {}
  /\ withdrawn = [t \in Tcerts |-> {}]
  /\ admin = 0

-----------------------------------------------------------------------------
(* Challenges and tokens.                                                  *)

\* ChallengeView: what is too old is deleted, then one is made.
Challenge(k, n) ==
  /\ issued[n] = NoKey
  /\ challenges' = (challenges \ aged) \cup {n}
  /\ aged' = {}
  /\ issued' = [issued EXCEPT ![n] = k]
  /\ UNCHANGED <<tables, gate, req, raced, admins>>

\* CHALLENGE_TTL_SECONDS pass.
Age ==
  /\ aged # challenges
  /\ aged' = challenges
  /\ UNCHANGED <<tables, challenges, gate, req, issued, raced, admins>>

\* TokenView finds the challenge, of whatever age.  It checks the counter
\* before it goes on; a wrong one is refused and changes nothing.
Redeem(r, n) ==
  /\ req[r].pc = "idle"
  /\ n \in challenges
  /\ req' = [req EXCEPT ![r] = [Idle EXCEPT !.pc = "delete",
                                            !.endpoint = "token",
                                            !.nonce = n]]
  /\ raced' = IF \E q \in Requests : req[q].pc = "delete" /\ req[q].nonce = n
              THEN raced \cup {n} ELSE raced
  /\ UNCHANGED <<tables, challenges, aged, gate, issued, admins>>

\* Mutant: the challenge is not used up.
SpendNot(r) ==
  /\ req[r].pc = "delete"
  /\ req' = [req EXCEPT ![r].pc = "mint"]
  /\ UNCHANGED <<tables, passes, admins>>

\* Deleting a challenge that is gone is no error.
Spend(r) ==
  /\ req[r].pc = "delete"
  /\ challenges' = challenges \ {req[r].nonce}
  /\ aged' = aged \ {req[r].nonce}
  /\ req' = [req EXCEPT ![r].pc = "mint"]
  /\ UNCHANGED <<tables, gate, issued, raced, admins>>

Mint(r) ==
  LET token == [nonce |-> req[r].nonce, by |-> r]
  IN /\ req[r].pc = "mint"
     /\ tokens' = tokens \cup {token}
     /\ minted' = minted \cup {token}
     /\ req' = [req EXCEPT ![r] = Idle]
     /\ UNCHANGED <<tables, challenges, aged, issued, raced, gifts, given,
                    admins>>

\* expires_at has passed, or the administrator has deleted the row: no query
\* finds the token any more.
Expire(token) ==
  /\ token \in tokens
  /\ tokens' = tokens \ {token}
  /\ UNCHANGED <<tables, challenges, aged, req, issued, raced, gifts, minted,
                 given, admins>>

ExpireGift(k) ==
  /\ k \in gifts
  /\ gifts' = gifts \ {k}
  /\ UNCHANGED <<tables, challenges, aged, req, issued, raced, tokens, minted,
                 given, admins>>

-----------------------------------------------------------------------------
(* Uploads.  Every refusal and every failure of the bridge writes nothing. *)

\* Mutant: any token will do.
AnyToken(k) == tokens # {} /\ k \in Keys

\* _valid_token
TokenFor(k) == k \in gifts \/ \E token \in tokens : issued[token.nonce] = k

\* The row a key names: that of its highest certificate number.
Latest(t) ==
  \A u \in Registered : KeyOf[u] = KeyOf[t] => Number[u] <= Number[t]

\* Mutant: any registered TCert may use the endpoints of CAs.
LoadAny(r, endpoint, t) ==
  /\ req[r].pc = "idle"
  /\ t \in Registered
  /\ endpoint \in {"statements", "selfRevocation"} => Latest(t)
  /\ endpoint = "selfRevocation" => t \notin cas
  /\ req' = [req EXCEPT ![r] = [Idle EXCEPT !.pc = "token",
                                            !.endpoint = endpoint,
                                            !.tcert = t,
                                            !.flags = enabled[t]]]
  /\ UNCHANGED <<tables, passes, admins>>

Load(r, endpoint, t) ==
  /\ req[r].pc = "idle"
  /\ t \in Registered
  /\ endpoint \in {"attestations", "caStatements"} => t \in cas
  /\ endpoint \in {"statements", "selfRevocation"} => Latest(t)
  /\ endpoint = "selfRevocation" => t \notin cas
  /\ req' = [req EXCEPT ![r] = [Idle EXCEPT !.pc = "token",
                                            !.endpoint = endpoint,
                                            !.tcert = t,
                                            !.flags = enabled[t]]]
  /\ UNCHANGED <<tables, passes, admins>>

\* The services an upload uses.
Needs(endpoint, action) ==
  CASE endpoint = "attestations" -> {"attestation", "enrollment"}
    [] action = "blockSdoc" -> {"sdocBlock"}
    [] action = "unblockSdoc" -> {"sdocUnblock"}
    [] action = "revokeTcert" /\ endpoint # "caStatements" ->
         {"selfRevocation"}
    [] OTHER -> {}

\* verify_object, and what each endpoint asks of a statement.
Accepts(q, s) ==
  /\ s.signer = KeyOf[q.tcert]
  /\ Needs(q.endpoint, s.action) \subseteq q.flags
  /\ CASE q.endpoint = "attestations" ->
            /\ s.action = "attest"
            /\ s.body \in Genuine
            /\ s.target = TcertOf[s.body]
       [] q.endpoint = "caStatements" ->
            s.action \in {"revokeTcert", "blockSdoc", "unblockSdoc"}
       [] OTHER ->
            /\ s.action \in {"revokeTcert", "blockSdoc", "unblockSdoc"}
            /\ q.endpoint = "selfRevocation" => s.action = "revokeTcert"
            /\ s.action = "revokeTcert" =>
                 s.target \in Tcerts /\ KeyOf[s.target] = KeyOf[q.tcert]

\* The token is looked up; the posted statement is checked by the bridge,
\* against the loaded row, which takes up to QRS_VERIFY_TIMEOUT.
CheckToken(r, s) ==
  /\ req[r].pc = "token"
  /\ TokenFor(KeyOf[req[r].tcert])
  /\ Accepts(req[r], s)
  /\ req' = [req EXCEPT ![r].stmt = s,
                        ![r].pc = IF req[r].endpoint = "attestations"
                                  THEN "target" ELSE "store"]
  /\ UNCHANGED <<tables, passes, admins>>

\* A trusted CA cannot be reattested: looked up before the transaction.
CheckTarget(r) ==
  /\ req[r].pc = "target"
  /\ TcertOf[req[r].stmt.body] \notin cas
  /\ req' = [req EXCEPT ![r].pc = "store"]
  /\ UNCHANGED <<tables, passes, admins>>

\* Mutant: the attestation is not hosted with the enrolment.
EnrolUnhosted(r) ==
  LET q == req[r]
  IN /\ q.pc = "store"
     /\ q.endpoint = "attestations"
     /\ q.row
     /\ cert' = [cert EXCEPT ![TcertOf[q.stmt.body]] = q.stmt.body]
     /\ enrolled' = [enrolled EXCEPT ![q.tcert] = @ \cup {q.stmt}]
     /\ req' = [req EXCEPT ![r] = Idle]
     /\ UNCHANGED <<cas, enabled, hosted, passes, admins>>

\* Mutant: the row is looked up by the key of the target alone, so that a
\* body overwrites that of a sibling.
EnrolByKey(r) ==
  LET q == req[r]
      row == CHOOSE t \in Registered :
               KeyOf[t] = KeyOf[q.stmt.target] /\ Latest(t)
  IN /\ q.pc = "store"
     /\ q.endpoint = "attestations"
     /\ q.row
     /\ cert' = [cert EXCEPT ![row] = q.stmt.body]
     /\ hosted' = [hosted EXCEPT ![q.tcert] = @ \cup {q.stmt}]
     /\ enrolled' = [enrolled EXCEPT ![q.tcert] = @ \cup {q.stmt}]
     /\ req' = [req EXCEPT ![r] = Idle]
     /\ UNCHANGED <<cas, enabled, passes, admins>>

\* Mutant: an attestation row is looked up by CA and target alone.
EnrolOnce(r) ==
  LET q == req[r]
  IN /\ q.pc = "store"
     /\ q.endpoint = "attestations"
     /\ q.row
     /\ cert' = [cert EXCEPT ![TcertOf[q.stmt.body]] = q.stmt.body]
     /\ hosted' = [hosted EXCEPT ![q.tcert] = @ \cup {q.stmt}]
     /\ enrolled' = IF \E s \in enrolled[q.tcert] : s.target = q.stmt.target
                    THEN enrolled
                    ELSE [enrolled EXCEPT ![q.tcert] = @ \cup {q.stmt}]
     /\ req' = [req EXCEPT ![r] = Idle]
     /\ UNCHANGED <<cas, enabled, passes, admins>>

\* The transaction of CaAttestationUpload.  A new row is no CA and has every
\* service; one that exists gets the body and keeps the rest.
Enrol(r) ==
  LET q == req[r]
  IN /\ q.pc = "store"
     /\ q.endpoint = "attestations"
     /\ q.row
     /\ cert' = [cert EXCEPT ![TcertOf[q.stmt.body]] = q.stmt.body]
     /\ hosted' = [hosted EXCEPT ![q.tcert] = @ \cup {q.stmt}]
     /\ enrolled' = [enrolled EXCEPT ![q.tcert] = @ \cup {q.stmt}]
     /\ withdrawn' = [withdrawn EXCEPT ![q.tcert] = @ \ {q.stmt}]
     /\ req' = [req EXCEPT ![r] = Idle]
     /\ UNCHANGED <<cas, enabled, passes, imported, removed, admin>>

\* The other three uploads: one row, under the TCert that was loaded.
Host(r) ==
  LET q == req[r]
  IN /\ q.pc = "store"
     /\ q.endpoint # "attestations"
     /\ q.row
     /\ hosted' = [hosted EXCEPT ![q.tcert] = @ \cup {q.stmt}]
     /\ req' = [req EXCEPT ![r] = Idle]
     /\ UNCHANGED <<cert, cas, enabled, enrolled, passes, admins>>

\* A refusal, a failure of the bridge or the database, a worker that dies.
Drop(r) ==
  /\ req[r].pc # "idle"
  /\ req' = [req EXCEPT ![r] = Idle]
  /\ UNCHANGED <<tables, passes, admins>>

-----------------------------------------------------------------------------
(* The administrator (admin.py).                                           *)

Administer == admin < MaxAdmin /\ admin' = admin + 1

\* import_qrs_view, for one TCert of the file.
Import(b) ==
  /\ Administer
  /\ b \in Genuine
  /\ cert' = [cert EXCEPT ![TcertOf[b]] = b]
  /\ imported' = imported \cup {b}
  /\ UNCHANGED <<cas, enabled, hosted, enrolled, passes, req, removed,
                 withdrawn>>

MarkCa(t) ==
  /\ Administer
  /\ t \in Registered \ cas
  /\ cas' = cas \cup {t}
  /\ UNCHANGED <<cert, enabled, hosted, enrolled, passes, req, imported,
                 removed, withdrawn>>

UnmarkCa(t) ==
  /\ Administer
  /\ t \in cas
  /\ cas' = cas \ {t}
  /\ UNCHANGED <<cert, enabled, hosted, enrolled, passes, req, imported,
                 removed, withdrawn>>

Switch(t, service) ==
  /\ Administer
  /\ t \in Registered
  /\ enabled' = [enabled EXCEPT ![t] = IF service \in @ THEN @ \ {service}
                                       ELSE @ \cup {service}]
  /\ UNCHANGED <<cert, cas, hosted, enrolled, passes, req, imported, removed,
                 withdrawn>>

\* The row of a TCert goes with every row that refers to it (CASCADE); a
\* request that has loaded it will fail to write.
Delete(t) ==
  /\ Administer
  /\ t \in Registered
  /\ cert' = [cert EXCEPT ![t] = NoBody]
  /\ cas' = cas \ {t}
  /\ enabled' = [enabled EXCEPT ![t] = Services]
  /\ hosted' = [hosted EXCEPT ![t] = {}]
  /\ enrolled' = [ca \in Tcerts |->
                    IF ca = t THEN {}
                    ELSE {s \in enrolled[ca] : s.target # t}]
  /\ req' = [r \in Requests |-> IF req[r].tcert = t
                                THEN [req[r] EXCEPT !.row = FALSE]
                                ELSE req[r]]
  /\ removed' = removed \cup {t}
  /\ withdrawn' = [withdrawn EXCEPT ![t] = {}]
  /\ UNCHANGED <<passes, imported>>

\* SignedObjectAdmin: nothing refers to a hosted statement, so what it has
\* enrolled stays.
DeleteStatement(t, s) ==
  /\ Administer
  /\ s \in hosted[t]
  /\ hosted' = [hosted EXCEPT ![t] = @ \ {s}]
  /\ withdrawn' = [withdrawn EXCEPT ![t] = @ \cup {s}]
  /\ UNCHANGED <<cert, cas, enabled, enrolled, passes, req, imported, removed>>

\* TcertChallengeAdmin
DeleteChallenge(n) ==
  /\ Administer
  /\ n \in challenges
  /\ challenges' = challenges \ {n}
  /\ aged' = aged \ {n}
  /\ UNCHANGED <<tables, issued, raced, gate, req, imported, removed,
                 withdrawn>>

\* TcertTokenAdmin: a token that nobody worked for.
GiveToken(k) ==
  /\ Administer
  /\ gifts' = gifts \cup {k}
  /\ given' = given \cup {k}
  /\ UNCHANGED <<tables, challenges, aged, issued, raced, tokens, minted, req,
                 imported, removed, withdrawn>>

-----------------------------------------------------------------------------

\* What holds now of the things a request depends on.
Facts(r) ==
  LET q == req[r]
      t == q.tcert
  IN IF t = NoTcert THEN {}
     ELSE enabled[t]
          \cup (IF t \in cas THEN {"ca"} ELSE {"notCa"})
          \cup {f \in {"token"} : TokenFor(KeyOf[t])}
          \cup {f \in {"open"} : q.stmt # NoStatement /\ q.stmt.target \notin cas}

\* The history: what has held at some moment while the request was handled.
Remember ==
  found' = [r \in Requests |-> IF req'[r].pc = "idle" THEN {}
                               ELSE found[r] \cup Facts(r)']

Step ==
  \/ \E k \in Keys, n \in Nonces : Challenge(k, n)
  \/ Age
  \/ \E r \in Requests, n \in Nonces : Redeem(r, n)
  \/ \E r \in Requests : Spend(r)
  \/ \E r \in Requests : Mint(r)
  \/ \E token \in tokens : Expire(token)
  \/ \E k \in Keys : ExpireGift(k)
  \/ \E r \in Requests, endpoint \in Endpoints, t \in Tcerts :
       Load(r, endpoint, t)
  \/ \E r \in Requests, s \in Statements : CheckToken(r, s)
  \/ \E r \in Requests : CheckTarget(r)
  \/ \E r \in Requests : Enrol(r)
  \/ \E r \in Requests : Host(r)
  \/ \E r \in Requests : Drop(r)
  \/ \E b \in Bodies : Import(b)
  \/ \E t \in Tcerts : MarkCa(t)
  \/ \E t \in Tcerts : UnmarkCa(t)
  \/ \E t \in Tcerts, service \in Switched : Switch(t, service)
  \/ \E t \in Tcerts : Delete(t)
  \/ \E t \in Tcerts, s \in Statements : DeleteStatement(t, s)
  \/ \E n \in Nonces : DeleteChallenge(n)
  \/ \E k \in Favoured : GiveToken(k)

Next == Step /\ Remember

Spec == Init /\ [][Next]_vars

-----------------------------------------------------------------------------

\* A registered body is self-signed and states the id of its row (and of no
\* sibling under the same key: register_tcert_bytes).
TablesTyped ==
  /\ cert \in [Tcerts -> Genuine \cup {NoBody}]
  /\ \A t \in Registered : TcertOf[cert[t]] = t
  /\ cas \in SUBSET Tcerts
  /\ enabled \in [Tcerts -> SUBSET Services]
  /\ hosted \in [Tcerts -> SUBSET Statements]
  /\ enrolled \in [Tcerts -> SUBSET Statements]
  /\ imported \in SUBSET Bodies
  /\ removed \in SUBSET Tcerts
  /\ withdrawn \in [Tcerts -> SUBSET Statements]
  /\ admin \in 0..MaxAdmin

PassesTyped ==
  /\ challenges \in SUBSET Nonces
  /\ aged \in SUBSET challenges
  /\ minted \in SUBSET TokenType
  /\ tokens \in SUBSET minted
  /\ issued \in [Nonces -> Keys \cup {NoKey}]
  /\ raced \in SUBSET Nonces
  /\ given \in SUBSET Keys
  /\ gifts \in SUBSET given

FactNames == Services \cup {"ca", "notCa", "token", "open"}

\* The type invariant: tables, challenges, tokens and requests.
TypeOK ==
  /\ TablesTyped
  /\ PassesTyped
  /\ req \in [Requests -> RequestType]
  /\ found \in [Requests -> SUBSET FactNames]

\* Redeeming a challenge (TokenView.post) uses it up: a second token for it
\* exists only if two requests were redeeming it at the same time.
RedeemedOnce ==
  \A x, y \in minted : x.nonce = y.nonce => x = y \/ x.nonce \in raced

\* A challenge made for the key was redeemed, or the administrator has given
\* it a token.
PaidFor(k) == k \in given \/ \E token \in minted : issued[token.nonce] = k

\* Whatever is hosted is hosted under a registered TCert, is signed by its
\* key, and the key has paid for it (views.py:3-7).  This survives deletions,
\* a re-registration and a change of the CA flag in the middle of a request.
HostedWasEarned ==
  \A t \in Tcerts : \A s \in hosted[t] :
    /\ cert[t] # NoBody
    /\ s.signer = KeyOf[t]
    /\ PaidFor(KeyOf[t])

\* The two tables of an enrolment and the registrations agree: an attestation
\* that enrols is among the statements of its CA, which is all that a client
\* applies of a sync, unless the administrator has deleted that very statement
\* and nobody uploaded it again (admin.py:116), and its target is registered.
EnrolmentsAreWhole ==
  \A ca \in Tcerts : \A s \in enrolled[ca] :
    s \in hosted[ca] \cup withdrawn[ca] /\ cert[s.target] # NoBody

\* A body that is hosted comes from the administrator or from a CA whose
\* attestation of that very body is still listed, unless the administrator
\* has deleted that CA (CaAttestationUpload, register_tcert_bytes).
BodiesAreVouchedFor ==
  \A t \in Registered :
    \/ cert[t] \in imported
    \/ \E ca \in Tcerts, s \in Statements :
         /\ s.action = "attest" /\ s.target = t /\ s.body = cert[t]
         /\ s.signer = KeyOf[ca]
         /\ s \in enrolled[ca] \/ ca \in removed

Permitted(q, facts) ==
  /\ "token" \in facts
  /\ q.endpoint \in {"attestations", "caStatements"} => "ca" \in facts
  /\ q.endpoint = "attestations" => "open" \in facts
  /\ q.endpoint = "selfRevocation" => "notCa" \in facts
  /\ Needs(q.endpoint, q.stmt.action) \subseteq facts

\* The administrator's refusals bind every request that begins after them:
\* a request that adds a statement has met, at some moment of its own, a valid
\* token, the CA status its endpoint asks for, every service it uses switched
\* on, and, to enrol, a target that was no CA.
StoredWasPermitted ==
  [][\A t \in Tcerts : \A s \in hosted'[t] \ hosted[t] :
       \E r \in Requests : /\ req[r].tcert = t
                           /\ req[r].stmt = s
                           /\ Permitted(req[r], found[r])]_vars

-----------------------------------------------------------------------------
(* The inductive invariants behind these properties.                       *)

Redeeming(r) == req[r].pc \in {"delete", "mint"}
Uploading(r) == req[r].pc \in {"token", "target", "store"}

\* A challenge that is still there has given no token, and requests that
\* share one are known to race.
TokenInvariant ==
  /\ \A n \in challenges : issued[n] # NoKey
  /\ \A x \in minted : issued[x.nonce] # NoKey /\ x.nonce \notin challenges
  /\ \A r \in Requests : Redeeming(r) =>
       /\ req[r].nonce \in Nonces
       /\ issued[req[r].nonce] # NoKey
       /\ req[r].pc = "mint" => req[r].nonce \notin challenges
       /\ \A q \in Requests : Redeeming(q) /\ req[q].nonce = req[r].nonce =>
            q = r \/ req[r].nonce \in raced
       /\ \A x \in minted : x.nonce = req[r].nonce => x.nonce \in raced
  /\ RedeemedOnce

\* What a request has checked was so when it was checked, and its row is
\* registered for as long as it is that row.
UploadHolds(r) ==
  LET q == req[r]
      endpoint == q.endpoint
  IN /\ ~Uploading(r) => q.tcert = NoTcert
     /\ Uploading(r) =>
          /\ endpoint \in Endpoints
          /\ q.tcert \in Tcerts
          /\ q.row => cert[q.tcert] # NoBody
          /\ q.flags \subseteq found[r]
          /\ endpoint \in {"attestations", "caStatements"} => "ca" \in found[r]
          /\ endpoint = "selfRevocation" => "notCa" \in found[r]
     /\ q.pc \in {"target", "store"} =>
          /\ q.stmt \in Statements
          /\ Accepts(q, q.stmt)
          /\ PaidFor(KeyOf[q.tcert])
          /\ "token" \in found[r]
     /\ q.pc = "store" /\ endpoint = "attestations" => "open" \in found[r]

UploadInvariant == \A r \in Requests : UploadHolds(r)

\* An enrolment binds the body that it registered, under its CA's key.
HostInvariant ==
  /\ HostedWasEarned
  /\ EnrolmentsAreWhole
  /\ \A ca \in Tcerts : \A s \in enrolled[ca] :
       /\ s.action = "attest"
       /\ s.signer = KeyOf[ca]
       /\ s.body \in Genuine
       /\ s.target = TcertOf[s.body]
  /\ BodiesAreVouchedFor

\* Each CA is independent (models.py:47-50): what another CA enrols leaves a
\* CA's sync with an attestation of the body it sends.  It does not hold, and
\* an import by the administrator does the same (README, 3).
EachCaIndependent ==
  \A ca \in cas : \A s \in enrolled[ca] :
    \E other \in enrolled[ca] :
      other.target = s.target /\ other.body = cert[s.target]
=============================================================================
