---------------------------- MODULE ServerProofs ----------------------------
(***************************************************************************)
(* The distribution server, for any TCerts, statements, nonces and number  *)
(* of requests that are handled in parallel.                               *)
(***************************************************************************)
EXTENDS Server, TLAPS

(* The steps of a request keep the requests well typed.                    *)
LEMMA RequestsTyped ==
  ASSUME TypeOK, Step
  PROVE  req' \in [Requests -> RequestType]
<1> USE DEF TypeOK
<1>0. Idle \in RequestType
  BY DEF Idle, RequestType
<1>1. ASSUME NEW r \in Requests, NEW n \in Nonces, Redeem(r, n)
      PROVE  req' \in [Requests -> RequestType]
  <2>1. [Idle EXCEPT !.pc = "delete", !.endpoint = "token", !.nonce = n]
          \in RequestType
    BY DEF Idle, RequestType
  <2>. QED BY <1>1, <2>1 DEF Redeem
<1>2. ASSUME NEW r \in Requests, NEW endpoint \in Endpoints, NEW t \in Tcerts,
             Load(r, endpoint, t)
      PROVE  req' \in [Requests -> RequestType]
  <2>1. enabled[t] \in SUBSET Services
    BY DEF TablesTyped
  <2>2. [Idle EXCEPT !.pc = "token", !.endpoint = endpoint, !.tcert = t,
                     !.flags = enabled[t]] \in RequestType
    BY <2>1 DEF Idle, RequestType
  <2>. QED BY <1>2, <2>2 DEF Load
<1>3. ASSUME NEW r \in Requests, NEW s \in Statements, CheckToken(r, s)
      PROVE  req' \in [Requests -> RequestType]
  BY <1>3 DEF CheckToken, RequestType
<1>4. ASSUME NEW r \in Requests, Spend(r) \/ CheckTarget(r)
      PROVE  req' \in [Requests -> RequestType]
  BY <1>4 DEF Spend, CheckTarget, RequestType
<1>5. ASSUME NEW r \in Requests, Mint(r) \/ Enrol(r) \/ Host(r) \/ Drop(r)
      PROVE  req' \in [Requests -> RequestType]
  BY <1>0, <1>5 DEF Mint, Enrol, Host, Drop
<1>6. ASSUME NEW t \in Tcerts, Delete(t)
      PROVE  req' \in [Requests -> RequestType]
  <2>1. \A r \in Requests : [req[r] EXCEPT !.row = FALSE] \in RequestType
    BY DEF RequestType
  <2>. QED BY <1>6, <2>1 DEF Delete
<1>. QED BY <1>1, <1>2, <1>3, <1>4, <1>5, <1>6
         DEF Step, Challenge, Age, Expire, ExpireGift, Import, MarkCa,
             UnmarkCa, Switch, DeleteStatement, DeleteChallenge, GiveToken

(* Challenges and tokens stay well typed.                                  *)
LEMMA PassesStayTyped ==
  ASSUME TypeOK, TokenInvariant, Step
  PROVE  PassesTyped'
<1> USE DEF TypeOK, PassesTyped, passes, gate
<1>1. ASSUME NEW k \in Keys, NEW n \in Nonces, Challenge(k, n)
      PROVE  PassesTyped'
  BY <1>1 DEF Challenge
<1>2. CASE Age
  BY <1>2 DEF Age
<1>3. ASSUME NEW r \in Requests, NEW n \in Nonces, Redeem(r, n)
      PROVE  PassesTyped'
  BY <1>3 DEF Redeem
<1>4. ASSUME NEW r \in Requests, Spend(r)
      PROVE  PassesTyped'
  BY <1>4 DEF Spend
<1>5. ASSUME NEW r \in Requests, Mint(r)
      PROVE  PassesTyped'
  <2>1. req[r].nonce \in Nonces
    BY <1>5 DEF Mint, TokenInvariant, Redeeming
  <2>. QED BY <1>5, <2>1 DEF Mint, TokenType
<1>6. ASSUME NEW token \in tokens, Expire(token)
      PROVE  PassesTyped'
  BY <1>6 DEF Expire
<1>7. ASSUME NEW k \in Keys, ExpireGift(k) \/ GiveToken(k)
      PROVE  PassesTyped'
  BY <1>7 DEF ExpireGift, GiveToken
<1>8. ASSUME NEW n \in Nonces, DeleteChallenge(n)
      PROVE  PassesTyped'
  BY <1>8 DEF DeleteChallenge
<1>. QED BY <1>1, <1>2, <1>3, <1>4, <1>5, <1>6, <1>7, <1>8, ServerAssumption
         DEF Step, Load, CheckToken, CheckTarget, Enrol, Host, Drop, Import,
             MarkCa, UnmarkCa, Switch, Delete, DeleteStatement

(* What an upload is about to store is a statement for a registered row.   *)
LEMMA StoreShape ==
  ASSUME TypeOK, UploadInvariant, NEW r \in Requests, req[r].pc = "store"
  PROVE  /\ req[r].tcert \in Tcerts
         /\ req[r].stmt \in Statements
         /\ Accepts(req[r], req[r].stmt)
         /\ req[r].row => cert[req[r].tcert] # NoBody
         /\ req[r].endpoint \in Endpoints
         /\ req[r].endpoint = "attestations" =>
              /\ req[r].stmt.action = "attest"
              /\ req[r].stmt.body \in Genuine
              /\ req[r].stmt.target = TcertOf[req[r].stmt.body]
              /\ req[r].stmt.target \in Tcerts
         /\ req[r].stmt.signer = KeyOf[req[r].tcert]
<1>1. Uploading(r)
  BY DEF Uploading
<1>2. /\ req[r].tcert \in Tcerts
      /\ req[r].stmt \in Statements
      /\ Accepts(req[r], req[r].stmt)
      /\ req[r].row => cert[req[r].tcert] # NoBody
      /\ req[r].endpoint \in Endpoints
  BY <1>1 DEF UploadInvariant, UploadHolds
<1>3. req[r].endpoint = "attestations" =>
        /\ req[r].stmt.action = "attest"
        /\ req[r].stmt.body \in Genuine
        /\ req[r].stmt.target = TcertOf[req[r].stmt.body]
  BY <1>2 DEF Accepts
<1>. QED BY <1>2, <1>3, ServerAssumption DEF Accepts

(* So do the tables.                                                       *)
LEMMA TablesStayTyped ==
  ASSUME TypeOK, UploadInvariant, Step
  PROVE  TablesTyped'
<1> USE DEF TypeOK, TablesTyped, Registered, tables, admins
<1>1. ASSUME NEW r \in Requests, Enrol(r)
      PROVE  TablesTyped'
  BY <1>1, StoreShape, ServerAssumption DEF Enrol
<1>2. ASSUME NEW r \in Requests, Host(r)
      PROVE  TablesTyped'
  BY <1>2, StoreShape DEF Host
<1>3. ASSUME Administer
      PROVE  admin' \in 0..MaxAdmin
  BY <1>3, ServerAssumption DEF Administer
<1>4. ASSUME NEW b \in Bodies, Import(b)
      PROVE  TablesTyped'
  BY <1>3, <1>4, ServerAssumption DEF Import
<1>5. ASSUME NEW t \in Tcerts, MarkCa(t) \/ UnmarkCa(t)
      PROVE  TablesTyped'
  BY <1>3, <1>5 DEF MarkCa, UnmarkCa, Registered
<1>6. ASSUME NEW t \in Tcerts, NEW service \in Switched, Switch(t, service)
      PROVE  TablesTyped'
  BY <1>3, <1>6, ServerAssumption DEF Switch
<1>7. ASSUME NEW t \in Tcerts, Delete(t)
      PROVE  TablesTyped'
  BY <1>3, <1>7 DEF Delete
<1>8. ASSUME NEW t \in Tcerts, NEW s \in Statements, DeleteStatement(t, s)
      PROVE  TablesTyped'
  BY <1>3, <1>8 DEF DeleteStatement
<1>9. ASSUME NEW n \in Nonces, DeleteChallenge(n)
      PROVE  TablesTyped'
  BY <1>3, <1>9 DEF DeleteChallenge
<1>10. ASSUME NEW k \in Keys, GiveToken(k)
       PROVE  TablesTyped'
  BY <1>3, <1>10 DEF GiveToken
<1>. QED BY <1>1, <1>2, <1>4, <1>5, <1>6, <1>7, <1>8, <1>9, <1>10,
            ServerAssumption
         DEF Step, Challenge, Age, Redeem, Spend, Mint, Expire, ExpireGift,
             Load, CheckToken, CheckTarget, Drop

(* The history is a set of facts about each request.                       *)
LEMMA FoundTyped ==
  ASSUME TypeOK, TablesTyped', req' \in [Requests -> RequestType], Remember
  PROVE  found' \in [Requests -> SUBSET FactNames]
<1>1. \A r \in Requests : Facts(r)' \subseteq FactNames
  <2> SUFFICES ASSUME NEW r \in Requests PROVE Facts(r)' \subseteq FactNames
    OBVIOUS
  <2>1. CASE req'[r].tcert = NoTcert
    BY <2>1 DEF Facts
  <2>2. CASE req'[r].tcert # NoTcert
    <3>1. req'[r].tcert \in Tcerts
      BY <2>2 DEF RequestType
    <3>2. enabled'[req'[r].tcert] \subseteq Services
      BY <3>1 DEF TablesTyped
    <3>. QED BY <2>2, <3>2 DEF Facts, FactNames
  <2>. QED BY <2>1, <2>2
<1>. QED BY <1>1 DEF Remember, TypeOK

(* Nothing is forgotten of a request before it is answered.                *)
LEMMA Remembered ==
  ASSUME TypeOK, Remember, NEW r \in Requests, req'[r].pc # "idle"
  PROVE  found[r] \cup Facts(r)' \subseteq found'[r]
BY DEF Remember

(* Redeeming uses a challenge up, whatever else goes on.                   *)
LEMMA TokensKept ==
  ASSUME TypeOK, TokenInvariant, Step
  PROVE  TokenInvariant'
<1> USE DEF TypeOK, PassesTyped, TokenInvariant, Redeeming, RedeemedOnce, gate
<1>1. ASSUME NEW k \in Keys, NEW n \in Nonces, Challenge(k, n)
      PROVE  TokenInvariant'
  <2>1. \A m \in Nonces : issued[m] # NoKey => issued'[m] = issued[m]
    BY <1>1 DEF Challenge
  <2>2. issued'[n] # NoKey
    BY <1>1, ServerAssumption DEF Challenge
  <2>3. \A m \in challenges' : m = n \/ m \in challenges
    BY <1>1 DEF Challenge
  <2>4. UNCHANGED <<req, minted, raced>>
    BY <1>1 DEF Challenge
  <2>5. issued[n] = NoKey
    BY <1>1 DEF Challenge
  <2>6. \A x \in minted : x.nonce \in Nonces
    BY DEF TokenType
  <2>. QED BY <2>1, <2>2, <2>3, <2>4, <2>5, <2>6
<1>2. ASSUME NEW r \in Requests, NEW n \in Nonces, Redeem(r, n)
      PROVE  TokenInvariant'
  <2>1. /\ req'[r].pc = "delete" /\ req'[r].nonce = n
        /\ \A q \in Requests \ {r} : req'[q] = req[q]
        /\ UNCHANGED <<challenges, minted, issued>>
        /\ n \in challenges
    BY <1>2 DEF Redeem, Idle
  <2>2. raced \subseteq raced'
    BY <1>2 DEF Redeem
  <2>3. \A q \in Requests \ {r} : req[q].pc = "delete" /\ req[q].nonce = n
          => n \in raced'
    BY <1>2 DEF Redeem
  <2>. QED BY <2>1, <2>2, <2>3
<1>3. ASSUME NEW r \in Requests, Spend(r)
      PROVE  TokenInvariant'
  <2>1. /\ req[r].pc = "delete"
        /\ req'[r].pc = "mint" /\ req'[r].nonce = req[r].nonce
        /\ \A q \in Requests \ {r} : req'[q] = req[q]
        /\ UNCHANGED <<minted, issued, raced>>
        /\ challenges' = challenges \ {req[r].nonce}
    BY <1>3 DEF Spend, RequestType
  <2>. QED BY <2>1
<1>4. ASSUME NEW r \in Requests, Mint(r)
      PROVE  TokenInvariant'
  <2>1. /\ req[r].pc = "mint"
        /\ req'[r].pc = "idle"
        /\ \A q \in Requests \ {r} : req'[q] = req[q]
        /\ UNCHANGED <<challenges, issued, raced>>
        /\ minted' = minted \cup {[nonce |-> req[r].nonce, by |-> r]}
    BY <1>4 DEF Mint, Idle
  <2>. QED BY <2>1
<1>5. ASSUME NEW r \in Requests,
             \A q \in Requests \ {r} : req'[q] = req[q],
             req'[r].pc \notin {"delete", "mint"},
             UNCHANGED passes
      PROVE  TokenInvariant'
  BY <1>5 DEF passes, gate
<1>6. ASSUME NEW r \in Requests, NEW endpoint \in Endpoints, NEW t \in Tcerts,
             Load(r, endpoint, t)
      PROVE  TokenInvariant'
  BY <1>5, <1>6 DEF Load, Idle
<1>7. ASSUME NEW r \in Requests, NEW s \in Statements, CheckToken(r, s)
      PROVE  TokenInvariant'
  <2>1. /\ \A q \in Requests \ {r} : req'[q] = req[q]
        /\ req'[r].pc \in {"target", "store"}
    BY <1>7 DEF CheckToken, RequestType
  <2>. QED BY <1>5, <1>7, <2>1 DEF CheckToken
<1>8. ASSUME NEW r \in Requests, CheckTarget(r)
      PROVE  TokenInvariant'
  <2>1. /\ \A q \in Requests \ {r} : req'[q] = req[q]
        /\ req'[r].pc = "store"
    BY <1>8 DEF CheckTarget, RequestType
  <2>. QED BY <1>5, <1>8, <2>1 DEF CheckTarget
<1>9. ASSUME NEW r \in Requests, Enrol(r) \/ Host(r) \/ Drop(r)
      PROVE  TokenInvariant'
  BY <1>5, <1>9 DEF Enrol, Host, Drop, Idle
<1>10. ASSUME NEW t \in Tcerts, Delete(t)
       PROVE  TokenInvariant'
  <2>1. \A r \in Requests : req'[r].pc = req[r].pc /\ req'[r].nonce = req[r].nonce
    BY <1>10 DEF Delete, RequestType
  <2>. QED BY <1>10, <2>1 DEF Delete, passes
<1>11. CASE UNCHANGED <<challenges, minted, issued, raced, req>>
  BY <1>11
<1>12. ASSUME NEW n \in Nonces, DeleteChallenge(n)
       PROVE  TokenInvariant'
  <2>1. /\ challenges' \subseteq challenges
        /\ UNCHANGED <<minted, issued, raced, req>>
    BY <1>12 DEF DeleteChallenge, gate
  <2>. QED BY <2>1
<1>. QED BY <1>1, <1>2, <1>3, <1>4, <1>6, <1>7, <1>8, <1>9, <1>10, <1>11,
            <1>12
         DEF Step, Age, Expire, ExpireGift, Import, MarkCa, UnmarkCa, Switch,
             DeleteStatement, GiveToken, passes, gate

(* Who has paid once has paid.                                             *)
LEMMA PaidStays ==
  ASSUME TypeOK, TokenInvariant, Step, NEW k \in Keys, PaidFor(k)
  PROVE  PaidFor(k)'
<1>1. minted \subseteq minted' /\ given \subseteq given'
  BY DEF Step, Challenge, Age, Redeem, Spend, Mint, Expire, ExpireGift, Load,
         CheckToken, CheckTarget, Enrol, Host, Drop, Import, MarkCa, UnmarkCa,
         Switch, Delete, DeleteStatement, DeleteChallenge, GiveToken, passes,
         gate
<1>2. \A n \in Nonces : issued[n] # NoKey => issued'[n] = issued[n]
  BY DEF Step, Challenge, Age, Redeem, Spend, Mint, Expire, ExpireGift, Load,
         CheckToken, CheckTarget, Enrol, Host, Drop, Import, MarkCa, UnmarkCa,
         Switch, Delete, DeleteStatement, DeleteChallenge, GiveToken, passes,
         gate, TypeOK, PassesTyped
<1>3. \A x \in minted : x.nonce \in Nonces /\ issued[x.nonce] # NoKey
  BY DEF TypeOK, PassesTyped, TokenType, TokenInvariant
<1>. QED BY <1>1, <1>2, <1>3 DEF PaidFor

(* A request that a step of another process leaves alone keeps what it has *)
(* checked; it may only find that its row is gone.                         *)
LEMMA RequestKept ==
  ASSUME TypeOK, TokenInvariant, Step, Remember, NEW r \in Requests,
         UploadHolds(r),
         \/ req'[r] = req[r]
         \/ req'[r] = [req[r] EXCEPT !.row = FALSE],
         Uploading(r) /\ req'[r].row => cert'[req[r].tcert] # NoBody
  PROVE  UploadHolds(r)'
<1>1. /\ req'[r].pc = req[r].pc
      /\ req'[r].endpoint = req[r].endpoint
      /\ req'[r].tcert = req[r].tcert
      /\ req'[r].flags = req[r].flags
      /\ req'[r].stmt = req[r].stmt
  BY DEF TypeOK, RequestType
<1>2. Uploading(r)' <=> Uploading(r)
  BY <1>1 DEF Uploading
<1>3. Uploading(r) => found[r] \subseteq found'[r]
  BY <1>1, Remembered DEF Uploading
<1>4. \A s \in Statements : Accepts(req[r], s) => Accepts(req'[r], s)
  BY <1>1 DEF Accepts
<1>5. req[r].pc \in {"target", "store"} =>
        req[r].tcert \in Tcerts /\ KeyOf[req[r].tcert] \in Keys
  BY ServerAssumption DEF UploadHolds, Uploading
<1>6. req[r].pc \in {"target", "store"} => PaidFor(KeyOf[req[r].tcert])'
  <2>1. \A k \in Keys : PaidFor(k) =>
          k \in given' \/ \E token \in minted' : issued'[token.nonce] = k
    BY PaidStays DEF PaidFor
  <2>2. req[r].pc \in {"target", "store"} => PaidFor(KeyOf[req[r].tcert])
    BY DEF UploadHolds
  <2>. QED BY <1>1, <1>5, <2>1, <2>2 DEF PaidFor
<1>7. req[r].pc \in {"target", "store"} => Uploading(r)
  BY DEF Uploading
<1>. QED BY <1>1, <1>2, <1>3, <1>4, <1>6, <1>7 DEF UploadHolds

(* An answered request holds nothing.                                      *)
LEMMA NoUpload ==
  ASSUME NEW r \in Requests, req'[r].pc \in {"idle", "delete", "mint"},
         req'[r].tcert = NoTcert
  PROVE  UploadHolds(r)'
BY DEF UploadHolds, Uploading

(* A row stays registered until it is deleted.                             *)
LEMMA RowsStay ==
  ASSUME TypeOK, UploadInvariant, Step, NEW t \in Tcerts, cert[t] # NoBody,
         ~Delete(t)
  PROVE  cert'[t] # NoBody
<1>1. ASSUME NEW r \in Requests, Enrol(r)
      PROVE  cert'[t] # NoBody
  <2>1. req[r].stmt.body \in Bodies
    BY <1>1, StoreShape, ServerAssumption DEF Enrol
  <2>. QED BY <1>1, <2>1, ServerAssumption DEF Enrol, TypeOK, TablesTyped
<1>2. ASSUME NEW b \in Bodies, Import(b)
      PROVE  cert'[t] # NoBody
  BY <1>2, ServerAssumption DEF Import, TypeOK, TablesTyped
<1>3. ASSUME NEW u \in Tcerts, Delete(u)
      PROVE  cert'[t] # NoBody
  BY <1>3 DEF Delete, TypeOK, TablesTyped
<1>. QED BY <1>1, <1>2, <1>3
         DEF Step, Challenge, Age, Redeem, Spend, Mint, Expire, ExpireGift,
             Load, CheckToken, CheckTarget, Host, Drop, MarkCa, UnmarkCa,
             Switch, DeleteStatement, DeleteChallenge, GiveToken, tables

(* What a request has checked was so when it checked it.                   *)
LEMMA UploadsKept ==
  ASSUME TypeOK, TokenInvariant, UploadInvariant, Step, Remember
  PROVE  UploadInvariant'
<1> SUFFICES ASSUME NEW r \in Requests
             PROVE  UploadHolds(r)'
  BY DEF UploadInvariant
<1>0. UploadHolds(r) /\ req[r] \in RequestType
  BY DEF UploadInvariant, TypeOK
<1>1. ASSUME req'[r] = req[r], \A t \in Tcerts : ~Delete(t)
      PROVE  UploadHolds(r)'
  <2>1. Uploading(r) /\ req'[r].row => cert'[req[r].tcert] # NoBody
    BY <1>0, <1>1, RowsStay DEF UploadHolds
  <2>. QED BY <1>0, <1>1, <2>1, RequestKept
<1>2. ASSUME NEW t \in Tcerts, Delete(t)
      PROVE  UploadHolds(r)'
  <2>1. req'[r] = IF req[r].tcert = t THEN [req[r] EXCEPT !.row = FALSE]
                  ELSE req[r]
    BY <1>2 DEF Delete
  <2>2. Uploading(r) /\ req'[r].row => cert'[req[r].tcert] # NoBody
    BY <1>0, <1>2, <2>1
       DEF UploadHolds, Delete, RequestType, TypeOK, TablesTyped
  <2>. QED BY <1>0, <2>1, <2>2, RequestKept
<1>3. ASSUME NEW n \in Nonces, Redeem(r, n)
      PROVE  UploadHolds(r)'
  BY <1>3, NoUpload DEF Redeem, Idle, TypeOK
<1>4. ASSUME Spend(r)
      PROVE  UploadHolds(r)'
  <2>1. req'[r].pc = "mint" /\ req'[r].tcert = req[r].tcert
    BY <1>0, <1>4 DEF Spend, RequestType, TypeOK
  <2>2. req[r].tcert = NoTcert
    BY <1>0, <1>4 DEF UploadHolds, Uploading, Spend
  <2>. QED BY <2>1, <2>2, NoUpload
<1>5. ASSUME Mint(r) \/ Enrol(r) \/ Host(r) \/ Drop(r)
      PROVE  UploadHolds(r)'
  <2>1. req'[r] = Idle
    BY <1>5 DEF Mint, Enrol, Host, Drop, TypeOK
  <2>. QED BY <2>1, NoUpload DEF Idle
<1>6. ASSUME NEW endpoint \in Endpoints, NEW t \in Tcerts, Load(r, endpoint, t)
      PROVE  UploadHolds(r)'
  <2>1. /\ req'[r].pc = "token"
        /\ req'[r].endpoint = endpoint
        /\ req'[r].tcert = t
        /\ req'[r].flags = enabled[t]
    BY <1>6 DEF Load, Idle, TypeOK
  <2>2. Facts(r)' \subseteq found'[r]
    BY <2>1, Remembered
  <2>3. UNCHANGED tables /\ t # NoTcert
    BY <1>6, ServerAssumption DEF Load
  <2>4. /\ enabled[t] \subseteq Facts(r)'
        /\ t \in cas => "ca" \in Facts(r)'
        /\ t \notin cas => "notCa" \in Facts(r)'
    BY <2>1, <2>3 DEF Facts, tables
  <2>5. cert'[t] # NoBody
    BY <1>6, <2>3 DEF Load, Registered, tables
  <2>. QED BY <1>6, <2>1, <2>2, <2>4, <2>5 DEF UploadHolds, Uploading, Load
<1>7. ASSUME NEW s \in Statements, CheckToken(r, s)
      PROVE  UploadHolds(r)'
  <2>1. /\ req[r].pc = "token"
        /\ req'[r].pc = IF req[r].endpoint = "attestations" THEN "target"
                        ELSE "store"
        /\ req'[r].stmt = s
        /\ req'[r].endpoint = req[r].endpoint
        /\ req'[r].tcert = req[r].tcert
        /\ req'[r].flags = req[r].flags
        /\ req'[r].row = req[r].row
        /\ UNCHANGED <<tables, passes>>
        /\ TokenFor(KeyOf[req[r].tcert])
        /\ Accepts(req[r], s)
    BY <1>0, <1>7 DEF CheckToken, RequestType, TypeOK
  <2>2. found[r] \cup Facts(r)' \subseteq found'[r]
    BY <2>1, Remembered
  <2>3. req[r].tcert \in Tcerts
    BY <1>0, <2>1 DEF UploadHolds, Uploading
  <2>4. "token" \in Facts(r)'
    BY <2>1, <2>3, ServerAssumption DEF Facts, TokenFor, passes, gate
  <2>5. Accepts(req'[r], s)
    BY <2>1 DEF Accepts
  <2>6. PaidFor(KeyOf[req[r].tcert])'
    BY <2>1 DEF PaidFor, TokenFor, passes, gate, TypeOK, PassesTyped
  <2>. QED BY <1>0, <2>1, <2>2, <2>3, <2>4, <2>5, <2>6
           DEF UploadHolds, Uploading, tables
<1>8. ASSUME CheckTarget(r)
      PROVE  UploadHolds(r)'
  <2>1. /\ req[r].pc = "target"
        /\ req'[r] = [req[r] EXCEPT !.pc = "store"]
        /\ UNCHANGED <<tables, passes>>
        /\ TcertOf[req[r].stmt.body] \notin cas
    BY <1>8 DEF CheckTarget, TypeOK
  <2>2. found[r] \cup Facts(r)' \subseteq found'[r]
    BY <1>0, <2>1, Remembered DEF RequestType
  <2>3. /\ req'[r].pc = "store"
        /\ req'[r].endpoint = req[r].endpoint
        /\ req'[r].tcert = req[r].tcert
        /\ req'[r].flags = req[r].flags
        /\ req'[r].stmt = req[r].stmt
        /\ req'[r].row = req[r].row
    BY <1>0, <2>1 DEF RequestType
  <2>4. /\ req[r].tcert \in Tcerts
        /\ req[r].stmt \in Statements
        /\ Accepts(req[r], req[r].stmt)
    BY <1>0, <2>1 DEF UploadHolds, Uploading
  <2>5. req[r].endpoint = "attestations" => req[r].stmt.target \notin cas
    BY <2>1, <2>4 DEF Accepts
  <2>6. req[r].endpoint = "attestations" => "open" \in Facts(r)'
    BY <2>1, <2>3, <2>4, <2>5, ServerAssumption DEF Facts, tables
  <2>7. Accepts(req'[r], req[r].stmt)
    BY <2>3, <2>4 DEF Accepts
  <2>8. PaidFor(KeyOf[req[r].tcert])'
    BY <1>0, <2>1 DEF UploadHolds, PaidFor, passes, gate
  <2>. QED BY <1>0, <2>1, <2>2, <2>3, <2>4, <2>6, <2>7, <2>8
           DEF UploadHolds, Uploading, tables
<1>9. CASE \E t \in Tcerts : Delete(t)
  BY <1>2, <1>9
<1>10. CASE req'[r] = req[r]
  BY <1>1, <1>9, <1>10
<1>11. CASE req'[r] # req[r] /\ \A t \in Tcerts : ~Delete(t)
  <2>1. \A q \in Requests \ {r} :
          /\ \A n \in Nonces : ~Redeem(q, n)
          /\ \A endpoint \in Endpoints, t \in Tcerts : ~Load(q, endpoint, t)
          /\ \A s \in Statements : ~CheckToken(q, s)
          /\ ~Spend(q) /\ ~Mint(q) /\ ~CheckTarget(q)
          /\ ~Enrol(q) /\ ~Host(q) /\ ~Drop(q)
    BY <1>11 DEF Redeem, Spend, Mint, Load, CheckToken, CheckTarget, Enrol,
                 Host, Drop, TypeOK
  <2>2. /\ \A k \in Keys, n \in Nonces : ~Challenge(k, n)
        /\ ~Age
        /\ \A token \in tokens : ~Expire(token)
        /\ \A b \in Bodies : ~Import(b)
        /\ \A t \in Tcerts : ~MarkCa(t) /\ ~UnmarkCa(t)
        /\ \A t \in Tcerts, service \in Switched : ~Switch(t, service)
        /\ \A k \in Keys : ~ExpireGift(k) /\ ~GiveToken(k)
        /\ \A t \in Tcerts, s \in Statements : ~DeleteStatement(t, s)
        /\ \A n \in Nonces : ~DeleteChallenge(n)
    BY <1>11 DEF Challenge, Age, Expire, ExpireGift, Import, MarkCa, UnmarkCa,
                 Switch, GiveToken, DeleteStatement, DeleteChallenge
  <2>3. \/ \E n \in Nonces : Redeem(r, n)
        \/ \E endpoint \in Endpoints, t \in Tcerts : Load(r, endpoint, t)
        \/ \E s \in Statements : CheckToken(r, s)
        \/ Spend(r) \/ CheckTarget(r)
        \/ Mint(r) \/ Enrol(r) \/ Host(r) \/ Drop(r)
    BY <1>11, <2>1, <2>2, ServerAssumption DEF Step
  <2>. QED BY <1>3, <1>4, <1>5, <1>6, <1>7, <1>8, <2>3
<1>. QED BY <1>9, <1>10, <1>11

EnrolmentsBind ==
  \A ca \in Tcerts : \A s \in enrolled[ca] :
    /\ s.action = "attest"
    /\ s.signer = KeyOf[ca]
    /\ s.body \in Genuine
    /\ s.target = TcertOf[s.body]

(* What is stored under a TCert was paid for by its key, and its row is    *)
(* there: deleting one takes along what is hosted under it.                *)
LEMMA HostedKept ==
  ASSUME TypeOK, TokenInvariant, UploadInvariant, HostedWasEarned, Step
  PROVE  HostedWasEarned'
<1>1. \A k \in Keys : PaidFor(k) =>
        k \in given' \/ \E token \in minted' : issued'[token.nonce] = k
  BY PaidStays DEF PaidFor
<1>2. \A t \in Tcerts : KeyOf[t] \in Keys
  BY ServerAssumption
<1>3. SUFFICES ASSUME NEW t \in Tcerts, NEW s \in hosted'[t]
               PROVE  /\ cert'[t] # NoBody
                      /\ s.signer = KeyOf[t]
                      /\ PaidFor(KeyOf[t])
  BY <1>1, <1>2 DEF HostedWasEarned, PaidFor
<1>4. CASE s \in hosted[t] /\ ~Delete(t)
  BY <1>4, RowsStay DEF HostedWasEarned, PaidFor
<1>5. ASSUME NEW r \in Requests, Enrol(r) \/ Host(r), s \notin hosted[t]
      PROVE  /\ cert[t] # NoBody
             /\ s.signer = KeyOf[t]
             /\ PaidFor(KeyOf[t])
             /\ ~Delete(t)
  <2>1. req[r].tcert = t /\ req[r].stmt = s /\ req[r].row /\ req[r].pc = "store"
    BY <1>5, StoreShape DEF Enrol, Host, TypeOK, TablesTyped
  <2>2. PaidFor(KeyOf[t])
    BY <2>1 DEF UploadInvariant, UploadHolds
  <2>3. ~Delete(t)
    <3>1. SUFFICES ASSUME Delete(t) PROVE FALSE
      OBVIOUS
    <3>2. hosted'[t] = {}
      BY <3>1 DEF Delete, TypeOK, TablesTyped
    <3>. QED BY <1>3, <3>2
  <2>. QED BY <2>1, <2>2, <2>3, StoreShape
<1>6. ASSUME Delete(t)
      PROVE  FALSE
  BY <1>3, <1>6 DEF Delete, TypeOK, TablesTyped
<1>7. ASSUME s \notin hosted[t]
      PROVE  \E r \in Requests : Enrol(r) \/ Host(r)
  <2>1. ASSUME NEW u \in Tcerts, Delete(u)
        PROVE  hosted'[t] \subseteq hosted[t]
    BY <2>1 DEF Delete, TypeOK, TablesTyped
  <2>2. ASSUME NEW u \in Tcerts, NEW x \in Statements, DeleteStatement(u, x)
        PROVE  hosted'[t] \subseteq hosted[t]
    BY <2>2 DEF DeleteStatement, TypeOK, TablesTyped
  <2>. QED BY <1>3, <1>7, <2>1, <2>2
           DEF Step, Challenge, Age, Redeem, Spend, Mint, Expire, ExpireGift,
               Load, CheckToken, CheckTarget, Drop, Import, MarkCa, UnmarkCa,
               Switch, DeleteChallenge, GiveToken, tables
<1>. QED BY <1>4, <1>5, <1>6, <1>7, RowsStay

(* An enrolment writes both tables and the registration at once, and a     *)
(* deletion takes the rows of the CA and of the target along.              *)
LEMMA EnrolmentsKept ==
  ASSUME TypeOK, UploadInvariant, EnrolmentsAreWhole, EnrolmentsBind, Step
  PROVE  EnrolmentsAreWhole' /\ EnrolmentsBind'
<1>1. ASSUME NEW r \in Requests, Enrol(r)
      PROVE  EnrolmentsAreWhole' /\ EnrolmentsBind'
  <2>1. /\ req[r].tcert \in Tcerts
        /\ req[r].stmt.action = "attest"
        /\ req[r].stmt.signer = KeyOf[req[r].tcert]
        /\ req[r].stmt.body \in Genuine
        /\ req[r].stmt.body \in Bodies /\ req[r].stmt.body # NoBody
        /\ req[r].stmt.target = TcertOf[req[r].stmt.body]
        /\ TcertOf[req[r].stmt.body] \in Tcerts
    BY <1>1, StoreShape, ServerAssumption DEF Enrol
  <2>2. \A ca \in Tcerts : \A s \in enrolled'[ca] :
          s \in enrolled[ca] \/ (ca = req[r].tcert /\ s = req[r].stmt)
    BY <1>1, <2>1 DEF Enrol, TypeOK, TablesTyped
  <2>3. /\ \A ca \in Tcerts : hosted[ca] \subseteq hosted'[ca]
        /\ req[r].stmt \in hosted'[req[r].tcert]
        /\ \A ca \in Tcerts : \A s \in withdrawn[ca] :
             s \in withdrawn'[ca] \/ (ca = req[r].tcert /\ s = req[r].stmt)
    BY <1>1, <2>1 DEF Enrol, TypeOK, TablesTyped
  <2>4. /\ \A t \in Tcerts : cert[t] # NoBody => cert'[t] # NoBody
        /\ cert'[req[r].stmt.target] # NoBody
    BY <1>1, <2>1 DEF Enrol, TypeOK, TablesTyped
  <2>5. \A ca \in Tcerts : \A s \in enrolled[ca] : s.target \in Tcerts
    BY ServerAssumption DEF EnrolmentsBind
  <2>. QED BY <2>1, <2>2, <2>3, <2>4, <2>5
           DEF EnrolmentsAreWhole, EnrolmentsBind
<1>2. ASSUME NEW r \in Requests, Host(r)
      PROVE  EnrolmentsAreWhole' /\ EnrolmentsBind'
  BY <1>2, StoreShape DEF Host, TypeOK, TablesTyped, EnrolmentsAreWhole,
                          EnrolmentsBind, admins
<1>3. ASSUME NEW b \in Bodies, Import(b)
      PROVE  EnrolmentsAreWhole' /\ EnrolmentsBind'
  BY <1>3, ServerAssumption
     DEF Import, TypeOK, TablesTyped, EnrolmentsAreWhole, EnrolmentsBind
<1>4. ASSUME NEW t \in Tcerts, Delete(t)
      PROVE  EnrolmentsAreWhole' /\ EnrolmentsBind'
  <2>1. \A ca \in Tcerts : \A s \in enrolled'[ca] :
          ca # t /\ s \in enrolled[ca] /\ s.target # t
    BY <1>4 DEF Delete
  <2>2. \A ca \in Tcerts \ {t} : /\ hosted'[ca] = hosted[ca]
                                /\ withdrawn'[ca] = withdrawn[ca]
                                /\ cert'[ca] = cert[ca]
    BY <1>4 DEF Delete, TypeOK, TablesTyped
  <2>3. \A ca \in Tcerts : \A s \in enrolled[ca] : s.target \in Tcerts
    BY ServerAssumption DEF EnrolmentsBind
  <2>. QED BY <2>1, <2>2, <2>3 DEF EnrolmentsAreWhole, EnrolmentsBind
<1>5. ASSUME NEW t \in Tcerts, NEW x \in Statements, DeleteStatement(t, x)
      PROVE  EnrolmentsAreWhole' /\ EnrolmentsBind'
  <2>1. /\ UNCHANGED <<cert, enrolled>>
        /\ \A ca \in Tcerts : hosted[ca] \cup withdrawn[ca]
                                 \subseteq hosted'[ca] \cup withdrawn'[ca]
    BY <1>5 DEF DeleteStatement, TypeOK, TablesTyped
  <2>. QED BY <2>1 DEF EnrolmentsAreWhole, EnrolmentsBind
<1>6. CASE UNCHANGED <<cert, hosted, enrolled, withdrawn>>
  BY <1>6 DEF EnrolmentsAreWhole, EnrolmentsBind
<1>. QED BY <1>1, <1>2, <1>3, <1>4, <1>5, <1>6
         DEF Step, Challenge, Age, Redeem, Spend, Mint, Expire, ExpireGift,
             Load, CheckToken, CheckTarget, Drop, MarkCa, UnmarkCa, Switch,
             DeleteChallenge, GiveToken, tables, admins

(* The body of a row is the administrator's or one a listed attestation    *)
(* binds: a row and the attestation that brought it leave together.        *)
LEMMA BodiesKept ==
  ASSUME TypeOK, UploadInvariant, BodiesAreVouchedFor, Step
  PROVE  BodiesAreVouchedFor'
<1> DEFINE Vouches(t, ca, s) == /\ s.action = "attest"
                                /\ s.target = t
                                /\ s.body = cert[t]
                                /\ s.signer = KeyOf[ca]
                                /\ s \in enrolled[ca] \/ ca \in removed
<1>1. ASSUME NEW r \in Requests, Enrol(r)
      PROVE  BodiesAreVouchedFor'
  <2>1. /\ req[r].tcert \in Tcerts
        /\ req[r].stmt \in Statements
        /\ req[r].stmt.action = "attest"
        /\ req[r].stmt.signer = KeyOf[req[r].tcert]
        /\ req[r].stmt.target = TcertOf[req[r].stmt.body]
        /\ req[r].stmt.target \in Tcerts
    BY <1>1, StoreShape DEF Enrol
  <2>2. \A ca \in Tcerts : enrolled[ca] \subseteq enrolled'[ca]
    BY <1>1, <2>1 DEF Enrol, TypeOK, TablesTyped
  <2>3. UNCHANGED <<imported, removed>>
    BY <1>1 DEF Enrol, admins
  <2>4. /\ req[r].stmt \in enrolled'[req[r].tcert]
        /\ cert'[req[r].stmt.target] = req[r].stmt.body
        /\ \A t \in Tcerts \ {req[r].stmt.target} : cert'[t] = cert[t]
    BY <1>1, <2>1 DEF Enrol, TypeOK, TablesTyped
  <2>. QED BY <2>1, <2>2, <2>3, <2>4 DEF BodiesAreVouchedFor, Registered
<1>2. ASSUME NEW b \in Bodies, Import(b)
      PROVE  BodiesAreVouchedFor'
  <2>1. /\ cert'[TcertOf[b]] = b
        /\ \A t \in Tcerts \ {TcertOf[b]} : cert'[t] = cert[t]
        /\ imported' = imported \cup {b}
        /\ UNCHANGED <<enrolled, removed>>
    BY <1>2, ServerAssumption DEF Import, TypeOK, TablesTyped
  <2>. QED BY <2>1 DEF BodiesAreVouchedFor, Registered
<1>3. ASSUME NEW u \in Tcerts, Delete(u)
      PROVE  BodiesAreVouchedFor'
  <2>1. /\ cert'[u] = NoBody
        /\ \A t \in Tcerts \ {u} : cert'[t] = cert[t]
        /\ removed' = removed \cup {u}
        /\ imported' = imported
        /\ \A ca \in Tcerts \ {u} : \A s \in enrolled[ca] :
             s.target # u => s \in enrolled'[ca]
    BY <1>3 DEF Delete, TypeOK, TablesTyped
  <2>. QED BY <2>1 DEF BodiesAreVouchedFor, Registered
<1>4. CASE UNCHANGED <<cert, enrolled, imported, removed>>
  BY <1>4 DEF BodiesAreVouchedFor, Registered
<1>. QED BY <1>1, <1>2, <1>3, <1>4
         DEF Step, Challenge, Age, Redeem, Spend, Mint, Expire, ExpireGift,
             Load, CheckToken, CheckTarget, Host, Drop, MarkCa, UnmarkCa,
             Switch, DeleteStatement, DeleteChallenge, GiveToken, tables,
             admins

ServerInvariant == TypeOK /\ TokenInvariant /\ UploadInvariant /\ HostInvariant

(* The server starts with what the administrator has registered.           *)
LEMMA StartsSound ==
  ASSUME Init
  PROVE  ServerInvariant
<1> USE ServerAssumption DEF Init
<1>1. TypeOK
  <2>1. Idle \in RequestType
    BY DEF Idle, RequestType
  <2>. QED BY <2>1 DEF TypeOK, TablesTyped, PassesTyped, FactNames, Registered
<1>2. TokenInvariant
  BY DEF TokenInvariant, Redeeming, RedeemedOnce, Idle
<1>3. UploadInvariant
  BY DEF UploadInvariant, UploadHolds, Uploading, Idle
<1>4. HostInvariant
  BY DEF HostInvariant, HostedWasEarned, EnrolmentsAreWhole,
         BodiesAreVouchedFor, Registered
<1>. QED BY <1>1, <1>2, <1>3, <1>4 DEF ServerInvariant

(* No step of a request, a host or the administrator breaks the invariant. *)
LEMMA StepsSound ==
  ASSUME ServerInvariant, [Next]_vars
  PROVE  ServerInvariant'
<1> USE DEF ServerInvariant
<1>1. CASE Next
  <2>1. Step /\ Remember
    BY <1>1 DEF Next
  <2>2. TablesTyped' /\ PassesTyped' /\ req' \in [Requests -> RequestType]
    BY <2>1, TablesStayTyped, PassesStayTyped, RequestsTyped
  <2>3. TypeOK'
    BY <2>1, <2>2, FoundTyped DEF TypeOK
  <2>4. TokenInvariant' /\ UploadInvariant'
    BY <2>1, TokensKept, UploadsKept
  <2>5. HostInvariant'
    BY <2>1, HostedKept, EnrolmentsKept, BodiesKept
       DEF HostInvariant, EnrolmentsBind
  <2>. QED BY <2>3, <2>4, <2>5
<1>2. CASE UNCHANGED vars
  BY <1>2 DEF vars, tables, passes, gate, admins, TypeOK, TablesTyped,
     PassesTyped, TokenInvariant, Redeeming, RedeemedOnce, UploadInvariant, UploadHolds,
     Uploading, PaidFor, HostInvariant, HostedWasEarned, EnrolmentsAreWhole,
     BodiesAreVouchedFor, Registered
<1>. QED BY <1>1, <1>2 DEF Next

(* The inductive invariant.                                                *)
THEOREM ServerSound == Spec => []ServerInvariant
BY StartsSound, StepsSound, PTL DEF Spec

(* The tables, the tokens and the requests are well typed at any time.     *)
THEOREM ServerTypes == Spec => []TypeOK
<1>1. ServerInvariant => TypeOK
  BY DEF ServerInvariant
<1>. QED BY <1>1, ServerSound, PTL

(* A challenge gives one token, unless two requests redeem it at once.     *)
THEOREM OneTokenEach == Spec => []RedeemedOnce
<1>1. ServerInvariant => RedeemedOnce
  BY DEF ServerInvariant, TokenInvariant
<1>. QED BY <1>1, ServerSound, PTL

(* What is hosted is signed by, and was paid for by, the key of its TCert. *)
THEOREM HostedEarned == Spec => []HostedWasEarned
<1>1. ServerInvariant => HostedWasEarned
  BY DEF ServerInvariant, HostInvariant
<1>. QED BY <1>1, ServerSound, PTL

(* The two tables of an enrolment and the registrations agree.             *)
THEOREM EnrolmentsWhole == Spec => []EnrolmentsAreWhole
<1>1. ServerInvariant => EnrolmentsAreWhole
  BY DEF ServerInvariant, HostInvariant
<1>. QED BY <1>1, ServerSound, PTL

(* Every body on the server has somebody who stands for it.                *)
THEOREM BodiesVouched == Spec => []BodiesAreVouchedFor
<1>1. ServerInvariant => BodiesAreVouchedFor
  BY DEF ServerInvariant, HostInvariant
<1>. QED BY <1>1, ServerSound, PTL

(* What a request stores it was permitted to store: each refusal was       *)
(* looked for at a moment of its own.                                      *)
LEMMA StoresPermitted ==
  ASSUME TypeOK, UploadInvariant, NEW r \in Requests, req[r].pc = "store"
  PROVE  Permitted(req[r], found[r])
<1>1. /\ UploadHolds(r)
      /\ Uploading(r)
  BY DEF UploadInvariant, Uploading
<1>2. Needs(req[r].endpoint, req[r].stmt.action) \subseteq req[r].flags
  BY <1>1 DEF UploadHolds, Accepts
<1>. QED BY <1>1, <1>2 DEF UploadHolds, Permitted

(* The administrator's refusals bind every request that begins after them. *)
THEOREM StoredPermitted == Spec => StoredWasPermitted
<1>1. ASSUME ServerInvariant, [Next]_vars
      PROVE  [\A t \in Tcerts : \A s \in hosted'[t] \ hosted[t] :
                \E r \in Requests : /\ req[r].tcert = t
                                    /\ req[r].stmt = s
                                    /\ Permitted(req[r], found[r])]_vars
  <2>1. CASE UNCHANGED vars
    BY <2>1
  <2>2. CASE Next
    <3> SUFFICES ASSUME NEW t \in Tcerts, NEW s \in hosted'[t] \ hosted[t]
                 PROVE  \E r \in Requests : /\ req[r].tcert = t
                                            /\ req[r].stmt = s
                                            /\ Permitted(req[r], found[r])
      OBVIOUS
    <3>1. TypeOK /\ UploadInvariant /\ Step
      BY <1>1, <2>2 DEF ServerInvariant, Next
    <3>2. ASSUME NEW r \in Requests, Enrol(r) \/ Host(r)
          PROVE  /\ req[r].tcert = t
                 /\ req[r].stmt = s
                 /\ req[r].pc = "store"
      BY <3>1, <3>2, StoreShape DEF Enrol, Host, TypeOK, TablesTyped
    <3>3. ASSUME NEW u \in Tcerts, Delete(u)
          PROVE  FALSE
      BY <3>1, <3>3 DEF Delete, TypeOK, TablesTyped
    <3>4. ASSUME NEW u \in Tcerts, NEW x \in Statements,
                 DeleteStatement(u, x)
          PROVE  FALSE
      BY <3>1, <3>4 DEF DeleteStatement, TypeOK, TablesTyped
    <3>5. \E r \in Requests : Enrol(r) \/ Host(r)
      BY <3>1, <3>3, <3>4
         DEF Step, Challenge, Age, Redeem, Spend, Mint, Expire, ExpireGift,
             Load, CheckToken, CheckTarget, Drop, Import, MarkCa, UnmarkCa,
             Switch, DeleteChallenge, GiveToken, tables
    <3>. QED BY <3>1, <3>2, <3>5, StoresPermitted
  <2>. QED BY <1>1, <2>1, <2>2
<1>. QED BY <1>1, ServerSound, PTL DEF Spec, StoredWasPermitted
=============================================================================
