---------------------------- MODULE Verification ----------------------------
(***************************************************************************)
(* VerificationService.verify running beside every operation of the device *)
(* (verificationService.ts, with TrustService.resolveTrust and             *)
(* RevocationService.checkRevocation).  verify is asynchronous: each store *)
(* read is a step of its own, and any operation may run between two reads. *)
(*                                                                         *)
(* What a verification read earlier is in run[v]; seen[v] records what was *)
(* true of the stores while it ran, for the properties only.               *)
(***************************************************************************)
EXTENDS Device

CONSTANTS
  Verifications,   \* verifications in progress at the same time
  Clock,           \* times a verification may run at
  MaxAge,          \* [Contents -> Nat]: validity.sdocMaxAgeSeconds
  Bound,           \* contents whose schema has a signed but unstored field
  Sealed,          \* SDocs signed over the value of such a field
  Tampered         \* SDocs whose signature does not check

ASSUME VerificationAssumption ==
  /\ Clock \subseteq Nat
  /\ MaxAge \in [Contents -> Nat]
  /\ Bound \subseteq Contents
  /\ Sealed \subseteq Sdocs
  /\ Tampered \subseteq Sdocs

VARIABLES
  run,    \* [Verifications -> the local state of the call]
  seen    \* [Verifications -> what was true while it ran] (history)

vars == <<deviceVars, run, seen>>

-----------------------------------------------------------------------------
(* The result of a verification.                                           *)

States == {"valid", "invalid", "cannotVerify"}
Results == [cryptographic: States, tcert: States, trust: States,
            revocation: States, schema: States,
            context: {"satisfied", "missing", "denied"}]

EmptyResult ==
  [cryptographic |-> "cannotVerify", tcert |-> "cannotVerify",
   trust |-> "cannotVerify", revocation |-> "cannotVerify",
   schema |-> "cannotVerify", context |-> "satisfied"]

Components(r) == {r.cryptographic, r.tcert, r.trust, r.revocation, r.schema}

\* finalize: the overall state of a result.
Overall(r) ==
  IF "invalid" \in Components(r) THEN "invalid"
  ELSE IF "cannotVerify" \in Components(r) \/ r.context # "satisfied"
       THEN "cannotVerify"
       ELSE "valid"

-----------------------------------------------------------------------------
(* The local state of a call: where it is, the SDoc, the TCert body it     *)
(* read, whether it read the TCert as pinned, the attestations still to be *)
(* tried, the one being tried, the CA that carried trust, and the result.  *)

CaChecks == {"attestation", "caTcert", "caDistrusted", "caRevoked",
             "caPinned", "caConfigured", "caKey", "target"}
Pcs == {"idle", "tcert", "distrusted", "pinned", "attestations", "next",
        "keyRevoked", "tcertRevoked", "blocked", "secrets", "fields", "done"}
       \cup CaChecks

NoAtt == [ca |-> NoTcert, hash |-> NoContent]
Attestations == [ca: Tcerts, hash: AttHashes]

Calls == [pc: Pcs, doc: Sdocs, content: Contents \cup {NoContent},
          pinned: BOOLEAN, todo: SUBSET Attestations,
          att: Attestations \cup {NoAtt}, via: Tcerts \cup {NoTcert},
          result: Results]

NewCall(d, pc, result) ==
  [pc |-> pc, doc |-> d, content |-> NoContent, pinned |-> FALSE,
   todo |-> {}, att |-> NoAtt, via |-> NoTcert, result |-> result]

Tcert(v) == IssuerOf[run[v].doc]
Running(v) == run[v].pc \notin {"idle", "done"}
Accepted(v) == run[v].pc = "done" /\ Overall(run[v].result) = "valid"

-----------------------------------------------------------------------------
(* History.  deadKeys, deadCas and deadAtts were revoked when the call     *)
(* began; distrusted, retro and blocked hold if they held at every moment  *)
(* since; pinned and roots collect what held at some moment.               *)

RetroRevoked(t) == \E e \in revTcert[t] : e.type = "retrospective"

Seen == [deadKeys: SUBSET Keys, deadCas: SUBSET Tcerts,
         deadAtts: SUBSET (Tcerts \X Tcerts), distrusted: BOOLEAN,
         retro: BOOLEAN, blocked: BOOLEAN, pinned: BOOLEAN,
         roots: SUBSET Tcerts, bound: SUBSET Contents]

Nothing == [deadKeys |-> {}, deadCas |-> {}, deadAtts |-> {},
            distrusted |-> FALSE, retro |-> FALSE, blocked |-> FALSE,
            pinned |-> FALSE, roots |-> {}, bound |-> {}]

\* The contents of t that some attestation in the store binds.
BoundContents(t) == {atts[t][ca] : ca \in Tcerts} \cap Contents

Now(d) ==
  LET t == IssuerOf[d]
  IN [deadKeys |-> revKey,
      deadCas |-> {ca \in Tcerts : revTcert[ca] # {}},
      deadAtts |-> revAtt,
      distrusted |-> t \in distrusted,
      retro |-> RetroRevoked(t),
      blocked |-> d \in blocked,
      pinned |-> t \in pinned,
      roots |-> pinned \cup cas,
      bound |-> BoundContents(t)]

\* The history of a running call, one step later.
Extend(h, n) ==
  [h EXCEPT !.distrusted = @ /\ n.distrusted, !.retro = @ /\ n.retro,
            !.blocked = @ /\ n.blocked, !.pinned = @ \/ n.pinned,
            !.roots = @ \cup n.roots, !.bound = @ \cup n.bound]

-----------------------------------------------------------------------------
(* The steps of verify.                                                    *)

Update(v, c) ==
  /\ run' = [run EXCEPT ![v] = c]
  /\ UNCHANGED <<deviceVars, seen>>

At(v, pc) == run[v].pc = pc

Goto(v, pc) == Update(v, [run[v] EXCEPT !.pc = pc])

\* An early return with the result as it stands.
Return(v, r) == Update(v, [run[v] EXCEPT !.pc = "done", !.result = r])

Start(v, d) ==
  /\ ~Running(v)
  /\ run' = [run EXCEPT ![v] =
               IF d \in Malformed
               THEN NewCall(d, "done",
                            [EmptyResult EXCEPT !.cryptographic = "invalid"])
               ELSE NewCall(d, "tcert", EmptyResult)]
  /\ seen' = [seen EXCEPT ![v] = Now(d)]
  /\ UNCHANGED deviceVars

\* The TCert is read, its signature checked, and then the clock is read.
ReadTcert(v, now) ==
  /\ At(v, "tcert")
  /\ LET c == certs[Tcert(v)]
         r == run[v].result
     IN IF c = NoContent THEN Return(v, r)
        ELSE IF c \in Forged \/ now < NotBefore[c] \/ now >= NotAfter[c]
        THEN Return(v, [r EXCEPT !.tcert = "invalid"])
        ELSE IF now > IssuedAt[run[v].doc] + MaxAge[c]
        THEN Return(v, [r EXCEPT !.schema = "invalid"])
        ELSE Update(v, [run[v] EXCEPT !.pc = "distrusted", !.content = c,
                                      !.result.tcert = "valid"])

ReadDistrusted(v) ==
  /\ At(v, "distrusted")
  /\ IF Tcert(v) \in distrusted
     THEN Return(v, [run[v].result EXCEPT !.trust = "invalid"])
     ELSE Goto(v, "pinned")

ReadPinned(v) ==
  /\ At(v, "pinned")
  /\ Update(v, [run[v] EXCEPT !.pc = "attestations",
                              !.pinned = Tcert(v) \in pinned])

ReadAttestations(v) ==
  /\ At(v, "attestations")
  /\ Update(v, [run[v] EXCEPT !.pc = "next",
       !.todo = {[ca |-> ca, hash |-> atts[Tcert(v)][ca]] :
                   ca \in {x \in Tcerts : Attested(Tcert(v), x)}}])

\* Mutant: an attestation that was tried stays in the list.
NextAttestationKept(v) ==
  /\ At(v, "next")
  /\ \/ \E a \in run[v].todo :
          Update(v, [run[v] EXCEPT !.pc = "attestation", !.att = a])
     \/ /\ run[v].todo = {}
        /\ Update(v, [run[v] EXCEPT !.pc = "keyRevoked", !.att = NoAtt,
             !.result.trust = IF run[v].pinned THEN "valid"
                              ELSE "cannotVerify"])

\* Take the next attestation; with none left the pin decides.
NextAttestation(v) ==
  /\ At(v, "next")
  /\ \/ \E a \in run[v].todo :
          Update(v, [run[v] EXCEPT !.pc = "attestation", !.att = a,
                                   !.todo = @ \ {a}])
     \/ /\ run[v].todo = {}
        /\ Update(v, [run[v] EXCEPT !.pc = "keyRevoked", !.att = NoAtt,
             !.result.trust = IF run[v].pinned THEN "valid"
                              ELSE "cannotVerify"])

\* One read of the attestation's validation: on to the next one, or give the
\* attestation up.
CaCheck(v, pc, ok, onward) ==
  /\ At(v, pc)
  /\ Goto(v, IF ok THEN onward ELSE "next")

\* Mutants: one of the reads is left out.
SkipRevokedAttestation(v) == CaCheck(v, "attestation", TRUE, "caTcert")
SkipCaConfigured(v) == CaCheck(v, "caConfigured", TRUE, "caKey")
SkipCaKey(v) == CaCheck(v, "caKey", TRUE, "target")
SkipKeyRevoked(v) == At(v, "keyRevoked") /\ Goto(v, "tcertRevoked")
SkipBlocked(v) ==
  /\ At(v, "blocked")
  /\ Update(v, [run[v] EXCEPT !.pc = "secrets",
                              !.result.revocation = "valid"])

ReadRevokedAttestation(v) ==
  CaCheck(v, "attestation", <<Tcert(v), run[v].att.ca>> \notin revAtt,
          "caTcert")

ReadCaTcert(v) ==
  CaCheck(v, "caTcert",
          Held(run[v].att.ca) /\ certs[run[v].att.ca] \notin Forged,
          "caDistrusted")

ReadCaDistrusted(v) ==
  CaCheck(v, "caDistrusted", run[v].att.ca \notin distrusted, "caRevoked")

ReadCaRevoked(v) ==
  CaCheck(v, "caRevoked", revTcert[run[v].att.ca] = {}, "caPinned")

\* Pinned or configured will do; the second read follows either way, and
\* decides only when the first said no.
ReadCaPinned(v) ==
  /\ At(v, "caPinned")
  /\ Goto(v, IF run[v].att.ca \in pinned THEN "caKey" ELSE "caConfigured")

ReadCaConfigured(v) ==
  CaCheck(v, "caConfigured", run[v].att.ca \in cas, "caKey")

ReadCaKey(v) ==
  CaCheck(v, "caKey", KeyOf[run[v].att.ca] \notin revKey, "target")

\* The target's body is read again and must be the one the attestation
\* binds: then this CA carries the trust and the loop ends.
ReadTarget(v) ==
  /\ At(v, "target")
  /\ IF Held(Tcert(v)) /\ certs[Tcert(v)] = run[v].att.hash
     THEN Update(v, [run[v] EXCEPT !.pc = "keyRevoked", !.todo = {},
                       !.via = run[v].att.ca, !.result.trust = "valid"])
     ELSE Goto(v, "next")

ReadKeyRevoked(v) ==
  /\ At(v, "keyRevoked")
  /\ IF KeyOf[Tcert(v)] \in revKey
     THEN Return(v, [run[v].result EXCEPT !.revocation = "invalid"])
     ELSE Goto(v, "tcertRevoked")

\* A prospective revocation later than the SDoc ends the check as valid.
ReadTcertRevoked(v) ==
  /\ At(v, "tcertRevoked")
  /\ LET entries == revTcert[Tcert(v)]
     IN IF entries = {} THEN Goto(v, "blocked")
        ELSE IF RefusedBy(entries, IssuedAt[run[v].doc])
        THEN Return(v, [run[v].result EXCEPT !.revocation = "invalid"])
        ELSE Update(v, [run[v] EXCEPT !.pc = "secrets",
                                      !.result.revocation = "valid"])

ReadBlocked(v) ==
  /\ At(v, "blocked")
  /\ IF run[v].doc \in blocked
     THEN Return(v, [run[v].result EXCEPT !.revocation = "invalid"])
     ELSE Update(v, [run[v] EXCEPT !.pc = "secrets",
                                   !.result.revocation = "valid"])

\* The signature covers the unstored values, so it checks only when the
\* schema asks for them and they were signed and given right, or neither.
SignatureOk(d, c, answer) ==
  /\ d \notin Tampered
  /\ (c \in Bound) = (d \in Sealed)
  /\ c \in Bound => answer = "right"

CollectSecrets(v, answer) ==
  /\ At(v, "secrets")
  /\ LET c == run[v].content
         r == run[v].result
     IN IF c \in Schemaless THEN Return(v, [r EXCEPT !.schema = "invalid"])
        ELSE IF c \in Bound /\ answer = "none"
        THEN Return(v, [r EXCEPT !.context = "missing"])
        ELSE IF ~SignatureOk(run[v].doc, c, answer)
        THEN Return(v, [r EXCEPT !.cryptographic = "invalid"])
        ELSE Update(v, [run[v] EXCEPT !.pc = "fields",
               !.result.cryptographic = "valid", !.result.schema = "valid"])

\* The field engines: what they find is abstracted to its effect.
CheckFields(v, schema, context) ==
  /\ At(v, "fields")
  /\ Return(v, [run[v].result EXCEPT !.schema = schema, !.context = context])

VerifyStep(v) ==
  \/ \E now \in Clock : ReadTcert(v, now)
  \/ ReadDistrusted(v) \/ ReadPinned(v) \/ ReadAttestations(v)
  \/ NextAttestation(v) \/ ReadRevokedAttestation(v) \/ ReadCaTcert(v)
  \/ ReadCaDistrusted(v) \/ ReadCaRevoked(v) \/ ReadCaPinned(v)
  \/ ReadCaConfigured(v) \/ ReadCaKey(v) \/ ReadTarget(v)
  \/ ReadKeyRevoked(v) \/ ReadTcertRevoked(v) \/ ReadBlocked(v)
  \/ \E answer \in {"right", "wrong", "none"} : CollectSecrets(v, answer)
  \/ \E schema \in {"valid", "invalid"},
        context \in {"satisfied", "missing", "denied"} :
       CheckFields(v, schema, context)

-----------------------------------------------------------------------------
Idle(d) == NewCall(d, "idle", EmptyResult)

Init ==
  /\ DeviceInit
  /\ \E d \in Sdocs : run = [v \in Verifications |-> Idle(d)]
  /\ seen = [v \in Verifications |-> Nothing]

\* An operation of the device, while the calls stay where they are.
Operate ==
  /\ DeviceStep
  /\ UNCHANGED run
  /\ seen' = [v \in Verifications |->
                IF Running(v) THEN Extend(seen[v], Now(run[v].doc)') ELSE seen[v]]

\* A restart ends every call.
Stop(torn) ==
  /\ Restart(torn)
  /\ run' = [v \in Verifications |-> Idle(run[v].doc)]
  /\ seen' = [v \in Verifications |-> Nothing]

Next ==
  \/ Operate
  \/ \E v \in Verifications, d \in Sdocs : Start(v, d)
  \/ \E v \in Verifications : VerifyStep(v)
  \/ \E torn \in Files \cup {"none"} : Stop(torn)

Spec == Init /\ [][Next]_vars

\* The event loop runs every continuation, and a prompt for a value ends at
\* the latest with its timeout.
FairSpec == Spec /\ \A v \in Verifications : WF_vars(VerifyStep(v))

-----------------------------------------------------------------------------
(* Type invariant of the stores and of every call.                         *)
TypeOK ==
  /\ DeviceTypeOK
  /\ run \in [Verifications -> Calls]
  /\ seen \in [Verifications -> Seen]

(* A document of a key that was revoked when its verification began is     *)
(* never reported valid, whatever is stored, removed or re-imported while  *)
(* verify awaits its reads (checkRevocation).                              *)
RevokedKeyNeverAccepted ==
  \A v \in Verifications :
    Accepted(v) => KeyOf[Tcert(v)] \notin seen[v].deadKeys

(* A CA carries trust to a valid result only if, when the verification     *)
(* began, neither its TCert nor its key nor this attestation was revoked;  *)
(* a newer attestation of the same CA does not bring a revoked one back    *)
(* (resolveTrust, isTrustedCa, isValidAttestation).                        *)
RevokedCaCarriesNoTrust ==
  \A v \in Verifications :
    LET ca == run[v].via
    IN Accepted(v) /\ ca # NoTcert =>
         /\ ca \notin seen[v].deadCas
         /\ KeyOf[ca] \notin seen[v].deadKeys
         /\ <<Tcert(v), ca>> \notin seen[v].deadAtts

(* A TCert that stayed distrusted, or retrospectively revoked by someone,  *)
(* from the start of a verification to its end yields no valid result,     *)
(* although each is read once, at a different moment, and several CAs may  *)
(* add and replace entries meanwhile (resolveTrust, checkRevocation).      *)
StandingRefusalHolds ==
  \A v \in Verifications :
    Accepted(v) => ~seen[v].distrusted /\ ~seen[v].retro

(* A valid result rests on something the user configured during the call:  *)
(* the TCert was pinned, or the CA that carried trust was pinned or        *)
(* configured, at some moment of it (resolveTrust).                        *)
AcceptedWasTrusted ==
  \A v \in Verifications :
    Accepted(v) => seen[v].pinned \/ run[v].via \in seen[v].roots

(* A document blocked throughout its verification is reported valid in one *)
(* case only: its TCert is revoked as well, prospectively, after the       *)
(* document's issue, where checkRevocation returns before it reads blocks. *)
BlockEscapesOnlyByRevocation ==
  \A v \in Verifications :
    Accepted(v) /\ seen[v].blocked => revTcert[Tcert(v)] # {}

(* The pipeline comment of verificationService.ts lists the block of an    *)
(* SDoc among the things step 4 evaluates: a document blocked throughout   *)
(* its verification is not reported valid.  It does not hold (README, 3).  *)
BlockedNeverAccepted ==
  \A v \in Verifications : Accepted(v) => ~seen[v].blocked

(* isValidAttestation: "The attestation must bind the exact content hash   *)
(* of the TCert it is about."  The body a CA-trusted document is verified  *)
(* with is one that some attestation held during the call binds.  It does  *)
(* not hold (README, 3).                                                   *)
AttestedContentIsUsed ==
  \A v \in Verifications :
    Accepted(v) /\ ~seen[v].pinned => run[v].content \in seen[v].bound

(* No operation, in any order of arrival, and no restart after a clean     *)
(* write makes the device forget a revoked key, a revoked attestation, the *)
(* revocation of a TCert by one revoker, or a block or unblock statement   *)
(* it stored; removing TCerts and documents included (FileRevocationStore, *)
(* certificates.remove, documents.remove).                                 *)
RevocationsOnlyGrow ==
  [][\/ \E torn \in Files : Stop(torn)
     \/ RevocationsKept]_vars

(* README of the core library: "statements are ordered by their signed     *)
(* `issuedAt`".  Storing a block or unblock statement older than one the   *)
(* device holds for the same document leaves the document as it was.       *)
OlderStatementNeverOverrides ==
  [][\A e \in history' \ history :
       (\E f \in history : f.sdoc = e.sdoc /\ f.issuedAt > e.issuedAt)
         => (e.sdoc \in blocked' <=> e.sdoc \in blocked)]_vars

(* Every verification ends, whatever the device does meanwhile: the loop   *)
(* over attestations runs over the list read before it.                    *)
VerificationTerminates ==
  \A v \in Verifications : Running(v) ~> ~Running(v)

-----------------------------------------------------------------------------
(* What every reachable state satisfies, and the safety properties follow  *)
(* from: what was revoked when a call began still is; what has held since  *)
(* still holds; and each read that is behind the call excludes the history *)
(* it was there to exclude.                                                *)

StillTrue(v) ==
  LET h == seen[v]
      t == Tcert(v)
  IN /\ h.deadKeys \subseteq revKey
     /\ \A ca \in h.deadCas : revTcert[ca] # {}
     /\ h.deadAtts \subseteq revAtt
     /\ h.distrusted => t \in distrusted
     /\ h.retro => RetroRevoked(t)
     /\ h.blocked => run[v].doc \in blocked
     /\ t \in pinned => h.pinned
     /\ pinned \cup cas \subseteq h.roots

\* The call is at one of these places, or ended with a valid result.
Past(v, pcs) == run[v].pc \in pcs \/ Accepted(v)

RefusalsRead(v) ==
  LET h == seen[v]
      t == Tcert(v)
  IN /\ Past(v, {"tcertRevoked", "blocked", "secrets", "fields"})
         => KeyOf[t] \notin h.deadKeys
     /\ Past(v, Pcs \ {"idle", "tcert", "distrusted", "done"})
         => ~h.distrusted
     /\ Past(v, {"blocked", "secrets", "fields"}) => ~h.retro
     /\ Past(v, {"secrets", "fields"}) /\ h.blocked => revTcert[t] # {}
     /\ run[v].result.revocation = "valid"
         => run[v].pc \in {"secrets", "fields", "done"}

TrustRead(v) ==
  LET c == run[v]
      h == seen[v]
      a == c.att.ca
      t == Tcert(v)
  IN /\ c.pc \in CaChecks => a \in Tcerts
     /\ c.pc \in CaChecks \ {"attestation"} => <<t, a>> \notin h.deadAtts
     /\ c.pc \in {"caPinned", "caConfigured", "caKey", "target"}
          => a \notin h.deadCas
     /\ c.pc \in {"caKey", "target"} => a \in h.roots
     /\ c.pc = "target" => KeyOf[a] \notin h.deadKeys
     /\ c.via # NoTcert => /\ c.via \notin h.deadCas
                           /\ KeyOf[c.via] \notin h.deadKeys
                           /\ <<t, c.via>> \notin h.deadAtts
                           /\ c.via \in h.roots
     /\ c.pinned => h.pinned
     /\ c.result.trust = "valid"
          => /\ c.pinned \/ c.via # NoTcert
             /\ c.pc \in {"keyRevoked", "tcertRevoked", "blocked", "secrets",
                         "fields", "done"}

CallInvariant ==
  \A v \in Verifications :
    (Running(v) => StillTrue(v)) /\ RefusalsRead(v) /\ TrustRead(v)
=============================================================================
