# QRS: TLA+ models, checks and proofs

QRS signs documents that are verified offline. An issuer holds a key and a
*TCert* (a self-signed description of the key and of the schema of its
documents), signs *SDocs* with it, and hands them over as QR codes or files.
A verifier accepts an SDoc when the TCert is pinned or attested by a trusted
CA, nothing revokes or blocks it, the signature checks and the fields hold.
Signed *statements* (attest, revokeTcert, revokeAttestation, blockSdoc,
unblockSdoc) travel the same ways and through distribution servers nobody has
to trust.

This directory holds TLA+ modules translated from the code, TLC
configurations that check them on small instances, and TLAPS proofs of the
properties that matter most. `PROJECT.json` maps each definition to the lines
it stands for, and lists the hazards, runs, mutants, findings and theorems.

## 1. Inventory

| Component (source) | State | Operations | Where |
|---|---|---|---|
| Trust service (`qrs-core-js/src/services/trustService.ts`) | pinned, CA, distrusted TCerts; attestation records | pin, unpin, addCa, removeCa, distrust, trustAgain, attest, addTcert, resolveTrust | `Device`, `Verification` |
| Revocation service (`revocationService.ts`) | revoked TCerts, keys, attestations; blocked SDocs; statement history | revokeAttestation, revokeTcert, revokeKey, blockSdoc, unblockSdoc, checkRevocation | `Device`, `Verification` |
| Statement import (`onlineService.ts`, `statement.ts`) | the stores above | importStatement, importTcert | `Device` |
| Verification service (`verificationService.ts`) | the locals of one call | verify | `Verification` (trust, refusals), `Documents` (prompts and fields) |
| File stores (`storage/fileStores.ts`) | one map in memory and one JSON file a store | get, set, delete, load, persist | `Device` (with torn files) |
| Signing service (`signingService.ts`) | documents | issueSdoc | `Device` (refusals), `Documents` (values) |
| Fields (`fields/*.ts`) | none | validateInput, encode, decode, validateField, date rules, bindings | `Fields` (operators), `Documents` |
| Certificate service (`certificateService.ts`) | keys, TCerts | generateKeyPair, createTcert | `KeyVault` (keys); numbering not modelled |
| Desktop upload queue (`qrs-desktop/src/main/online.ts`) | `this.pending`, `pending-uploads.json`, token cache | submitObject, submitRawAttachment, submitAttestation, uploadPending, syncNow | `UploadQueue` (not submitAttestation, not tokens) |
| Desktop key vault (`securePrivateKeyStore.ts`, `configStore.ts`, part of `ipc.ts`) | sealed private keys, password in memory, flag in the settings | save, load, setPassword, unlock, removePassword | `KeyVault` |
| Desktop sync (`sync.ts`) | none | syncTcert: flush, then pull | partly: its flush is in `UploadQueue`, what it pulls in `Device` |
| Desktop handlers (`ipc.ts`) | none | import, remove, configuration | partly: those that write stores directly |
| Context bridge, PINs (`contextBridge.ts`, `tcertPinStore.ts`) | requests awaiting a reply; authorisation until a time | ask, reply, verify, beginSession | not modelled; a prompt that times out is a missing answer |
| Distribution server (`qrs-server/api`) | registered TCerts, challenges, tokens, statements, attachments | challenge, token, four statement uploads, attachments, sync; the administrator's import, marking, switching, deleting, tokens made by hand | `Server`, `Attachments` (not throttles, not the read endpoints) |
| Mobile app (`qrs-mobile-app/lib`) | whole-list read-modify-write stores in AsyncStorage | store operations, removeTcertCascade, imports, verifySdoc | `Mobile` (not the secret prompt, attachments, history) |
| Enterprise server (`qrs-enterprise/enterprise`) | managed keys, TCerts, grants, API keys, documents, audit log | createTcert, sign, revoke, block, unblock, publish; grants, API keys, edits and deletions in the Django admin | `Enterprise` |
| Python core (`qrs-core-python`) | as the TypeScript core, without revoked attestations and statement history | as the TypeScript core, without revokeAttestation | `PythonCore`, compared with TypeScript in `Cores`; `Fields`, `Documents`: engines, date rules, issue_sdoc, second half of verify (not certificate numbers, attachments, endpoints) |
| Encoding and cryptography (`cbor`, `cose`, `crypto`, `signedObject`) | none | encode, parse, sign, verify | ideal |
| User interfaces, command line, conformance fixtures | | | input and output, not modelled |

**How they interact.** Everything on a device shares the stores. The desktop
handlers call the core services, which are `async` functions over the stores;
any two of them interleave at their awaits. A verification asks the user for
values through a prompt and so may stay open for minutes while statements are
imported, trust is edited and TCerts are replaced. Operations on the authority
side publish what they signed through the upload queue; servers keep it; a
sync of another device pulls it back, in the server's order and again at every
sync. The mobile app calls the same core over stores of its own, in which a
list is read, changed and written back with awaits in between. The enterprise
server calls the Python core from web requests that run side by side, and
keeps keys, documents and an audit trail in a database without transactions.
A document issued by either core is verified by either.

**What is hard.** (a) `verify` reads a dozen facts at a dozen moments. (b)
Statements arrive in any order, repeatedly. (c) Authority operations check,
then sign, then store. (d) Two flushes and several submissions share one array
across awaits. (e) Every file is written whole, so a stop tears it, and a torn
file loads as an empty store. (f) The password over the private keys is
recorded in another file than the keys. (g) The server handles requests in
parallel, each query on its own, with up to 20 seconds of signature checking
between reading a row and writing under it. (h) On a phone, deleting a
certificate edits eleven lists, and verifying reads eight, each at its own
moment. (i) An enterprise request signs, publishes and audits in separate
steps, and two of them may work on one document. (j) What is signed is a
normalised form of what was typed, and two cores judge it. (k) The two cores
keep different records of the same history. The list with
lines is `hazards` in
`PROJECT.json`.

**What makes each component correct.** Verification: whatever stood against a
document throughout the call is in the result, and trust that is reported was
there. Revocation: nothing but the loss of a file makes a device forget who
revoked what. Authority: what is stored as signed by a local key was allowed to
that key. Queue: a queued upload is delivered or still queued, and in the end
delivered. Vault: every key stays reachable with the right password. Server:
what is hosted was earned, allowed and signed, what it says of an enrolment is
complete, and an attachment once accepted stays downloadable. Mobile: a removal
grants no trust on its way, and a verification never combines moments into an
acceptance that no moment would give. Enterprise: what was answered is audited
and, for a CA with an endpoint, published, and a record names who signed it.
Fields: who gets a document accepted knew its bound values, what is signed can
be verified, and the cores agree. Two cores: after the same history they grant
the same authority and judge documents alike.

## 2. Modules

| Module | What it is |
|---|---|
| `Device` | the stores of one device and each operation that changes them; no specification of its own, it is extended |
| `Verification` | extends `Device` with any number of concurrent `verify` calls, restarts, the specification and its properties |
| `DeviceProofs`, `VerificationProofs` | lemmas and theorems of the two |
| `UploadQueue` | the desktop's queue |
| `KeyVault` | the desktop's private keys, the password and the settings flag |
| `DesktopProofs` | the theorems of the two |
| `Server`, `ServerProofs` | the distribution server's challenges, tokens, uploads and administration, and their theorems |
| `Attachments`, `AttachmentsProofs` | the attachment uploads of the server, and their theorems |
| `ContentStore` | what the attachment service promises; `Attachments` implements it |
| `PythonCore` | the Python core's stores and services and the first half of its verify; no specification of its own |
| `Cores` | extends `Device`, instantiates `PythonCore`: the same history on both cores |
| `Fields` | the field engines and date rules of both cores, as operators |
| `Documents` | extends `Fields`: one document, issued by one core and verified by any |
| `CoresProofs` | the theorems of `Cores` and of `Documents`: what the two cores have in common, and what verifying a document shows |
| `Mobile`, `MobileProofs` | the mobile app's lists, the calls that edit them, and its verification; their theorems |
| `Enterprise`, `EnterpriseProofs` | the requests of the enterprise server, and their theorems |
| `MCVerification`, `MCUploadQueue`, `MCKeyVault`, `MCServer`, `MCAttachments`, `MCDocuments`, `MCMobile`, `MCEnterprise`, `MCCores` | the small instances TLC checks |

### Device

The state is one variable a store: `certs`, `docs`, `pinned`, `cas`,
`distrusted`, `atts`, `revTcert`, `revKey`, `revAtt`, `blocked`, `history`;
`inflight` holds statements between the check and the write, and `ops` counts
operations for the bound. TCert ids contain the key id, so `KeyOf` is a
constant; the bytes stored under an id are a *content*, and two contents are
equal exactly when their hashes are.

* One action an operation: `Pin`, `Unpin`, `AddCa`, `RemoveCa`, `Distrust`,
  `TrustAgain`, `ImportTcert` (checked), `SaveTcert` (a file, or the bytes
  given to addTcert: stored unchecked), `RemoveTcert`, `IssueSdoc`,
  `ImportSdoc`, `RemoveSdoc`.
* An operation that produces or imports a statement is two actions, because
  the code awaits in between: its guard is evaluated by `Attest`,
  `RevokeAttestation`, `RevokeTcert`, `RevokeKey`, `BlockOrUnblockSdoc` or
  `ImportStatement`, which put it in `inflight` (`Begin`); `Store` writes it
  with the store's own rules (`AddRevokedTcert` keeps one entry a revoker,
  `AddAttestation` one record a target and CA, the block and unblock writes
  also extend the history).
* `importStatement` asks only that the signer's TCert is held; it checks no
  authority. The model does the same, and the properties say what follows.
* `Restart(torn)` reloads the files; a torn one loads empty
  (`JsonFileStore.load`). `inflight` is lost.

Abstractions: every await is a point where other operations may run, which
includes all that Node does and some orders it does not (the file stores
finish synchronously inside their async functions). The four store writes of
certificates.remove, the two files of a block and the whole of issueSdoc are
one step. SDocs without a valid number or time are grouped with those that do
not parse: all of them are refused, by different fields of the result. An
attestation record keeps one hash for the record's and the statement's, since
only equal ones count. Signatures are ideal, and a stored body is assumed to
carry the public key of its id.

### Verification

`run[v]` is the local state of a call: where it is, the document, the body
it read, whether it read a pin, the attestations to try and the one being
tried, the CA that carried trust, the result. Each read of a store is an
action named after what it reads (`ReadTcert`, `ReadDistrusted`, ...,
`ReadBlocked`), followed by `CollectSecrets` (the prompt, then the signature)
and `CheckFields`. Early returns are `Return`. `Overall` is `finalize`.

`seen[v]` is history, for the properties only: what was revoked when the call
began, which refusals have held at every moment since, and what trust or
attested body existed at some moment. It is never read by an action.

### PythonCore and Cores

`PythonCore` has the stores of a Python device and an action for each service
operation. Its service functions are coroutines that never wait, so a call is
one step, the check and the write together. It differs from `Device` where the
code differs: `atts` is a set of records that grows with every attestation
(`AddAttestation`; the file store replaces the record of the same second,
hence the choice of at most one old record), `revTcert` holds one entry a
TCert, whoever signed it, there is no revoked attestation and no history of
statements, and a revokeAttestation statement is refused as malformed
(`Known`). Torn files are not modelled for this core.

`Cores` puts one device of each core side by side. Every operation is carried
out on both, each by its own guards and stores: the trust configuration, the
TCerts (so bodies change under attestations), the authority operations of the
keys that both hold, and the statements of others in the same order. A key may
have several TCerts: the CA's has two in the run. The
TypeScript core writes a statement in a step of its own (`Finish`); the next
operation begins when it has. revokeAttestation is done on one side only, as
the other has none. Removals are left out, because nothing in the Python core
calls those of its stores, and so are restarts. An operation one core allows
and the other refuses would not happen on either, and `AuthorityAgrees` says
for revocations and blocks that there is none.

`Judge` is verify up to the revocation check: the parts of the result, or what
they are when it goes on to ask for values. `Documents` compares the rest.
`DivergesFor` names the cases in which the judgements part. One of them needs a
history variable: `ambiguous` has the TCerts of which an attestation was
imported while its signer's key had several TCerts to attribute it to
(`HasChoice`). Each core looks through the key's TCerts in the order of its own
store and prefers a configured CA (`onlineService.ts:57-80`), so the two may
record different CAs.

### UploadQueue

`pending` is the array, `file` its copy on disk. A submission tries its
endpoints one after the other and enqueues what fails; a flush iterates over
the array it found, keeps what fails or is out of scope, and makes that the
new array. `flush[f].live` says whether the array being iterated over is still
`this.pending`: pushes reach a live iteration, as they do in JavaScript. An
upload is taken and answered, taken with the answer lost, or not taken.
Writes of the file may fail silently (`saveQueue`), and a restart may find it
torn. The order of the array is left open. Tokens, challenges and the proof of
work are part of an upload that fails. `overlapped` and `unsaved` record the
two circumstances the properties name.

### KeyVault

`sealed[k]` says how the record of a key is protected: not there, by the
operating system, or under a password. `password` and `configured` are the
variables of the closure, `flag` is `privateKeyPasswordConfigured` in the
settings. setPassword and removePassword open every record first and then seal
one after the other (`SealNext`); only then does the handler write the flag
(`Finish`). setPassword asks for nothing and may be called with a password set;
only the page hides the button then (`SettingsPage.tsx:61`). The stores are
synchronous, so no other handler runs during a sealing, but the process may
stop. A window that edits the settings reads them, changes its own entry and
writes all of them back (`ReadSettings`, `WriteSettings`). The plaintext
fallback of platforms without a secure store counts as "os", as no password
opens or closes it. A write that fails with an exception and the restore of a
backup are not modelled.

### Server

The tables are `cert` (the body of each registered TCert), `cas` (`is_ca`),
`enabled` (the `allow_` flags), `hosted` (`SignedObject`), `enrolled`
(`TcertAttestation`), `challenges` and `tokens`. `req[r]` is the state of a
request that a worker is handling: where it is, and the row it has loaded.
`settings.py` sets no `ATOMIC_REQUESTS`, so every query is a step of its own.

* A token takes three: `Redeem` finds the challenge, `Spend` deletes it, `Mint`
  creates the token. Nothing stops two requests from finding the same
  challenge. `Challenge` deletes those that are too old, `Age` makes them so;
  `Redeem` takes any that is there, as the code does.
* An upload takes three or four: `Load` reads the row with its flags,
  `CheckToken` looks the token up and checks the statement against that row
  (`Accepts`), `CheckTarget` asks whether the target of an enrolment is a CA,
  and `Enrol` (one transaction) or `Host` writes. `Drop` is any refusal or
  failure on the way. What does not depend on other requests is checked with
  the step before it.
* `Import`, `MarkCa`, `UnmarkCa`, `Switch`, `Delete`, `DeleteStatement`,
  `DeleteChallenge` and `GiveToken` are the administrator's (`Expire` is also
  the deletion of a token). The deletion of a TCert cascades; a request whose
  row is gone (`row`) cannot write, even when the TCert is registered again,
  since that makes another row. Nothing refers to a hosted statement, so
  deleting one leaves the enrolment it made, until the statement is uploaded
  again. Tokens made in the admin are apart from the others (`gifts`), because
  nobody has redeemed a challenge for them.
* `issued`, `minted`, `raced`, `given`, `imported`, `removed`, `withdrawn` and
  `found` are history. `withdrawn[t]` are the statements under `t` that the
  administrator has deleted since their last upload; `found[r]` collects what
  has held at some moment of the request. `aged` says of each challenge whether
  CHALLENGE_TTL_SECONDS have passed, which the code computes from `created_at`.

### Attachments

`rows` is `AttachmentBlob` (its file and type), `refs` the
`AttachmentReference` rows, `files` the storage; `registered` and `allowed`
say which TCerts have a row and may upload. An upload is `Begin` (the view's
checks), `Find` (is there a row with a file?), `SaveFile` (the storage picks a
free name), `SaveRow` and `Reference`; `Fail` is any failure on the way. A row
without a file is what migration 0011 leaves of an old upload, and is repaired
by the next one. The administrator's deletions cascade as the foreign keys
say; a stored file is never deleted.

`ContentStore` is the promise: contents that are served, links to them, and
orders of the administrator. Under the mapping at the end of `Attachments` a
content is served when its row names a file, and a reference is linked when
its content is served; `SaveRow` is `Put`, `Reference` is `Link`, the
deletions are `Withdraw` and `Unlink`, everything else is a stutter.

### Fields and Documents

`Fields` has an operator for each thing the engines decide: `Accepts` (input
rules), `Encode` (the stored form), `Written` (as a value is compared with an
answer), `FieldState` (validateField), `RuleHolds` (date rules), each taking
the core it speaks of where the two differ. Values are as small as the
decisions allow: a text is its lengths before and after NFC and its number of
characters outside the basic plane and of blanks at its ends, a number counts
half units of the tenth decimal or powers of ten, a point lies on a line, times
are minutes.

Integers keep the widths the code gives them. Python stores a whole number of
any size up to 2^64 as a CBOR integer (`Storable`), TypeScript one that is safe.
What is stored is read by `Decoded`: the TypeScript decoder puts a head of four
bytes together with signed shifts, so that 2^31 to 2^32-1 come out negative
(`Signed`), and gives a bigint from 2^53 on, which no field accepts. `Half`,
`Safe`, `Wide` and `EpochHalf` are these limits in the units of the values. An
answer is compared with the stored value as it is read and written, with the
blanks at both ends removed (`Presentable`, `Trim`). `MayStore` is what
issue_sdoc can encode at all.

`Documents` is the life of one document. `IssueDocument` is issueSdoc with its
defaults and checks. A verification is `BeginVerification`, one `AskSecret` or
`NoSecret` a field, `CheckSignature`, one `AskValue` or `CheckField` a field,
`FinishVerification`.
`check.states` and `check.schema`, `.context`, `.cryptographic` are the parts
of the result. Trust and revocation are valid here: `Verification` has them.
Patterns, the hash of an attachment and a registry's treatment of unknown
types are left out. What the fields, rules and values of a schema can be is
said by `SchemaFields`, `Rules` and `Values`; `DocumentsAssumption` asks no
more of the constants than that they are of these kinds.

The rules of a date are evaluated by `RuleHolds` (the code) and described by
`Meaning` (the comments, `dateRules.ts:4-36` and `date_rules.py:3-28`), which
share nothing but the comparison of two numbers: `Described` is the date as a
reader of the comments sees it, in the zone the comment names.

### Mobile

`disk` is AsyncStorage, one entry a list. A call is a list of edits (`todo`),
and every edit is a `Read` and a `Write` of a whole list, so that calls
interleave between the two and lose updates as they do in the app.
`RemoveTcertCascade` reads attestations and pins once and then sweeps eleven
lists in the code's order (`SweepOrder`). `Import` takes the objects of a scan,
a file or a server one by one, TCerts first. `Stop` ends every call and the
verification where they are.

verifySdoc is `ReadForCore` (the core's reads), `ReadDistrusted`,
`ReadPinned`, `ReadAttestations`, and then the views of all CAs that attested
the TCert. These are started with Promise.all and make the same awaits, so
they read in lockstep: `ReadForViews` is one read of all of them. `CaReads` are
the reads of evaluateCaView (`ViewReads`) and then those of isValidAttestation
(`AttestationReads`), which asks once more whether the CA is trusted, so that
pins and CAs are read twice. Reads that the core repeats and that can only
refuse are left out. Bodies and
signatures are abstracted, and every revocation is retrospective.

`allowed` and `seen` are history. `allowed` is what was acceptable before a
removal and will be after it; `seen` is whether the document of the running
verification was acceptable at some moment, and how much ran beside it. A call
that has read a list which another has changed since (`Outdated`) counts for
two, because its write takes back what the other did.

### Enterprise

`halves`, `tcerts`, `cas`, `endpoints`, `grants`, `apiKeys`, `records` and
`audit` are the tables (`halves[t]` says which halves of a key are stored, `cas`
and `endpoints` are two columns of a TCert), `published` is what the
distribution server has taken. `req[r]` is the request a worker handles: where
it is, the operation, and the row it has read. A request starts in the action
of its view (`CreateTcert`, `SignSdoc`, `RevokeTcert`, `BlockOrUnblockSdoc`)
with the permissions of the session or of the API key; then every ORM call and
the upload is a step. A record is read and written back whole, twice
(`ReadForSave`, `SaveDocument`, `ReadForEnrich`, `Enrich`); a row is known by
the number of the request that inserted it, since writing back a row that was
deleted inserts it again, and the database refuses a second row of a document.
`Publish` asks whether the signer's TCert is a CA, `Upload` whether it has an
endpoint: a statement of a TCert that is no CA is answered with 201 and never
published, although the comments at `services.py:204`, `231` and `257` say "to
the signer's qrs-server endpoint". `FailAnywhere` is a failure or a stop at any
step.

The Django admin works on the same tables beside the requests: `EditTcert`
(is_ca, online_endpoint), `DeleteTcert`, `DeleteKey`, `DeleteRecord`,
`DeleteAudit`, each with its cascade. `altered` and `erased` remember which
TCerts and which audit rows, because a property cannot promise what the
administrator has undone.

Each view builds a runtime of its own whose trust and revocation stores start
empty and are not filled from the database. So `attest` is always refused, and
verify through the API knows no block and no revocation; neither changes
anything that is kept, and there is no state for them. Two signatures over the
same values in the same second are the same bytes, which is how two requests
come to work on one document.

## 3. Runs

| Run | Checks | Result |
|---|---|---|
| `verify` | types, `RevokedKeyNeverAccepted`, `RevokedCaCarriesNoTrust`, `StandingRefusalHolds`, `AcceptedWasTrusted`, `BlockEscapesOnlyByRevocation`, `LocalStatementsAuthorised`, `RevocationsOnlyGrow`, `VerificationTerminates` | hold, 451,231 states |
| `queue` | types, `QueuedIsKept`, `QueuedIsDelivered` | hold, 42,854 states |
| `vault` | types, `UnlockedOpensAll`, `KeysStayUsable` | hold, 1,348 states (with symmetry) |
| `server` | types, `RedeemedOnce`, `HostedWasEarned`, `EnrolmentsAreWhole`, `BodiesAreVouchedFor`, `StoredWasPermitted` | hold, 1,573,331 states (with symmetry) |
| `attachments` | types, `RowIsWhole`, `AcceptedIsServed`, `ImplementsContentStore` | hold, 761,775 states (with symmetry) |
| `documents` | types, `HolderKnewTheValues`, `SignedIsVerifiable`, `CoresAgree`, `DateRulesReadAsWritten`, `NowIsToday` | hold, 213,935 states |
| `mobile` | types, `RemovalGrantsNothing`, `ValidAtOneMoment` | hold, 1,960,660 states |
| `enterprise` | types, `AnsweredIsRecorded`, `RecordNamesItsSigner` | hold, 1,466,071 states (with symmetry) |
| `cores` | `TrustIsNeverNarrower`, `AuthorityAgrees`, `JudgementsAgree` | hold, 1,473,561 states |
| `older_block` | `OlderStatementNeverOverrides` | violated |
| `queue_overlap` | `QueuedIsNeverLost` | violated |
| `python_weekday` | `PythonReadsWeekdays` | violated |

Every property of a passing run has a mutant of the code that breaks it.

**What the violations show.**

1. *The older statement wins when it is stored last.* Block and unblock are
   applied on arrival, not by `issuedAt`. In the run the unblock issued at 2 is
   stored first and the block issued at 1 after it: the document stays blocked.
2. *Overlapping flushes lose uploads.* Two firings of the timer suffice. Both
   assign the array; what was queued between the two assignments is gone.
3. *Python reads weekdays one day late.* `_WEEKDAYS` begins with Sunday and is
   indexed with `weekday()`, which counts from Monday. In the run a Friday is
   taken for a Thursday, and `day() == 'friday'` refuses it.

**What else does not hold.** The modules also state six properties that the
code does not have. No run is kept for them; adding the name as an `INVARIANT`
to the configuration named here shows the counterexample.

* `BlockedNeverAccepted` (`verify.cfg`). *A prospective revocation
  uncovers a blocked document.* checkRevocation returns valid for a document
  older than a prospective revocation without reading the block.
  `BlockEscapesOnlyByRevocation` says, and the proof confirms, that this is
  the only way past a standing block.
* `AttestedContentIsUsed` (`verify.cfg`). *The attested body need not
  be the one used.* resolveTrust reads the TCert again; when it was replaced
  meanwhile, an attestation of the new body carries trust to a result computed
  with the old one.
* `KeysSurviveRestarts` (`vault.cfg`). *A stop inside setPassword locks the
  keys for good.* The keys are sealed first and the flag is written last;
  after a restart in between unlock is a no-op and every use of the key asks
  for it. `KeysStayUsable` is the property with that exception.
* `EachCaIndependent` (`server.cfg`). *What one party registers replaces what
  another vouched for.* A server keeps one body for an id. In this instance an
  import by the administrator replaces the body under a CA's enrolment; with a
  second CA its enrolment of a newer body does the same. The first CA's sync
  then sends a body that its attestation does not bind.
* `SignedCanBeVerified` (`documents.cfg`). *Some signed documents do not
  verify with the values they were signed with.* A stripped secret that was
  left out is asked for all the same; what is not NFC, or has more than ten
  decimals, is stored in another form than it was entered; 1e30 is stored as
  "1e+3"; the TypeScript core reads an integer from 2^31 to 2^32-1 as a negative
  one (`canonical.ts:190`). `SignedIsVerifiable` names exactly these exceptions.
* `RulesReadAsWritten` (`documents.cfg`). *Rules do not read as their comments.*
  `dateRules.ts:14-18` and `35` speak of the field's local time, but an epoch is
  taken apart in UTC (`datetimeEpochField.ts:44-47`): two hours east of UTC a
  moment of 05:59 UTC is not of the day to `daytime == 'day'`, although it is
  07:59 there. And Python takes the
  weekday of the day before. `DateRulesReadAsWritten` makes these two
  corrections and no other.

**Where the cores part.** Each disjunct of `DivergesFor` is needed: without it
`JudgementsAgree` fails in `cores.cfg` within a few operations. Without
`ambiguous`, so do `AuthorityAgrees` and `TrustIsNeverNarrower`.

* *An attestation of a key with several TCerts.* A statement names the key that
  signed it, not the TCert. Which of the key's TCerts becomes its CA depends on
  the order of each core's certificate store.
* *A withdrawn attestation still carries trust on a Python device.* It never
  learns of it: `revokeAttestation` is not among its `ACTIONS`
  (`constants.py:53`).
* *An attestation of an earlier body comes back with the body.* The Python core
  keeps it beside the newer one; the TypeScript core has replaced it, also
  when what replaced it states no hash and carries no trust at all.
* *Two revocations of a TCert by two keys.* The Python core has the one that
  arrived last, the TypeScript core both, of which the more severe counts. A
  late prospective revocation lifts a retrospective one on Python only. The
  comment in `onlineService.py:9` says that records "are keyed by target +
  signer".

`CoresAgree` names five ways in which the engines judge a stored value
differently (`Differs`). The last is that of the integers: Python stores any
whole number as a CBOR integer (`field_engines.py:258`), and TypeScript reads
those from 2^31 to 2^32-1 as negative and those from 2^53 on as a bigint that is
no number. Moments from January 2038 to February 2106 are among the former.

**Bounds.**

* `MaxOps` = 3 in `verify` bounds operations of the device. The hazards need a
  verification and two or three of them: a refusal to be stored, one to be
  removed or replaced, and one to restore trust. The counterexamples above
  appear within two. The stores written by these operations are read at up to
  seventeen points of the call, and TLC tries every placement.
* Two TCerts, an issuer and a CA, with a key each: the code never looks at a
  third (trust is two levels). Three contents: a plain body, one with a field
  that is signed but not stored and a bounded life, and a forged one. The
  device holds the CA's key, so that it attests, revokes and blocks itself;
  a verification runs within the bounded life or after its end.
  One verification in the runs: verifications only read the stores, so they
  do not influence one another; the proofs are for any number.
* `Wire` is what other parties may have signed; anything in it may arrive at
  any time and again: the issuer's own revocations, and what the CA signs on
  another device. In `older_block` it is two statements, a block and a newer
  unblock of one document.
* `cores`: five operations (`MaxOps`) over an issuer's TCert and a CA's key with
  two TCerts, one configured and one not; the CA's key is held, three contents
  (plain, short-lived, forged), two documents issued before and at the time of
  the revocations, clocks around both limits of the short life and the age. Two
  operations make the stores differ, one or two more put a body or a trust back,
  and one acts on it. The proofs lift this bound.
* `MaxFaults` = 3 in `queue` bounds failures of network, disk and process.
  That is the assumption under which delivery can be promised at all: the
  network works in the end. Refusals by a server are not bounded.
* `KeyVault` needs no bound. Its symmetry over keys and passwords is sound:
  no property or constant tells them apart, and no liveness is checked there.
* `server`: a CA with two TCerts of one issuer, a statement of the issuer and
  four of the CA (two attest different bodies of one TCert, one a body that its
  key did not sign, one a body under another id), one challenge, two workers,
  two operations of the administrator (`MaxAdmin`), who switches one service
  (`Switched`) and gives tokens to one key (`Favoured`). A race needs two
  requests; the hazards around the administrator need one change during a
  request, and one to undo it or to register the TCert again. Its symmetry over
  workers is sound, as only safety is checked. The proofs lift every one of
  these bounds.
* `attachments`: two uploads at a time of two contents, one of which has a row
  without a file, for two fields of one TCert (one takes any image, one any
  data), two files, two operations of the administrator. Two uploads are what
  a race needs, and one deletion what pulls a row from under a request. The
  second file is what lets both uploads of one content store one; when both
  names are taken, uploads wait at `SaveFile`, or fail. The proofs lift these
  bounds.
* `documents`: 1,680 pairs of a schema of one or two fields and values for it,
  at least one of each type, with values at the edges of what the engines tell
  apart (length zero, NFC, outside the basic plane, ties at the tenth decimal,
  1e21 and 1e30, integers on both sides of 2^31, 2^53 and 2^64, options out of
  range, each date rule and operator, times around each bound and an epoch of
  2038); clocks before and after a midnight, two offsets, a position or none;
  the right answers as either core writes them, a wrong one and none. Two fields
  suffice for one of them to outweigh the other; the engines look at one value
  at a time.
* `mobile`: two CAs (one may be attested by the other) and an issuer, three
  calls (`MaxCalls`), verifications and stops among them, of which two run at a
  time (a user's and an import's). Four starting disks have a verdict that
  hangs on several lists, under the default policy "any". A fifth, under "all",
  is there so that the policy is taken through its branch: the two properties
  are stated for "any" only. Under "all" `RemovalGrantsNothing` does not hold:
  removing a CA that does not agree lifts its objection with its attestations,
  before the CAs that go with it have lost their trust. And attestations of CAs
  that are not trusted here count as objections too, although `settings.ts:11`
  says "Require every trusted CA to verify the issuer."
* `enterprise`: four requests and administrative operations (`MaxRequests`),
  two at a time, with symmetry over the workers (only safety is checked): a
  TCert that is a CA and one, still to be created, that is none, both with an
  endpoint, a document of the first, an administrator, and a signer who may revoke
  and has one API key. Two signatures of one document, and two operations before
  or between them, are what the properties turn on. The proofs lift these
  bounds.

**Fairness.** `Verification!FairSpec`: weak fairness of each call's next step.
Node runs every continuation whose promise is settled; the store reads settle
at once, and a prompt settles at the latest with the five-minute timer of
`contextBridge.ts`. `UploadQueue!FairSpec`: weak fairness of the timer
(`setInterval`) and of every answer (a request is answered or fails in the
end). No fairness is assumed of users, servers or faults. `older_block` uses
the fair specification as well, so its counterexample is not one of a system
that stopped.

## 4. Proofs

All theorems hold for every value of the constants that satisfies the named
assumptions `DeviceAssumption`, `VerificationAssumption`,
`UploadQueueAssumption`, `KeyVaultAssumption`, `ServerAssumption`,
`AttachmentAssumption`, `EnterpriseAssumption`, `CoresAssumption`,
`FieldsAssumption`, `DocumentsAssumption` and `MobileAssumption` (typing of the
constants, that the limits of integers are in their order, and that the "none"
values are none of the others; for the server
also that the rows it starts with are filed under the ids their bodies state,
for the mobile app that what is imported at once is finitely many objects and
that the lists it starts with hold one entry a target where the code keeps
one). TLC evaluates all of them in the runs.

* `TypeInvariant`, `QueueTypes`, `VaultTypes`, `ServerTypes`,
  `AttachmentsTyped`, `EnterpriseTyped`, `DocumentTypeOKHolds`, `MobileTypes`:
  the type invariants. The first three are inductive as they stand.
* `RevocationsGrow`: each action keeps revokers, revoked keys, attestations
  and the history, by cases over the operations (`DeviceProofs`).
* `LocalAuthority`: what is in flight is authorised in the sense of
  `HasStanding`. It is inductive, because attestations are never deleted while
  the process runs and a restart empties `inflight`. Note what it does *not*
  say: the CA may have lost its trust between check and write.
* `CallsInvariant`, from which `RevokedKeys`, `RevokedCas`,
  `StandingRefusals`, `ConfiguredTrust` and `BlockedDocuments` follow. The
  properties speak of calls that are done, so none of them is inductive. The
  strengthening has three parts. `StillTrue`: for a running call, what the
  history says has held since the beginning holds now (this needs that
  revocations only grow, and that a restart ends every call). `RefusalsRead`:
  for each place after a read, the refusal that the read looks for has not
  stood throughout. `TrustRead`: the same for the CA under examination and for
  the one that carried trust. When a step reads a store, `StillTrue` turns
  what it reads into a statement about the history, and that is all a step
  has to show.
* `QueuedKept`: `KeptInvariant` adds that file and memory agree, that at most
  one flush runs, and `Accounted`: the running flush iterates over the very
  array that is `this.pending`, and each entry is still to be visited, kept,
  being sent, or delivered.
* `UnlockedOpens`, `KeysUsable`: `VaultInvariant`. At rest, flag, memory and
  records agree and each record under a password is under that of the first one
  (`AtRest`), which is why unlock may test that one only; during a sealing the
  records not yet visited are as they were (`Sealing`). Both under the proviso
  that no stop broke a sealing and no window overwrote the flag;
  `KeysSurviveRestarts` (section 3) shows why it is needed. That a password can
  be set over another one changes nothing in it: every record is opened first.
* `ServerSound`: `ServerInvariant` has three parts beside the types.
  `TokenInvariant`: a challenge that is still there has given no token, and two
  requests that redeem the same one are known to race; hence `OneTokenEach`.
  `UploadInvariant`: what a request has checked held at a moment of that
  request, and its row is registered as long as it is that row; hence
  `StoredPermitted`. `HostInvariant`: `HostedWasEarned`, `EnrolmentsAreWhole`
  and `BodiesAreVouchedFor` with what they need, namely that an enrolment
  names the body it registered, and is hosted or was deleted by the
  administrator; hence `HostedEarned`, `EnrolmentsWhole` and
  `BodiesVouched`. Neither of the last two parts is inductive without the
  other: a write is safe because of what its request has checked.
* `InvHolds`: `Inv` of `Attachments` adds `FileInvariant` to the types and the
  two properties: a file on its way into a row holds the content and the type
  of its request, and a request about to link has a row with a file, or none
  (the database will refuse it). Hence `RowsWhole` and `AcceptedServed`.
* `AttachmentsImplementStore`: the refinement. The initial state maps to one
  of `ContentStore`, and under `Inv` every action maps to a step of it or a
  stutter (`StepImplements`, a case for each action). `Inv` is needed for
  `Reference`, which links only to what is served because its row, if it is
  there, has a file.
* `RequestsSound`: what a request has at each of its places (`Shape`).
  `KeysSound` adds what keys and statements are stored by then (`KeysInv`): a
  TCert that is there has both halves of its key, a request that is past the
  creation works on a TCert that is there or once was (`Known`), one that is
  creating a TCert has it to itself (`Alone`), and before it is audited a
  statement is published if that is due (`Due`, `Stored`); hence
  `AnsweredRecorded`. `RecordsNameSigners` needs `RecordsInv`: as long as
  nothing broke off, a stored record whose TCert is there names it and a signer
  who is in the audit trail or about to be, or a request is about to link that
  very row (`Linked`). It has to speak of running requests because a write of
  one undoes the link of another: between the two the record names no one.
  It has to tell rows apart because a deleted one may have been inserted again.

* `CoresCorrespond`: the stores of the two cores correspond (`Correspondence`):
  equal configurations and TCerts, the same keys, blocks and TCerts revoked, the
  same TCert attested by the same CAs, and what the TypeScript core binds is
  among what the Python core has kept. It is inductive with the types, and it
  has to speak of the statement in flight, which one core has and the other
  has not. Every operation either touches none of this or hands one statement
  to both (`OperateIsAsideOrHanded`), so three lemmas carry it:
  `AsideCorresponds`, `HandedCorresponds`, `FinishCorresponds`. From it follow
  `PythonTrustsNoLess`, `CoresAgreeOnAuthority` and `CoresJudgeAlike`, for any
  number of TCerts, keys, documents, statements and operations. A key may have
  any number of TCerts; what the cores have attested corresponds for TCerts
  that are not `ambiguous`, and everything else for all.
* `DocumentInvariantHolds`: `DocumentInvariant` of `Documents`. The properties
  speak of verifications that have ended; the strengthening says what one that
  is under way has come to. `IssuedAsEntered`: the document is what issueSdoc
  makes of values that passed the input rules. `JudgedSoFar`: once the secrets
  are in, the signature holds over them, each state is what `Judgement` says
  of its field and its answer, and `schema` and `context` are those of the
  states so far. `StoppedEarly`: a verification that never came to the fields
  lacks an answer, or has one that does not fit. A later field cannot outweigh
  an earlier one, since both parts are functions of all states. Hence
  `HolderKnewTheValuesHolds`, `SignedIsVerifiableHolds`, `CoresAgreeHolds`,
  `DateRulesReadAsWrittenHolds` and `NowIsTodayHolds`, with lemmas about the
  engines of `Fields`: what passed the input rules and is stored is judged
  valid by its own core, and the two cores judge a stored value alike, type by
  type.
* `MobileInvariantHolds`: `MobileInvariant` of `Mobile`. A removal has the rest
  of `CascadeOrder` before it and any other call one edit a verification could
  notice (`CallsInOrder`); what a call has read is of a list it has still to
  write (`ReadToWrite`); nobody pins a TCert again while it is removed
  (`RemovedStaysOut`: the user has one call at a time, and imports touch
  neither pins nor CAs); at most one call beside a verification means one with
  at most one object and nothing out of date (`OneBeside`).
* `RemovalGrantsNothingHolds`: the invariant `RemovalSoFar` says where a
  removal is. There is a disk from before it such that the lists it has passed
  are those it leaves and the others are untouched (`Underway`). The order of
  the lists does the rest (`PartSweptAccepts`): while trust is being taken
  away, nothing is accepted that was not before, and from then on nothing that
  is not when it has ended.
* `ValidAtOneMomentHolds`: what a verification has read is about many moments,
  so the invariant `MomentSoFar` names one state it answers for. While the
  document has not been acceptable, there is a state `M` of which every read so
  far is true (`Facts`) and which is at least as good to the document as the
  disk (`Better`), so that what is read next is no more than `M` would have
  given. `M` is the disk; or the disk before the one edit, which made things
  worse (`Edited`); or the disk before a removal that is still taking trust
  away (`Losing`); or a state that never was, with the old trust and fewer
  refusals: the distrust of what is removed is lifted and its certificates are
  still there (`Lifted`), or statements are being taken back (`Lost`). In the
  first three cases a valid verdict would make `M` acceptable, which it was
  not. In the last two the trust that `M` still has comes from CAs that have
  left the lists, and the second look of isValidAttestation does not find them
  (`Unheard`). While a distrust is lifted, a TCert that goes with the removed
  one may still have a certificate; what would speak for it is on the disk
  too, or `M` has something against it (`Parted`).

`RemovalSoFar` and `MomentSoFar` say that a disk exists, among more than TLC
can enumerate, so they stand in `MobileProofs`. TLC checks what follows from
them (`mobile`); `MobileInvariant` and `DocumentInvariant` can be added to
`mobile.cfg` and `documents.cfg` as they are.

**What the proofs changed in the models.** The proof of `ValidAtOneMoment`
failed at the step that lifts refusals: without the second look at pins and
CAs the property is false, and isValidAttestation does take it. The mutant
`AttestationReadsTrusting` is the code without it. With it, the exception the
property made for a removal that lifts a distrust is not needed, and it is
gone. The proof also needed calls that have read what another has changed to
count for two. `NowIsToday` was false
for a bound date, whose state depends on the answer of the verifier and not on
its rules alone; the property leaves such fields out now.

**Only model-checked.** `VerificationTerminates` and `QueuedIsDelivered`
(liveness under fairness is out of the prover's reach), and the
counterexamples.

## 5. Not modelled, and why

* *Encoding and cryptography* are ideal: an id or a signature fits or does
  not. The conformance fixtures compare the implementations byte by byte.
* *Two devices and a server together.* The parts are modelled one by one: what
  a queue promises, what a server promises, and a device to which anything may
  arrive at any time and again. The composition adds interleavings of the same
  actions, far beyond what TLC can enumerate. That two devices which have
  pulled the same statements agree is refuted already by `older_block`.
* *Tokens in the queue, and submitAttestation.* A token that was refused is an
  upload that fails; submitAttestation queues nothing, so the queue has nothing
  to promise of it.
* *The context bridge and TCert PINs.* The bridge is a table from a fresh id to
  a resolver, and its timeout ends a prompt without an answer, which
  `Verification` and `Documents` have. The PIN window compares two clock values.
* *Backup.* A restored backup lies on disk for a quarter of a second before the
  application starts again; what running stores write in that time overwrites
  it. There is nothing the code does about it.
* *Numbers of TCerts.* createTcert picks the largest number and one, after an
  await; two calls can pick the same. `SaveTcert` of `Device` replaces a body,
  which is what follows, and `Server` shows what that does to a CA.
* *The rest of the server's Django admin.* Attachment rows are deleted in
  `Attachments`; rows that an administrator adds by hand, or whose columns he
  edits by hand (a statement, a challenge, an attachment), are not modelled.
  Such a row can say anything, so nothing could be stated of it. TCerts cannot
  be added there (`admin.py:17`).
* *Throttles and read endpoints of the server.* They change nothing. The
  challenge is solved in `Server` by whoever redeems it; its cost is not
  modelled.
* *The mobile app's secret prompt, history, attachments and password window.*
  A second request for a secret replaces the resolver of the first
  (`secretPrompt.ts:21`), which then never answers; the history is capped at
  200 entries. Neither changes what is stored or accepted. The fetch of a
  required attachment can only refuse.
* *Lost updates on a phone.* They are in `Mobile`, since a call reads and writes
  in two steps; nothing in the code or its documents promises otherwise, so no
  property is stated of two calls that change one list.
* *What the enterprise server does not keep.* attest is refused and verify
  changes nothing. A publication that failed after the upload leaves a
  statement that is in no audit row, and a stop between the two writes of a
  record leaves one without TCert and signer, even for a document that was
  answered before: both are excepted by name in the properties (`stopped`, and
  `answered` rather than `published`).
* *The rest of the enterprise server's Django admin.* Users, roles and
  permissions are constants; rows added by hand are left out; each operation is
  one step; a key is not deleted while the request that makes it runs. Audit
  rows can be deleted there, although `models.py:181` calls the trail
  "Immutable"; `AnsweredIsRecorded` excepts what was.
* *How publication fails.* `services.py:297` reads `ca.key`, a foreign key that
  is loaded when it is used, inside an event loop, which Django refuses unless
  DJANGO_ALLOW_ASYNC_UNSAFE is set; nothing in the repository sets it. As
  deployed every publication would fail there. In the model an upload may
  succeed or fail, and the properties hold of both.
* *Times from 2038 on, other than in fields.* `issuedAt` and the validity of a
  TCert pass through the same decoder as the fields do (`canonical.ts:190`);
  `Device` and `Cores` take them to be before 2038.
* *Blanks.* `trim` of JavaScript and `strip` of Python remove nearly the same
  characters; `Trim` removes the blanks both know.
* *The rest of the Python core*: certificate numbers, endpoints and attachment
  helpers mirror the TypeScript core; the removals of its stores have no caller
  in it, and what a torn file does is in `Device`.
* *User interfaces, command line, QR transfer, conformance tooling*: input and
  output.
