------------------------------ MODULE KeyVault ------------------------------
(***************************************************************************)
(* The desktop's private keys and the password over them (qrs-desktop      *)
(* securePrivateKeyStore.ts and its handlers in ipc.ts).  Each key is      *)
(* sealed on its own: by the operating system, or under a password.  That  *)
(* there is a password is recorded elsewhere, in the settings file, which  *)
(* the windows read, edit and write back whole.                            *)
(*                                                                         *)
(* The stores are synchronous, so no other handler runs while setPassword  *)
(* or removePassword seals the keys again; the process may stop though,    *)
(* between any two of their writes or inside one.                          *)
(***************************************************************************)
EXTENDS Naturals

CONSTANTS
  Keys,         \* key ids
  Passwords,    \* what may be typed as a password
  NoKey,
  NoPassword

ASSUME KeyVaultAssumption ==
  /\ NoKey \notin Keys
  /\ NoPassword \notin Passwords
  /\ {"absent", "os"} \cap (Passwords \cup {NoPassword}) = {}

VARIABLES
  sealed,       \* [Keys -> how the record of the key is sealed]
  first,        \* the first record of the store
  password,     \* the password in memory
  configured,   \* passwordConfigured
  flag,         \* privateKeyPasswordConfigured in the settings file
  job,          \* the sealing under way
  copies,       \* the flag in the settings windows are about to write back
  interrupted,  \* a stop broke a sealing off or tore a file (history)
  overwritten   \* a window wrote an outdated flag back (history)

vaultVars == <<sealed, first, password, configured, flag, job, copies,
               interrupted, overwritten>>

Sealings == {"absent", "os"} \cup Passwords

\* Seal the keys `todo' as `to', then set the flag.
Jobs == [busy: BOOLEAN, to: {"os"} \cup Passwords, todo: SUBSET Keys,
         flag: BOOLEAN]

NoJob == [busy |-> FALSE, to |-> "os", todo |-> {}, flag |-> FALSE]

Held == {k \in Keys : sealed[k] # "absent"}

VaultInit ==
  /\ sealed = [k \in Keys |-> "absent"]
  /\ first = NoKey
  /\ password = NoPassword
  /\ configured = FALSE
  /\ flag = FALSE
  /\ job = NoJob
  /\ copies = {}
  /\ interrupted = FALSE
  /\ overwritten = FALSE

-----------------------------------------------------------------------------
\* Does load find the key with what is in memory?
Opens(k) == sealed[k] \in {"os", password}

\* unlock tries the password on the first record only.
Fits(w) == first # NoKey => sealed[first] = w

\* Does every record open, given this password?
AllOpen(w) == \A k \in Held : sealed[k] \in {"os", w}

\* Mutant: a locked store does not fall back on the operating system.
GenerateUnderPassword(k) ==
  /\ ~job.busy
  /\ sealed[k] = "absent"
  /\ sealed' = [sealed EXCEPT ![k] = password]
  /\ first' = IF first = NoKey THEN k ELSE first
  /\ UNCHANGED <<password, configured, flag, job, copies, interrupted,
                 overwritten>>

\* A key pair may be generated while the store is locked.
Generate(k) ==
  /\ ~job.busy
  /\ sealed[k] = "absent"
  /\ sealed' = [sealed EXCEPT
                  ![k] = IF password = NoPassword THEN "os" ELSE password]
  /\ first' = IF first = NoKey THEN k ELSE first
  /\ UNCHANGED <<password, configured, flag, job, copies, interrupted,
                 overwritten>>

\* Mutant: the password is taken as it is.
UnlockUntested(w) ==
  /\ ~job.busy
  /\ configured
  /\ password' = w
  /\ UNCHANGED <<sealed, first, configured, flag, job, copies, interrupted,
                 overwritten>>

Unlock(w) ==
  /\ ~job.busy
  /\ configured
  /\ Fits(w)
  /\ password' = w
  /\ UNCHANGED <<sealed, first, configured, flag, job, copies, interrupted,
                 overwritten>>

\* Every key is opened before the first is sealed again.  The handler does
\* not ask whether there is a password already; the settings page does.
SetPassword(w) ==
  /\ ~job.busy
  /\ \A k \in Held : Opens(k)
  /\ password' = w
  /\ configured' = TRUE
  /\ job' = [busy |-> TRUE, to |-> w, todo |-> Held, flag |-> TRUE]
  /\ UNCHANGED <<sealed, first, flag, copies, interrupted, overwritten>>

\* The store is unlocked first, and stays so when a key is under another
\* password and the removal fails.
RemovePassword(w) ==
  /\ ~job.busy
  /\ configured
  /\ Fits(w)
  /\ IF AllOpen(w)
     THEN /\ password' = NoPassword
          /\ configured' = FALSE
          /\ job' = [busy |-> TRUE, to |-> "os", todo |-> Held,
                     flag |-> FALSE]
     ELSE password' = w /\ UNCHANGED <<configured, job>>
  /\ UNCHANGED <<sealed, first, flag, copies, interrupted, overwritten>>

\* One key is sealed again and the file written, in the store's order.
SealNext(k) ==
  /\ k \in job.todo
  /\ first \in job.todo => k = first
  /\ sealed' = [sealed EXCEPT ![k] = job.to]
  /\ job' = [job EXCEPT !.todo = @ \ {k}]
  /\ UNCHANGED <<first, password, configured, flag, copies, interrupted,
                 overwritten>>

\* Mutant: the handler leaves the settings as they were.
FinishUnrecorded ==
  /\ job.busy /\ job.todo = {}
  /\ job' = NoJob
  /\ UNCHANGED <<sealed, first, password, configured, flag, copies,
                 interrupted, overwritten>>

Finish ==
  /\ job.busy /\ job.todo = {}
  /\ flag' = job.flag
  /\ job' = NoJob
  /\ UNCHANGED <<sealed, first, password, configured, copies, interrupted,
                 overwritten>>

-----------------------------------------------------------------------------
(* A window reads the settings, changes one of its own and writes them     *)
(* back: two calls, and others are handled in between.                     *)

ReadSettings ==
  /\ ~job.busy
  /\ copies' = copies \cup {flag}
  /\ UNCHANGED <<sealed, first, password, configured, flag, job, interrupted,
                 overwritten>>

WriteSettings(copy) ==
  /\ ~job.busy
  /\ copy \in copies
  /\ flag' = copy
  /\ copies' = copies \ {copy}
  /\ overwritten' = (overwritten \/ copy # flag)
  /\ UNCHANGED <<sealed, first, password, configured, job, interrupted>>

-----------------------------------------------------------------------------
LoadFlag(torn) == IF torn = "settings" THEN FALSE ELSE flag

\* A file torn in the middle of a write loads as an empty one.
VaultRestart(torn) ==
  /\ sealed' = IF torn = "keys" THEN [k \in Keys |-> "absent"] ELSE sealed
  /\ first' = IF torn = "keys" THEN NoKey ELSE first
  /\ flag' = LoadFlag(torn)
  /\ configured' = LoadFlag(torn)
  /\ password' = NoPassword
  /\ job' = NoJob
  /\ copies' = {}
  /\ interrupted' = (interrupted \/ job.busy \/ torn # "none")
  /\ UNCHANGED overwritten

VaultNext ==
  \/ \E k \in Keys : Generate(k) \/ SealNext(k)
  \/ \E w \in Passwords : Unlock(w) \/ SetPassword(w) \/ RemovePassword(w)
  \/ Finish \/ ReadSettings
  \/ \E copy \in BOOLEAN : WriteSettings(copy)
  \/ \E torn \in {"none", "keys", "settings"} : VaultRestart(torn)

VaultSpec == VaultInit /\ [][VaultNext]_vaultVars

-----------------------------------------------------------------------------
(* Type invariant of the store, the settings and the sealing under way.    *)
VaultTypeOK ==
  /\ sealed \in [Keys -> Sealings]
  /\ first \in Keys \cup {NoKey}
  /\ password \in Passwords \cup {NoPassword}
  /\ configured \in BOOLEAN
  /\ flag \in BOOLEAN
  /\ job \in Jobs
  /\ copies \subseteq BOOLEAN
  /\ interrupted \in BOOLEAN
  /\ overwritten \in BOOLEAN

\* No stop broke a sealing off and no window overwrote the flag.
Undisturbed == ~interrupted /\ ~overwritten

(* Once the store is unlocked every key in it opens: unlock tests the      *)
(* first record only, passwords are set and removed, keys are generated    *)
(* with the store empty or locked, yet no two records are ever under       *)
(* different passwords (unlock, save, setPassword, removePassword).        *)
UnlockedOpensAll ==
  Undisturbed /\ ~job.busy /\ password # NoPassword
    => \A k \in Held : Opens(k)

\* A key opens now, or will once its own password is given to unlock.
Usable(k) == Opens(k) \/ (configured /\ Fits(sealed[k]))

(* No sequence of generations, passwords set and removed, and restarts     *)
(* between them leaves a key that no password opens again: the settings    *)
(* say there is a password whenever a record is under one, and unlock      *)
(* takes it (createSecurePrivateKeyStore, the handlers of ipc.ts).         *)
KeysStayUsable ==
  Undisturbed /\ ~job.busy => \A k \in Held : Usable(k)

(* The settings page: "You must unlock it after restarting the app."       *)
(* Wherever the process stopped, a key its file still holds can be         *)
(* unlocked after the restart.  It does not hold (README, 3).              *)
KeysSurviveRestarts ==
  ~overwritten /\ ~job.busy => \A k \in Held : Usable(k)

-----------------------------------------------------------------------------
(* What the properties above follow from.  At rest the flag, what memory   *)
(* says and the records agree, and all records under a password are under  *)
(* that of the first; during a sealing the records are as they were or as  *)
(* they are to be.                                                         *)

AtRest ==
  /\ flag = configured
  /\ ~configured => password = NoPassword
  /\ \A k \in Held :
       sealed[k] # "os" => configured /\ sealed[k] = sealed[first]
  /\ password # NoPassword => Fits(password)

Sealing ==
  /\ job.flag = configured
  /\ job.to = IF configured THEN password ELSE "os"
  /\ ~configured => password = NoPassword
  /\ \A k \in Held : k \notin job.todo => sealed[k] = job.to

VaultInvariant ==
  /\ first = NoKey => Held = {}
  /\ first # NoKey => first \in Held
  /\ job.todo \subseteq Held
  /\ ~job.busy => job.todo = {}
  /\ Undisturbed /\ ~job.busy => AtRest
  /\ Undisturbed /\ job.busy => Sealing
=============================================================================
