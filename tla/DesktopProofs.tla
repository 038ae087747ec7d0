--------------------------- MODULE DesktopProofs ---------------------------
(***************************************************************************)
(* Proofs about the state the desktop app keeps of its own: the private    *)
(* keys and the password over them, for any set of keys and of passwords,  *)
(* and the upload queue, for any submissions, endpoints and number of user *)
(* flushes.                                                                *)
(***************************************************************************)
EXTENDS KeyVault, UploadQueue, TLAPS

-----------------------------------------------------------------------------
(* The key vault.                                                          *)

(* Every step keeps the store, the settings and the sealing well formed.   *)
THEOREM VaultTypes == VaultSpec => []VaultTypeOK
<1>1. VaultInit => VaultTypeOK
  <2>1. NoJob \in Jobs
    BY DEF NoJob, Jobs
  <2>2. {} \subseteq BOOLEAN
    OBVIOUS
  <2> QED
    BY <2>1, <2>2 DEF VaultInit, VaultTypeOK, Sealings
<1>2. VaultTypeOK /\ [VaultNext]_vaultVars => VaultTypeOK'
  <2> SUFFICES ASSUME VaultTypeOK, [VaultNext]_vaultVars PROVE VaultTypeOK'
    OBVIOUS
  <2> USE DEF VaultTypeOK
  <2>1. ASSUME NEW k \in Keys, Generate(k) PROVE VaultTypeOK'
    BY <2>1 DEF Generate, Sealings
  <2>2. ASSUME NEW k \in Keys, SealNext(k) PROVE VaultTypeOK'
    <3>1. job' \in Jobs
      BY <2>2 DEF SealNext, Jobs
    <3> QED
      BY <2>2, <3>1 DEF SealNext, Sealings, Jobs
  <2>3. ASSUME NEW w \in Passwords, Unlock(w) PROVE VaultTypeOK'
    BY <2>3 DEF Unlock
  <2>4. ASSUME NEW w \in Passwords, SetPassword(w) PROVE VaultTypeOK'
    BY <2>4 DEF SetPassword, Jobs, Held
  <2>5. ASSUME NEW w \in Passwords, RemovePassword(w) PROVE VaultTypeOK'
    <3>1. CASE AllOpen(w)
      <4>1. /\ job' = [busy |-> TRUE, to |-> "os", todo |-> Held,
                       flag |-> FALSE]
            /\ password' = NoPassword /\ configured' = FALSE
            /\ UNCHANGED <<sealed, first, flag, copies, interrupted,
                           overwritten>>
        BY <2>5, <3>1 DEF RemovePassword
      <4>2. Held \subseteq Keys
        BY DEF Held
      <4>3. job' \in Jobs
        BY <4>1, <4>2 DEF Jobs
      <4> QED
        BY <4>1, <4>3
    <3>2. CASE ~AllOpen(w)
      BY <2>5, <3>2 DEF RemovePassword
    <3> QED
      BY <3>1, <3>2
  <2>6. CASE Finish
    BY <2>6 DEF Finish, Jobs, NoJob
  <2>7. CASE ReadSettings
    BY <2>7 DEF ReadSettings
  <2>8. ASSUME NEW copy \in BOOLEAN, WriteSettings(copy) PROVE VaultTypeOK'
    <3>1. overwritten' \in BOOLEAN
      BY <2>8 DEF WriteSettings
    <3> QED
      BY <2>8, <3>1 DEF WriteSettings
  <2>9. ASSUME NEW torn \in {"none", "keys", "settings"}, VaultRestart(torn)
        PROVE VaultTypeOK'
    <3>1. interrupted' \in BOOLEAN
      BY <2>9 DEF VaultRestart
    <3> QED
      BY <2>9, <3>1 DEF VaultRestart, LoadFlag, Sealings, Jobs, NoJob
  <2>10. CASE UNCHANGED vaultVars
    BY <2>10 DEF vaultVars
  <2> QED
    BY <2>1, <2>2, <2>3, <2>4, <2>5, <2>6, <2>7, <2>8, <2>9, <2>10 DEF VaultNext
<1> QED
  BY <1>1, <1>2, PTL DEF VaultSpec

-----------------------------------------------------------------------------
(* The strengthening is inductive: at rest the records under a password    *)
(* are all under that of the first one and the flag tells of it, and a     *)
(* sealing takes the records from one such arrangement to the next.        *)
LEMMA VaultInvariantHolds == VaultSpec => []VaultInvariant
<1>1. VaultInit => VaultInvariant
  <2>1. VaultInit => Held = {}
    BY DEF VaultInit, Held
  <2>2. VaultInit => job.todo = {} /\ job.busy = FALSE
    BY DEF VaultInit, NoJob
  <2>3. VaultInit => AtRest
    BY <2>1 DEF VaultInit, AtRest
  <2> QED
    BY <2>1, <2>2, <2>3 DEF VaultInit, VaultInvariant
<1>2. VaultTypeOK /\ VaultInvariant /\ [VaultNext]_vaultVars => VaultInvariant'
  <2> SUFFICES ASSUME VaultTypeOK, VaultInvariant, [VaultNext]_vaultVars
               PROVE VaultInvariant'
    OBVIOUS
  <2> USE KeyVaultAssumption DEF VaultTypeOK, VaultInvariant, Undisturbed, Held
  <2>1. ASSUME NEW k \in Keys, Generate(k) PROVE VaultInvariant'
    BY <2>1 DEF Generate, AtRest, Fits, Sealings
  <2>2. ASSUME NEW k \in Keys, SealNext(k) PROVE VaultInvariant'
    <3>1. /\ job' = [job EXCEPT !.todo = job.todo \ {k}]
          /\ job'.todo = job.todo \ {k}
          /\ job'.busy = job.busy /\ job'.to = job.to /\ job'.flag = job.flag
      BY <2>2 DEF SealNext, Jobs
    <3> QED
      BY <2>2, <3>1 DEF SealNext, Sealing, Sealings, Jobs
  <2>3. ASSUME NEW w \in Passwords, Unlock(w) PROVE VaultInvariant'
    BY <2>3 DEF Unlock, AtRest, Fits
  <2>4. ASSUME NEW w \in Passwords, SetPassword(w) PROVE VaultInvariant'
    BY <2>4 DEF SetPassword, AtRest, Sealing
  <2>5. ASSUME NEW w \in Passwords, RemovePassword(w) PROVE VaultInvariant'
    <3>1. CASE AllOpen(w)
      <4>1. /\ job'.busy = TRUE /\ job'.to = "os" /\ job'.flag = FALSE
            /\ job'.todo = Held
            /\ password' = NoPassword /\ configured' = FALSE
            /\ UNCHANGED <<sealed, first, interrupted, overwritten>>
        BY <2>5, <3>1 DEF RemovePassword
      <4>2. Held' = Held
        BY <4>1
      <4>3. Sealing'
        BY <3>1, <4>1, <4>2 DEF Sealing
      <4> QED
        BY <4>1, <4>2, <4>3
    <3>2. CASE ~AllOpen(w)
      <4>1. /\ password' = w /\ ~job.busy
            /\ configured
            /\ UNCHANGED <<sealed, first, configured, flag, job,
                           interrupted, overwritten>>
        BY <2>5, <3>2 DEF RemovePassword
      <4>2. Held' = Held /\ Fits(w) /\ (Fits(w))'
        BY <2>5, <4>1 DEF RemovePassword, Fits
      <4>3. AtRest => AtRest'
        BY <4>1, <4>2 DEF AtRest, Fits
      <4> QED
        BY <4>1, <4>2, <4>3
    <3> QED
      BY <3>1, <3>2
  <2>6. CASE Finish
    BY <2>6 DEF Finish, AtRest, Sealing, Fits, NoJob, Jobs
  <2>7. CASE ReadSettings
    BY <2>7 DEF ReadSettings, AtRest, Fits
  <2>8. ASSUME NEW copy \in BOOLEAN, WriteSettings(copy)
        PROVE VaultInvariant'
    BY <2>8 DEF WriteSettings, AtRest, Fits
  <2>9. ASSUME NEW torn \in {"none", "keys", "settings"}, VaultRestart(torn)
        PROVE VaultInvariant'
    <3>1. /\ job'.busy = FALSE /\ job'.todo = {}
          /\ password' = NoPassword /\ flag' = configured'
      BY <2>9 DEF VaultRestart, NoJob
    <3>2. first' = NoKey => Held' = {}
      BY <2>9 DEF VaultRestart
    <3>3. first' # NoKey => first' \in Held'
      BY <2>9 DEF VaultRestart
    <3>4. Undisturbed' => /\ Undisturbed /\ ~job.busy
                          /\ UNCHANGED <<sealed, first, flag>>
      BY <2>9 DEF VaultRestart, LoadFlag
    <3>5. Undisturbed' => AtRest'
      BY <3>1, <3>4 DEF AtRest, Fits
    <3> QED
      BY <3>1, <3>2, <3>3, <3>5
  <2>10. CASE UNCHANGED vaultVars
    BY <2>10 DEF vaultVars, AtRest, Sealing, Fits
  <2> HIDE DEF VaultTypeOK, VaultInvariant, Undisturbed, Held
  <2> QED
    BY <2>1, <2>2, <2>3, <2>4, <2>5, <2>6, <2>7, <2>8, <2>9, <2>10 DEF VaultNext
<1> QED
  BY <1>1, <1>2, VaultTypes, PTL DEF VaultSpec

-----------------------------------------------------------------------------
(* An unlocked store opens every key in it: the records under a password   *)
(* share the first one's, which is the one in memory.                      *)
THEOREM UnlockedOpens == VaultSpec => []UnlockedOpensAll
<1>1. VaultTypeOK /\ VaultInvariant => UnlockedOpensAll
  BY KeyVaultAssumption
     DEF VaultTypeOK, VaultInvariant, AtRest, UnlockedOpensAll, Opens, Held, Fits
<1> QED
  BY <1>1, VaultTypes, VaultInvariantHolds, PTL

(* Every key opens with the password in memory or with its own, which      *)
(* unlock takes because the first record is under it as well.              *)
THEOREM KeysUsable == VaultSpec => []KeysStayUsable
<1>1. VaultTypeOK /\ VaultInvariant => KeysStayUsable
  BY KeyVaultAssumption
     DEF VaultTypeOK, VaultInvariant, AtRest, KeysStayUsable, Usable, Opens, Held,
         Fits
<1> QED
  BY <1>1, VaultTypes, VaultInvariantHolds, PTL

-----------------------------------------------------------------------------
(* The upload queue.                                                       *)

QueueInv == TypeOK /\ KeptInvariant

(* What a flush does from one await to the next keeps the invariant, when  *)
(* its call state c accounts for the queue and no other flush runs.        *)
LEMMA AdvanceKeeps ==
  ASSUME TypeOK, NEW f \in Flushes, NEW c \in Calls, NEW saved \in BOOLEAN,
         Advance(f, c, saved),
         c.running,
         UNCHANGED <<fresh, left, queued>>,
         delivered' \subseteq Entries,
         overlapped' \in BOOLEAN,
         faults' \in Nat,
         \A g \in Flushes \ {f} : flush[g].running => sending[g] \in Entries,
         ~overlapped' /\ ~unsaved =>
           /\ file = pending
           /\ queued \subseteq delivered' \cup pending
           /\ c.live
           /\ pending \subseteq c.todo \cup c.kept \cup delivered'
           /\ \A g \in Flushes \ {f} : ~flush[g].running
  PROVE  QueueInv'
<1> SUFFICES TypeOK' /\ KeptInvariant'
  BY DEF QueueInv
<1> DEFINE scope == {e \in c.todo : InScope(e, c.endpoint, c.ca)}
<1>0. /\ c.todo \subseteq Entries
      /\ c.kept \subseteq Entries
      /\ f \in Actors
      /\ Flushes \subseteq Actors
  BY DEF Calls, Actors
<1>1. CASE /\ scope = {}
           /\ pending' = c.kept \cup c.todo
           /\ SaveQueue(pending', saved)
           /\ flush' = [g \in Flushes |-> IF g = f THEN Ended
                                    ELSE [flush[g] EXCEPT !.live = FALSE]]
           /\ sending' = [sending EXCEPT ![f] = NoEntry]
  <2>1. Ended \in Calls
    BY DEF Ended, Calls
  <2>2. \A g \in Flushes : [flush[g] EXCEPT !.live = FALSE] \in Calls
    BY DEF TypeOK, Calls
  <2>3. TypeOK'
    BY <1>0, <1>1, <2>1, <2>2 DEF TypeOK, SaveQueue
  <2>4. \A g \in Flushes : flush'[g].running => g # f /\ flush[g].running
    BY <1>1 DEF Ended, TypeOK, Calls
  <2>5. \A g \in Flushes \ {f} : sending'[g] = sending[g]
    BY <1>0, <1>1 DEF TypeOK
  <2>6. ~unsaved' => saved /\ ~unsaved /\ file' = pending'
    BY <1>1 DEF SaveQueue, TypeOK
  <2>7. KeptInvariant'
    BY <1>1, <2>4, <2>5, <2>6 DEF KeptInvariant
  <2>. QED BY <2>3, <2>7
<1>2. CASE /\ saved
           /\ \E e \in scope :
                /\ flush' = [flush EXCEPT ![f] = [c EXCEPT !.todo = @ \ {e}]]
                /\ sending' = [sending EXCEPT ![f] = e]
           /\ UNCHANGED <<pending, file, unsaved>>
  <2>1. PICK e \in scope :
          /\ flush' = [flush EXCEPT ![f] = [c EXCEPT !.todo = @ \ {e}]]
          /\ sending' = [sending EXCEPT ![f] = e]
    BY <1>2
  <2>2. e \in Entries /\ e \in c.todo
    BY <1>0
  <2> DEFINE d == [c EXCEPT !.todo = @ \ {e}]
  <2>3. /\ d \in Calls
        /\ d.running = c.running /\ d.live = c.live
        /\ d.kept = c.kept /\ d.todo = c.todo \ {e}
    BY DEF Calls
  <2>4. /\ flush'[f] = d /\ sending'[f] = e
        /\ \A g \in Flushes \ {f} :
             flush'[g] = flush[g] /\ sending'[g] = sending[g]
    BY <1>0, <2>1 DEF TypeOK
  <2>5. TypeOK'
    BY <1>0, <1>2, <2>1, <2>2, <2>3 DEF TypeOK
  <2> HIDE DEF d
  <2>6. \A g \in Flushes : flush'[g].running => sending'[g] \in Entries
    BY <2>2, <2>4
  <2>7. ASSUME ~overlapped', ~unsaved'
        PROVE  /\ file' = pending'
               /\ queued' \subseteq delivered' \cup pending'
               /\ \A g \in Flushes : flush'[g].running => g = f
               /\ Accounted(f)'
    <3>1. /\ ~unsaved /\ UNCHANGED <<pending, file, queued>>
      BY <1>2, <2>7
    <3>2. Accounted(f)'
      BY <2>2, <2>3, <2>4, <2>7, <3>1 DEF Accounted
    <3>. QED BY <2>4, <2>7, <3>1, <3>2
  <2>8. KeptInvariant'
    BY <2>6, <2>7 DEF KeptInvariant
  <2>. QED BY <2>5, <2>8
<1>. QED BY <1>1, <1>2 DEF Advance

(* An answer changes only what the servers hold.                           *)
LEMMA UploadFacts ==
  ASSUME TypeOK, NEW e \in Entries, NEW outcome \in Outcomes, Upload(e, outcome)
  PROVE  /\ delivered' \subseteq Entries
         /\ delivered \subseteq delivered'
         /\ outcome = "ok" => e \in delivered'
BY DEF TypeOK, Upload

LEMMA CountFacts ==
  ASSUME TypeOK, NEW b, Count(b)
  PROVE  faults' \in Nat
BY DEF TypeOK, Count

-----------------------------------------------------------------------------
LEMMA TryNextType ==
  ASSUME TypeOK, NEW o \in Submissions, NEW es \in SUBSET Entries,
         TryNext(o, es)
  PROVE  /\ left' \in [Submissions -> SUBSET Entries]
         /\ sending' \in [Actors -> Entries \cup {NoEntry}]
         /\ \A f \in Flushes : sending'[f] = sending[f]
<1>1. o \in Actors /\ o \notin Flushes /\ Flushes \subseteq Actors
  BY UploadQueueAssumption DEF Actors
<1>. QED BY <1>1 DEF TryNext, TypeOK

LEMMA SubmitKeeps ==
  ASSUME QueueInv, NEW o \in Submissions, Submit(o)
  PROVE  QueueInv'
<1>1. EntriesOf[o] \in SUBSET Entries
  BY UploadQueueAssumption
<1>2. TypeOK'
  BY <1>1, TryNextType DEF QueueInv, Submit, TypeOK
<1>3. \A f \in Flushes : sending'[f] = sending[f]
  BY <1>1, TryNextType DEF QueueInv, Submit
<1>4. UNCHANGED <<pending, file, flush, delivered, queued, overlapped, unsaved>>
  BY DEF Submit
<1>5. \A f \in Flushes : Accounted(f) => Accounted(f)'
  BY <1>3, <1>4 DEF Accounted
<1>6. KeptInvariant'
  BY <1>3, <1>4, <1>5 DEF QueueInv, KeptInvariant
<1>. QED BY <1>2, <1>6 DEF QueueInv

LEMMA SubmitAnswerKeeps ==
  ASSUME QueueInv, NEW o \in Submissions, NEW outcome \in Outcomes,
         NEW saved \in BOOLEAN, SubmitAnswer(o, outcome, saved)
  PROVE  QueueInv'
<1> DEFINE e == sending[o]
<1>1. e \in Entries /\ left[o] \in SUBSET Entries
  BY DEF QueueInv, TypeOK, SubmitAnswer, Actors
<1> HIDE DEF e
<1>2. /\ Upload(e, outcome) /\ TryNext(o, left[o])
      /\ Count(Faulty(e, outcome, saved))
      /\ UNCHANGED <<fresh, overlapped>>
  BY DEF SubmitAnswer, e
<1>3. /\ delivered' \subseteq Entries
      /\ delivered \subseteq delivered'
      /\ faults' \in Nat
  BY <1>1, <1>2, UploadFacts, CountFacts DEF QueueInv
<1>4. /\ left' \in [Submissions -> SUBSET Entries]
      /\ sending' \in [Actors -> Entries \cup {NoEntry}]
      /\ \A f \in Flushes : sending'[f] = sending[f]
  BY <1>1, <1>2, TryNextType DEF QueueInv
<1>5. CASE outcome = "ok"
  <2>1. UNCHANGED <<pending, file, queued, flush, unsaved>>
    BY <1>5 DEF SubmitAnswer
  <2>2. TypeOK'
    BY <1>2, <1>3, <1>4, <2>1 DEF QueueInv, TypeOK
  <2>3. \A f \in Flushes : Accounted(f) => Accounted(f)'
    BY <1>3, <1>4, <2>1 DEF Accounted
  <2>4. KeptInvariant'
    BY <1>2, <1>3, <1>4, <2>1, <2>3 DEF QueueInv, KeptInvariant
  <2>. QED BY <2>2, <2>4 DEF QueueInv
<1>6. CASE outcome # "ok"
  <2>1. Enqueue(e, saved)
    BY <1>6 DEF SubmitAnswer, e
  <2>2. \A f \in Flushes :
          /\ flush'[f] \in Calls
          /\ flush'[f].running = flush[f].running
          /\ flush'[f].live = flush[f].live
          /\ flush'[f].kept = flush[f].kept
          /\ flush[f].live => flush'[f].todo = flush[f].todo \cup {e}
    BY <1>1, <2>1 DEF Enqueue, QueueInv, TypeOK, Calls
  <2>3. flush' \in [Flushes -> Calls]
    BY <2>1, <2>2 DEF Enqueue
  <2>4. /\ pending' = pending \cup {e}
        /\ queued' = queued \cup {e}
        /\ ~unsaved' => ~unsaved /\ file' = pending'
    BY <2>1 DEF Enqueue, SaveQueue
  <2>5. /\ file' \subseteq Entries
        /\ unsaved' \in BOOLEAN
    BY <1>1, <2>1, <2>4 DEF Enqueue, SaveQueue, QueueInv, TypeOK
  <2>6. TypeOK'
    BY <1>1, <1>2, <1>3, <1>4, <2>3, <2>4, <2>5 DEF QueueInv, TypeOK
  <2>7. \A f \in Flushes : Accounted(f) => Accounted(f)'
    BY <1>3, <1>4, <2>2, <2>4 DEF Accounted
  <2>8. KeptInvariant'
    BY <1>2, <1>3, <1>4, <2>2, <2>4, <2>7 DEF QueueInv, KeptInvariant
  <2>. QED BY <2>6, <2>8 DEF QueueInv
<1>. QED BY <1>5, <1>6

-----------------------------------------------------------------------------
LEMMA StartFlushKeeps ==
  ASSUME QueueInv, NEW f \in Flushes, NEW endpoint \in Endpoints \cup {Every},
         NEW ca \in Cas \cup {Every}, NEW saved \in BOOLEAN,
         StartFlush(f, endpoint, ca, saved)
  PROVE  QueueInv'
<1> DEFINE c == [running |-> TRUE, endpoint |-> endpoint, ca |-> ca,
                 todo |-> pending, kept |-> {}, live |-> TRUE]
<1>1. /\ c \in Calls
      /\ c.running /\ c.live /\ c.todo = pending
  BY DEF Calls, QueueInv, TypeOK
<1>2. Advance(f, c, saved) /\ ~flush[f].running
  BY DEF StartFlush
<1>3. faults' \in Nat
  BY CountFacts DEF StartFlush, QueueInv
<1>4. /\ overlapped' \in BOOLEAN
      /\ ~overlapped' => ~overlapped /\ \A g \in Flushes : ~flush[g].running
      /\ UNCHANGED <<fresh, left, delivered, queued>>
  BY DEF StartFlush, QueueInv, TypeOK
<1> HIDE DEF c
<1>5. TypeOK /\ KeptInvariant /\ delivered' \subseteq Entries
  BY <1>4 DEF QueueInv, TypeOK
<1>6. ~overlapped' /\ ~unsaved =>
        /\ file = pending
        /\ queued \subseteq delivered' \cup pending
        /\ c.live
        /\ pending \subseteq c.todo \cup c.kept \cup delivered'
        /\ \A g \in Flushes \ {f} : ~flush[g].running
  BY <1>1, <1>4, <1>5 DEF KeptInvariant
<1>7. \A g \in Flushes \ {f} : flush[g].running => sending[g] \in Entries
  BY <1>5 DEF KeptInvariant
<1>. QED BY <1>1, <1>2, <1>3, <1>4, <1>5, <1>6, <1>7, AdvanceKeeps

LEMMA FlushAnswerKeeps ==
  ASSUME QueueInv, NEW f \in Flushes, NEW outcome \in Outcomes,
         NEW saved \in BOOLEAN, FlushAnswer(f, outcome, saved)
  PROVE  QueueInv'
<1> DEFINE e == sending[f]
           c == IF outcome = "ok" THEN flush[f]
                ELSE [flush[f] EXCEPT !.kept = @ \cup {e}]
<1>1. TypeOK /\ KeptInvariant
  BY DEF QueueInv
<1>2. /\ flush[f].running /\ Upload(e, outcome) /\ Advance(f, c, saved)
      /\ Count(Faulty(e, outcome, saved))
      /\ UNCHANGED <<fresh, left, queued, overlapped>>
  BY DEF FlushAnswer
<1>3. e \in Entries
  BY <1>1, <1>2 DEF KeptInvariant
<1>4. /\ c \in Calls
      /\ c.running = flush[f].running
      /\ c.live = flush[f].live
      /\ c.todo = flush[f].todo
      /\ c.kept = IF outcome = "ok" THEN flush[f].kept
                  ELSE flush[f].kept \cup {e}
  BY <1>1, <1>3 DEF TypeOK, Calls
<1>5. /\ delivered' \subseteq Entries
      /\ delivered \subseteq delivered'
      /\ outcome = "ok" => e \in delivered'
      /\ faults' \in Nat
      /\ overlapped' \in BOOLEAN
  BY <1>1, <1>2, <1>3, UploadFacts, CountFacts DEF TypeOK
<1>6. ~overlapped' /\ ~unsaved =>
        /\ file = pending
        /\ queued \subseteq delivered \cup pending
        /\ \A g \in Flushes \ {f} : ~flush[g].running
        /\ flush[f].live
        /\ pending \subseteq flush[f].todo \cup flush[f].kept \cup {e}
                             \cup delivered
  BY <1>1, <1>2 DEF KeptInvariant, Accounted
<1> HIDE DEF c, e
<1>7. ~overlapped' /\ ~unsaved =>
        /\ file = pending
        /\ queued \subseteq delivered' \cup pending
        /\ c.live
        /\ pending \subseteq c.todo \cup c.kept \cup delivered'
        /\ \A g \in Flushes \ {f} : ~flush[g].running
  BY <1>4, <1>5, <1>6
<1>8. \A g \in Flushes \ {f} : flush[g].running => sending[g] \in Entries
  BY <1>1 DEF KeptInvariant
<1>. QED BY <1>1, <1>2, <1>4, <1>5, <1>7, <1>8, AdvanceKeeps

LEMMA RestartKeeps ==
  ASSUME QueueInv, NEW torn \in BOOLEAN, Restart(torn)
  PROVE  QueueInv'
<1>1. Ended \in Calls /\ ~Ended.running
  BY DEF Ended, Calls
<1>2. TypeOK'
  BY <1>1, CountFacts DEF Restart, LoadQueue, QueueInv, TypeOK
<1>3. \A f \in Flushes : ~flush'[f].running
  BY <1>1 DEF Restart
<1>4. ~unsaved' => ~unsaved /\ pending' = file /\ file' = file
  BY DEF Restart, LoadQueue
<1>5. UNCHANGED <<delivered, queued, overlapped>>
  BY DEF Restart
<1>6. KeptInvariant'
  BY <1>3, <1>4, <1>5 DEF QueueInv, KeptInvariant
<1>. QED BY <1>2, <1>6 DEF QueueInv

-----------------------------------------------------------------------------
LEMMA QueueInvariant == Spec => []QueueInv
<1>1. Init => QueueInv
  <2> SUFFICES ASSUME Init PROVE QueueInv
    OBVIOUS
  <2>1. Ended \in Calls /\ ~Ended.running
    BY DEF Ended, Calls
  <2>2. TypeOK
    BY <2>1 DEF Init, TypeOK
  <2>3. \A f \in Flushes : ~flush[f].running
    BY <2>1 DEF Init
  <2>4. KeptInvariant
    BY <2>3 DEF Init, KeptInvariant
  <2>. QED BY <2>2, <2>4 DEF QueueInv
<1>2. QueueInv /\ [Next]_vars => QueueInv'
  <2> SUFFICES ASSUME QueueInv, [Next]_vars PROVE QueueInv'
    OBVIOUS
  <2>1. CASE \E o \in Submissions : Submit(o)
    BY <2>1, SubmitKeeps
  <2>2. CASE \E a \in Actors : Answer(a)
    BY <2>2, SubmitAnswerKeeps, FlushAnswerKeeps DEF Answer
  <2>3. CASE TimerFlush
    BY <2>3, StartFlushKeeps DEF TimerFlush, Flushes
  <2>4. CASE \E f \in UserFlushes : UserFlush(f)
    BY <2>4, StartFlushKeeps DEF UserFlush, Flushes
  <2>5. CASE \E torn \in BOOLEAN : Restart(torn)
    BY <2>5, RestartKeeps
  <2>6. CASE UNCHANGED vars
    BY <2>6 DEF vars, QueueInv, TypeOK, KeptInvariant, Accounted
  <2>. QED BY <2>1, <2>2, <2>3, <2>4, <2>5, <2>6 DEF Next
<1>. QED BY <1>1, <1>2, PTL DEF Spec

(* The queue and the calls that work on it stay well typed.                *)
THEOREM QueueTypes == Spec => []TypeOK
<1>1. QueueInv => TypeOK
  BY DEF QueueInv
<1>. QED BY <1>1, QueueInvariant, PTL

(* For any number of submissions, endpoints and user flushes: unless two   *)
(* flushes overlapped or a write of the queue failed, what enqueue took    *)
(* over is on its server or in the queue.                                  *)
THEOREM QueuedKept == Spec => []QueuedIsKept
<1>1. QueueInv => QueuedIsKept
  BY DEF QueueInv, KeptInvariant, QueuedIsKept
<1>. QED BY <1>1, QueueInvariant, PTL
=============================================================================
