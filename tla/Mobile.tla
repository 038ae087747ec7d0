------------------------------- MODULE Mobile -------------------------------
(***************************************************************************)
(* The mobile app (qrs-mobile-app/lib): its stores, the calls that change  *)
(* them and a verification, on one device.  Every list lives under a key   *)
(* of AsyncStorage, and every change of a list is an awaited read followed *)
(* by an awaited write of the whole list (stores.ts): calls interleave     *)
(* between the two, and the app may be stopped at any await.               *)
(*                                                                         *)
(* Deleting a certificate edits eleven lists one after the other, and      *)
(* verifySdoc reads eight, most of them more than once, one at a time.     *)
(* Left out are reads that can only refuse what is accepted here: the      *)
(* attestations tried by the core.  Bodies and signatures are abstracted:  *)
(* one body a TCert, every statement genuine, every revocation             *)
(* retrospective.                                                          *)
(***************************************************************************)
EXTENDS Naturals, Sequences, FiniteSets

CONSTANTS
  Tcerts, SigningKeys, Docs,
  KeyOf,       \* [Tcerts -> SigningKeys]
  IssuerOf,    \* [Docs -> Tcerts]
  Offers,      \* sets of objects that a scan, a file or a server offers
  Stored,      \* what may be stored when the app starts: [lists, policy]
  NoTcert,
  MaxCalls     \* bound: calls and starts of the app in a behaviour

VARIABLES
  disk,     \* AsyncStorage: [Lists -> set of entries]
  call,     \* [Callers -> the call in progress]
  check,    \* the verification in progress, or the last one
  policy,   \* settings: one trusted CA suffices, or all must agree
  calls,    \* calls so far (bound only)
  allowed,  \* history: see Begin
  seen      \* history: see StartCheck

vars == <<disk, call, check, policy, calls, allowed, seen>>

-----------------------------------------------------------------------------
(* The lists.  An entry is a TCert, or what a statement is of and the      *)
(* TCert it is attributed to.                                              *)

TcertLists == {"pinned", "cas", "distrusted", "archived-tcerts",
               "certificates"}
OnePerTarget == {"revoked-keys", "blocked-sdocs"}
StatementLists == OnePerTarget \cup
  {"attestations", "revoked-tcerts", "revoked-attestations", "sdoc-statements"}
Lists == TcertLists \cup StatementLists

Entries == Tcerts \cup
           [of: Tcerts \cup SigningKeys \cup Docs, by: Tcerts]

EntriesOf(list) ==
  CASE list \in TcertLists -> Tcerts
    [] list \in {"attestations", "revoked-tcerts", "revoked-attestations"} ->
         [of: Tcerts, by: Tcerts]
    [] list = "revoked-keys" -> [of: SigningKeys, by: Tcerts]
    [] OTHER -> [of: Docs, by: Tcerts]

Disks == [Lists -> SUBSET Entries]

\* Each list holds what it is for, and some of them one entry a target.
WellKept(D) ==
  /\ \A list \in Lists : D[list] \subseteq EntriesOf(list)
  /\ \A list \in OnePerTarget : \A x, y \in D[list] : x.of = y.of => x = y

\* TCerts and statements, as they are imported.
Objects ==
  [action: {"tcert", "attest", "revokeTcert", "revokeAttestation"},
   signer: SigningKeys, of: Tcerts]
    \cup [action: {"revokeKey"}, signer: SigningKeys, of: SigningKeys]
    \cup [action: {"blockSdoc", "unblockSdoc"}, signer: SigningKeys, of: Docs]

ASSUME MobileAssumption ==
  /\ KeyOf \in [Tcerts -> SigningKeys]
  /\ IssuerOf \in [Docs -> Tcerts]
  /\ \A offer \in Offers : offer \subseteq Objects /\ IsFiniteSet(offer)
  /\ \A stored \in Stored :
       /\ stored.lists \in Disks /\ WellKept(stored.lists)
       /\ stored.policy \in {"any", "all"}
  /\ NoTcert \notin Tcerts
  /\ MaxCalls \in Nat

\* Mutant: one entry a target is not kept to.
PutBeside(list, value, e) == value \cup {e}

Put(list, value, e) ==
  IF list \in OnePerTarget THEN {x \in value : x.of # e.of} \cup {e}
  ELSE value \cup {e}

Drop(list, value, e) ==
  IF list \in OnePerTarget THEN {x \in value : x.of # e.of}
  ELSE value \ {e}

Targets(value) == {a.of : a \in value}

\* The TCerts only the removed one vouched for.
Orphans(ca, attestations, pinned) ==
  Targets({a \in attestations : a.by = ca})
    \ (pinned \cup Targets({a \in attestations : a.by # ca}))

\* What stays of a list when t is removed, and its orphans with it.
Swept(list, value, t, removed) ==
  CASE list \in TcertLists -> value \ removed
    [] list \in {"attestations", "revoked-tcerts", "revoked-attestations"} ->
         {x \in value : x.of \notin removed /\ x.by # t}
    [] OTHER -> {x \in value : x.by # t}

\* Mutant: the statements of the removed TCert go before its trust.
SweepOrderStatementsFirst ==
  <<"revoked-tcerts", "revoked-keys", "revoked-attestations",
    "blocked-sdocs", "sdoc-statements", "attestations", "pinned", "cas",
    "distrusted", "archived-tcerts", "certificates">>

SweepOrder ==
  <<"attestations", "pinned", "cas", "distrusted", "archived-tcerts",
    "certificates", "revoked-tcerts", "revoked-keys", "revoked-attestations",
    "blocked-sdocs", "sdoc-statements">>

-----------------------------------------------------------------------------
(* What the app accepts (verifySdoc).                                      *)

\* Does the core's check fail on this list, for the document?
Refuses(list, value, d) ==
  LET t == IssuerOf[d]
  IN CASE list = "certificates" -> t \notin value
       [] list = "distrusted" -> t \in value
       [] list = "revoked-keys" -> \E x \in value : x.of = KeyOf[t]
       [] list = "revoked-tcerts" -> \E x \in value : x.of = t
       [] list = "blocked-sdocs" -> \E x \in value : x.of = d

CoreReads == <<"certificates", "distrusted", "revoked-keys",
               "revoked-tcerts", "blocked-sdocs">>

(* The view of one CA: is it trusted, and what silences it?  Each read is  *)
(* of a list, for the CA or for the TCert it attested.                     *)

ViewReads == <<"pinned", "cas", "distrusted", "revoked-keys",
               "revoked-attestations", "revoked-tcerts-of-target">>

\* Mutant: an attestation is validated for a CA that was trusted.
AttestationReadsTrusting ==
  <<"certificates", "distrusted", "revoked-tcerts", "revoked-keys",
    "certificates-of-target">>

\* isValidAttestation looks the CA up again (isTrustedCa).
AttestationReads == <<"certificates", "distrusted", "revoked-tcerts",
                      "pinned", "cas", "revoked-keys",
                      "certificates-of-target">>

CaReads == ViewReads \o AttestationReads

ListOf(read) ==
  CASE read = "revoked-tcerts-of-target" -> "revoked-tcerts"
    [] read = "certificates-of-target" -> "certificates"
    [] OTHER -> read

Silences(read, value, t, ca) ==
  CASE read = "distrusted" -> ca \in value
    [] read = "revoked-keys" -> \E x \in value : x.of = KeyOf[ca]
    [] read = "revoked-attestations" -> [of |-> t, by |-> ca] \in value
    [] read = "revoked-tcerts-of-target" ->
         \E x \in value : x.of = t /\ KeyOf[x.by] = KeyOf[ca]
    [] read = "certificates" -> ca \notin value
    [] read = "revoked-tcerts" -> \E x \in value : x.of = ca
    [] read = "certificates-of-target" -> t \notin value
    [] OTHER -> FALSE

\* The CAs that still speak for t after one more read: a CA is pinned (and
\* then in `trusted' when the CAs are read) or configured, and not silenced.
Heard(read, value, t, speaking, trusted) ==
  CASE read = "pinned" -> speaking
    [] read = "cas" -> speaking \cap (trusted \cup value)
    [] OTHER -> {ca \in speaking : ~Silences(read, value, t, ca)}

\* Those that speak for t when every read meets the same state.
HeardIn(D, t, attesting) ==
  {ca \in attesting \cap (D["pinned"] \cup D["cas"]) :
     \A i \in DOMAIN CaReads :
       ~Silences(CaReads[i], D[ListOf(CaReads[i])], t, ca)}

\* The policy over the views of every CA that attested the TCert, trusted
\* here or not.
IssuerVerified(rule, attesting, speaking) ==
  IF rule = "all" THEN attesting # {} /\ speaking = attesting
  ELSE speaking # {}

Attesting(D, t) == {x.by : x \in {a \in D["attestations"] : a.of = t}}

\* Would a verification that meets only this state say valid?
Acceptable(rule, D, d) ==
  LET t == IssuerOf[d]
  IN /\ \A list \in {CoreReads[i] : i \in DOMAIN CoreReads} :
          ~Refuses(list, D[list], d)
     /\ \/ t \in D["pinned"]
        \/ IssuerVerified(rule, Attesting(D, t), HeardIn(D, t, Attesting(D, t)))

AcceptableDocs(rule, D) == {d \in Docs : Acceptable(rule, D, d)}

-----------------------------------------------------------------------------
(* Calls.  A call is the edits it has still to make; read holds the lists  *)
(* it has fetched and not yet written; a removal also keeps the TCert and  *)
(* what goes with it, an import the objects it has still to look at.       *)

Callers == {"user", "import"}

Edit(op, list, e) == [op |-> op, list |-> list, entry |-> e]

Nothing == [list \in Lists |-> {}]
Idle == [todo |-> <<>>, fetched |-> {}, read |-> Nothing, tcert |-> NoTcert,
         removed |-> {}, objects |-> {}]

Unstarted(d) == [at |-> "idle", doc |-> d, next |-> 1, pinned |-> FALSE,
                 attesting |-> {}, speaking |-> {}, trusted |-> {},
                 verdict |-> "none"]

Unseen == [acceptable |-> FALSE, beside |-> 0]

Checking == check.at \notin {"idle", "done"}

\* What runs beside a verification is counted no further.
AtMostTwo(n) == IF n > 2 THEN 2 ELSE n

Active(c) == call[c].todo # <<>> \/ call[c].objects # {}

SweptDisk(D, t) ==
  LET removed == {t} \cup Orphans(t, D["attestations"], D["pinned"])
  IN [list \in Lists |-> Swept(list, D[list], t, removed)]

\* A call starts.  allowed keeps what was acceptable before a removal and
\* what will be after it, as long as no other call takes part.
Begin(c, new) ==
  /\ ~Active(c)
  /\ calls < MaxCalls
  /\ calls' = calls + 1
  /\ call' = [call EXCEPT ![c] = new]
  /\ allowed' = IF new.tcert = NoTcert \/ \E o \in Callers : Active(o)
                THEN Docs
                ELSE AcceptableDocs(policy, disk)
                       \cup AcceptableDocs(policy, SweptDisk(disk, new.tcert))
  /\ seen' = [seen EXCEPT !.beside =
                IF ~Checking THEN @
                ELSE AtMostTwo(@ + (IF new.objects = {} THEN 1
                                    ELSE Cardinality(new.objects)))]
  /\ UNCHANGED <<disk, check, policy>>

\* Pinning and adding a CA ask for a certificate that is held.
PutTcert(list, t) ==
  /\ list \in {"pinned", "cas"} => t \in disk["certificates"]
  /\ Begin("user", [Idle EXCEPT !.todo = <<Edit("put", list, t)>>])

DropTcert(list, t) ==
  Begin("user", [Idle EXCEPT !.todo = <<Edit("drop", list, t)>>])

\* The attestations and pins are read at the start and written from there;
\* every other list is read when its turn comes.
CascadeOrder == <<"attestations", "pinned">> \o SweepOrder

Cascade(t) == [i \in DOMAIN CascadeOrder |->
                 Edit(IF i <= 2 THEN "load" ELSE "sweep", CascadeOrder[i], t)]

RemoveTcertCascade(t) ==
  Begin("user", [Idle EXCEPT !.tcert = t, !.todo = Cascade(t)])

Import(offer) == Begin("import", [Idle EXCEPT !.objects = offer])

\* The TCert a statement is attributed to: a configured CA if there is one.
SignerTcerts(k) ==
  LET held == {t \in disk["certificates"] : KeyOf[t] = k}
  IN IF held \cap disk["cas"] # {} THEN held \cap disk["cas"] ELSE held

EditsFor(o, by) ==
  LET e == [of |-> o.of, by |-> by]
  IN CASE o.action = "attest" -> <<Edit("put", "attestations", e)>>
       [] o.action = "revokeTcert" -> <<Edit("put", "revoked-tcerts", e)>>
       [] o.action = "revokeKey" -> <<Edit("put", "revoked-keys", e)>>
       [] o.action = "revokeAttestation" ->
            IF by \in Attesting(disk, o.of)
            THEN <<Edit("put", "revoked-attestations", e)>> ELSE <<>>
       [] o.action = "blockSdoc" -> <<Edit("put", "blocked-sdocs", e),
                                      Edit("put", "sdoc-statements", e)>>
       [] o.action = "unblockSdoc" -> <<Edit("drop", "blocked-sdocs", e),
                                        Edit("put", "sdoc-statements", e)>>

\* The next object of a bundle or a sync: TCerts come before statements, and
\* a statement without a local signer is skipped.
TakeObject(o) ==
  /\ call["import"].todo = <<>>
  /\ o \in call["import"].objects
  /\ o.action # "tcert" =>
       \A p \in call["import"].objects : p.action # "tcert"
  /\ \E edits \in
        IF o.action = "tcert" THEN {<<Edit("put", "certificates", o.of)>>}
        ELSE IF SignerTcerts(o.signer) = {} THEN {<<>>}
        ELSE {EditsFor(o, by) : by \in SignerTcerts(o.signer)} :
       call' = [call EXCEPT !["import"].objects = @ \ {o},
                            !["import"].todo = edits]
  /\ UNCHANGED <<disk, check, policy, calls, allowed, seen>>

Current(c) == Head(call[c].todo)

AfterRead(r, value) ==
  LET e == Head(r.todo)
      read == [r.read EXCEPT ![e.list] = value]
  IN [r EXCEPT !.read = read,
               !.fetched = @ \cup {e.list},
               !.todo = IF e.op = "load" THEN Tail(@) ELSE @,
               !.removed = IF e.op = "load" /\ e.list = "pinned"
                           THEN {r.tcert} \cup Orphans(r.tcert,
                                  read["attestations"], read["pinned"])
                           ELSE @]

Read(c) ==
  /\ call[c].todo # <<>>
  /\ Current(c).list \notin call[c].fetched \/ Current(c).op = "load"
  /\ call' = [call EXCEPT ![c] = AfterRead(@, disk[Current(c).list])]
  /\ UNCHANGED <<disk, check, policy, calls, allowed, seen>>

\* What becomes of a list: addPinned, addCa and addDistrust write nothing
\* when the TCert is listed.
Written(e, r, here) ==
  LET value == r.read[e.list]
  IN CASE e.op = "put" -> IF e.list \in {"pinned", "cas", "distrusted"}
                               /\ e.entry \in value
                          THEN here ELSE Put(e.list, value, e.entry)
       [] e.op = "drop" -> Drop(e.list, value, e.entry)
       [] e.op = "sweep" -> Swept(e.list, value, r.tcert, r.removed)

AfterWrite(r) ==
  LET list == Head(r.todo).list
  IN IF Len(r.todo) = 1 /\ r.objects = {} THEN Idle
     ELSE [r EXCEPT !.todo = Tail(@), !.fetched = @ \ {list},
                    !.read = [@ EXCEPT ![list] = {}]]

Write(c) ==
  /\ call[c].todo # <<>>
  /\ Current(c).op # "load"
  /\ Current(c).list \in call[c].fetched
  /\ disk' = [disk EXCEPT ![Current(c).list] = Written(Current(c), call[c], @)]
  /\ call' = [call EXCEPT ![c] = AfterWrite(@)]
  /\ seen' = [seen EXCEPT !.acceptable =
                @ \/ (Checking /\ Acceptable(policy, disk', check.doc))]
  /\ UNCHANGED <<check, policy, calls, allowed>>

\* The app is stopped and started: every call ends where it is.
Stop ==
  /\ \E c \in Callers : Active(c)
  /\ calls < MaxCalls
  /\ calls' = calls + 1
  /\ call' = [c \in Callers |-> Idle]
  /\ check' = Unstarted(check.doc)
  /\ seen' = Unseen
  /\ UNCHANGED <<disk, policy, allowed>>

-----------------------------------------------------------------------------
(* A verification: the core's reads, then the pin, the attestations and    *)
(* the views of the CAs.                                                   *)

\* The call has read a list that another one has changed since.
Outdated(c) == \E list \in call[c].fetched : call[c].read[list] # disk[list]

\* seen collects what was true while it ran: was the document acceptable in
\* some state, and how many calls and imported objects ran beside it?  An
\* outdated call undoes the changes of another, and counts for two.
StartCheck(d) ==
  /\ check.at \in {"idle", "done"}
  /\ calls < MaxCalls
  /\ calls' = calls + 1
  /\ check' = [Unstarted(d) EXCEPT !.at = "core"]
  /\ seen' = [acceptable |-> Acceptable(policy, disk, d),
              beside |-> AtMostTwo(Cardinality({c \in Callers : Active(c)})
                                   + Cardinality({c \in Callers : Outdated(c)})
                                   + Cardinality(call["import"].objects))]
  /\ UNCHANGED <<disk, call, policy, allowed>>

Return(verdict) ==
  /\ check' = [Unstarted(check.doc) EXCEPT !.at = "done", !.verdict = verdict]
  /\ seen' = IF verdict = "valid" THEN seen ELSE Unseen

ReadForCore ==
  /\ check.at = "core"
  /\ LET list == CoreReads[check.next]
     IN IF Refuses(list, disk[list], check.doc)
        THEN Return(IF list = "certificates" THEN "cannotVerify"
                    ELSE "invalid")
        ELSE /\ check' = [check EXCEPT !.next = @ + 1,
                  !.at = IF check.next = Len(CoreReads)
                         THEN "distrusted" ELSE @]
             /\ UNCHANGED seen
  /\ UNCHANGED <<disk, call, policy, calls, allowed>>

\* resolveTrust reads the distrusted TCerts once more, and then the pins.
ReadDistrusted ==
  /\ check.at = "distrusted"
  /\ check' = [check EXCEPT !.at = IF IssuerOf[check.doc] \in disk["distrusted"]
                                   THEN "attestations" ELSE "pinned"]
  /\ UNCHANGED <<disk, call, policy, calls, allowed, seen>>

ReadPinned ==
  /\ check.at = "pinned"
  /\ check' = [check EXCEPT !.at = "attestations",
                            !.pinned = IssuerOf[check.doc] \in disk["pinned"]]
  /\ UNCHANGED <<disk, call, policy, calls, allowed, seen>>

ReadAttestations ==
  /\ check.at = "attestations"
  /\ LET attesting == Attesting(disk, IssuerOf[check.doc])
     IN check' = [check EXCEPT !.at = "views", !.next = 1,
                    !.attesting = attesting, !.speaking = attesting]
  /\ UNCHANGED <<disk, call, policy, calls, allowed, seen>>

\* Promise.all: the views of all CAs are at the same read.
ReadForViews ==
  /\ check.at = "views"
  /\ check.next <= Len(CaReads)
  /\ LET read == CaReads[check.next]
         value == disk[ListOf(read)]
     IN check' = [check EXCEPT !.next = @ + 1,
          !.speaking = Heard(read, value, IssuerOf[check.doc], @, check.trusted),
          !.trusted = IF read = "pinned" THEN check.speaking \cap value ELSE {}]
  /\ UNCHANGED <<disk, call, policy, calls, allowed, seen>>

ResolveVerdict ==
  /\ check.at = "views"
  /\ check.next > Len(CaReads)
  /\ Return(IF \/ check.pinned
               \/ IssuerVerified(policy, check.attesting, check.speaking)
            THEN "valid" ELSE "invalid")
  /\ UNCHANGED <<disk, call, policy, calls, allowed>>

-----------------------------------------------------------------------------
Init ==
  /\ \E stored \in Stored : disk = stored.lists /\ policy = stored.policy
  /\ call = [c \in Callers |-> Idle]
  /\ \E d \in Docs : check = Unstarted(d)
  /\ calls = 0
  /\ allowed = Docs
  /\ seen = Unseen

Next ==
  \/ \E t \in Tcerts :
       \/ \E list \in TcertLists \ {"certificates"} :
            PutTcert(list, t) \/ DropTcert(list, t)
       \/ RemoveTcertCascade(t)
  \/ \E offer \in Offers : Import(offer)
  \/ \E o \in call["import"].objects : TakeObject(o)
  \/ \E c \in Callers : Read(c) \/ Write(c)
  \/ Stop
  \/ \E d \in Docs : StartCheck(d)
  \/ ReadForCore \/ ReadDistrusted \/ ReadPinned \/ ReadAttestations
  \/ ReadForViews \/ ResolveVerdict

Spec == Init /\ [][Next]_vars

-----------------------------------------------------------------------------
Edits == [op: {"load", "put", "drop", "sweep"}, list: Lists, entry: Entries]

CallRecords ==
  [todo: Seq(Edits), fetched: SUBSET Lists, read: Disks,
   tcert: Tcerts \cup {NoTcert}, removed: SUBSET Tcerts,
   objects: SUBSET Objects]

CheckRecords ==
  [at: {"idle", "core", "distrusted", "pinned", "attestations", "views",
        "done"},
   doc: Docs, next: Nat, pinned: BOOLEAN, attesting: SUBSET Tcerts,
   speaking: SUBSET Tcerts, trusted: SUBSET Tcerts,
   verdict: {"none", "valid", "invalid", "cannotVerify"}]

TypeOK ==
  /\ disk \in Disks /\ WellKept(disk)
  /\ call \in [Callers -> CallRecords]
  /\ \A c \in Callers :
       /\ WellKept(call[c].read) /\ IsFiniteSet(call[c].objects)
       /\ \A i \in DOMAIN call[c].todo :
            call[c].todo[i].op = "put" =>
              call[c].todo[i].entry \in EntriesOf(call[c].todo[i].list)
  /\ check \in CheckRecords
  /\ policy \in {"any", "all"}
  /\ calls \in Nat
  /\ allowed \subseteq Docs
  /\ seen \in [acceptable: BOOLEAN, beside: 0..2]

(* Deleting a certificate takes trust away and lifts the revocations and   *)
(* blocks it signed.  Whatever list it has got to, and also when the app   *)
(* is stopped there, no document is acceptable that was neither acceptable *)
(* before nor is after it (removeTcertCascade), under the default policy   *)
(* and with no other call since.                                           *)
RemovalGrantsNothing ==
  policy = "any" => AcceptableDocs(policy, disk) \subseteq allowed

(* A verification that one other call runs beside, a removal included (but *)
(* not one that has read a list another call has changed since),           *)
(* reads its lists at many different moments; still, when it says valid,   *)
(* the document was acceptable at one moment while it ran (verifySdoc).    *)
ValidAtOneMoment ==
  /\ policy = "any"
  /\ check.verdict = "valid"
  /\ seen.beside <= 1
  => seen.acceptable

-----------------------------------------------------------------------------
(* What holds in every state, and helps the properties above to hold.      *)

\* A removal has the rest of its lists before it, every other call one edit
\* that a verification could notice.
InOrder(r) ==
  LET n == Len(r.todo)
  IN IF r.tcert = NoTcert
     THEN \A i \in 1..n :
            /\ r.todo[i].op \in {"put", "drop"}
            /\ i > 1 => r.todo[i].list = "sdoc-statements"
     ELSE /\ n \in 1..Len(CascadeOrder)
          /\ \A i \in 1..n :
               r.todo[i] = Cascade(r.tcert)[Len(CascadeOrder) - n + i]

CallsInOrder ==
  /\ call["user"].objects = {}
  /\ call["import"].tcert = NoTcert
  /\ \A i \in 1..Len(call["import"].todo) :
       call["import"].todo[i].list \notin {"pinned", "cas"}
  /\ \A c \in Callers : InOrder(call[c])

\* What a call has read is of a list that it has still to write.
ToWrite(r) ==
  \A list \in r.fetched : \E i \in 1..Len(r.todo) : r.todo[i].list = list

ReadToWrite == \A c \in Callers : ToWrite(call[c])

\* The call has dealt with the list.
Passed(r, list) == \A i \in DOMAIN r.todo : r.todo[i].list # list

StaysOut(D, r) ==
  r.tcert # NoTcert =>
    /\ (\A i \in DOMAIN r.todo : r.todo[i].op # "load") => r.tcert \in r.removed
    /\ \A list \in {"pinned", "cas"} :
         Passed(r, list) => D[list] \cap r.removed = {}

\* Nobody pins a removed TCert again, or makes it a CA, while it is removed.
RemovedStaysOut == StaysOut(disk, call["user"])

\* At most one call beside a verification: it has at most one object, and
\* what it has read is what the disk holds.
OneBeside ==
  Checking /\ seen.beside <= 1 =>
    /\ Active("user") => seen.beside = 1 /\ ~Active("import")
    /\ Active("import") => seen.beside = 1
    /\ \/ call["import"].objects = {}
       \/ call["import"].todo = <<>>
            /\ \E o \in Objects : call["import"].objects = {o}
    /\ \A c \in Callers : ~Outdated(c)

CheckInOrder ==
  /\ check.at = "core" => check.next \in DOMAIN CoreReads
  /\ check.at = "views" => check.next \in 1..Len(CaReads) + 1
  /\ check.verdict = "valid" => check.at = "done"
  /\ Checking /\ Acceptable(policy, disk, check.doc) => seen.acceptable

MobileInvariant ==
  /\ CallsInOrder /\ ReadToWrite /\ RemovedStaysOut /\ OneBeside
  /\ CheckInOrder
=============================================================================
