----------------------------- MODULE UploadQueue -----------------------------
(***************************************************************************)
(* The desktop's upload queue (qrs-desktop online.ts): submissions try     *)
(* every endpoint of an object and queue what fails; flushes, started by a *)
(* 30-second timer and by users, retry what is queued.  Both await the     *)
(* network in the middle, on one array, this.pending, saved to one file.   *)
(*                                                                         *)
(* An entry is one submission bound for one endpoint.  The array is a set: *)
(* the order of the retries is left open.                                  *)
(***************************************************************************)
EXTENDS Naturals, FiniteSets

CONSTANTS
  Submissions,   \* objects submitted, each once
  Entries,       \* queue entries
  EntriesOf,     \* [Submissions -> sets of entries, one an endpoint]
  Endpoints, Cas,
  EndpointOf,    \* [Entries -> Endpoints]
  CaOf,          \* [Entries -> Cas or NoCa]: the scope of a statement
  NoCa,
  Attachments,   \* entries that are attachments, not statements
  Accepted,      \* entries their server takes
  TimerFlushes,  \* flushes of the timer: it fires though one still runs
  UserFlushes,   \* the flushes users start
  Every,         \* no endpoint, or no CA, is given: nothing is filtered out
  NoEntry,
  MaxFaults      \* bound: failures of the network and the disk, and crashes

Flushes == TimerFlushes \cup UserFlushes
Actors == Submissions \cup Flushes

ASSUME UploadQueueAssumption ==
  /\ EntriesOf \in [Submissions -> SUBSET Entries]
  /\ EndpointOf \in [Entries -> Endpoints]
  /\ CaOf \in [Entries -> Cas \cup {NoCa}]
  /\ Submissions \cap Flushes = {}
  /\ NoEntry \notin Entries
  /\ MaxFaults \in Nat

VARIABLES
  pending,     \* this.pending
  file,        \* what pending-uploads.json holds
  fresh,       \* submissions not made yet
  left,        \* [Submissions -> entries still to try]
  flush,       \* [Flushes -> the local state of the call]
  sending,     \* [Actors -> the entry being uploaded, or NoEntry]
  delivered,   \* entries the servers hold
  queued,      \* entries queued so far (history)
  overlapped,  \* two flushes ran at the same time (history)
  unsaved,     \* a write of the file failed or was torn (history)
  faults       \* faults so far (bound only)

vars == <<pending, file, fresh, left, flush, sending, delivered, queued,
          overlapped, unsaved, faults>>

\* What is still to be visited, what goes back in the queue, and whether the
\* array being iterated over is still this.pending.
Calls == [running: BOOLEAN, endpoint: Endpoints \cup {Every},
          ca: Cas \cup {Every}, todo: SUBSET Entries,
          kept: SUBSET Entries, live: BOOLEAN]

Ended == [running |-> FALSE, endpoint |-> Every, ca |-> Every,
          todo |-> {}, kept |-> {}, live |-> FALSE]

Init ==
  /\ pending = {}
  /\ file = {}
  /\ fresh = Submissions
  /\ left = [o \in Submissions |-> {}]
  /\ flush = [f \in Flushes |-> Ended]
  /\ sending = [a \in Actors |-> NoEntry]
  /\ delivered = {}
  /\ queued = {}
  /\ overlapped = FALSE
  /\ unsaved = FALSE
  /\ faults = 0

-----------------------------------------------------------------------------
(* The network and the disk.  The server takes an upload and says so, takes *)
(* it and the answer is lost, or does not take it.                          *)

Outcomes == {"ok", "answerLost", "failed"}

\* uploadOne, from the server's side.
Upload(e, outcome) ==
  /\ outcome # "failed" => e \in Accepted
  /\ delivered' = IF outcome = "failed" THEN delivered
                  ELSE delivered \cup {e}

\* saveQueue ignores a write that fails: the file keeps what it had.
SaveQueue(q, saved) ==
  /\ file' = IF saved THEN q ELSE file
  /\ unsaved' = (unsaved \/ ~saved)

\* An upload its server refuses fails without a fault.
Count(faulty) ==
  IF faulty THEN faults < MaxFaults /\ faults' = faults + 1
  ELSE UNCHANGED faults

Faulty(e, outcome, saved) ==
  \/ outcome = "answerLost"
  \/ outcome = "failed" /\ e \in Accepted
  \/ ~saved

-----------------------------------------------------------------------------
(* submitObject and submitRawAttachment: the endpoints are tried in turn.  *)

\* Mutant: the queue is not written when an entry joins it.
EnqueueUnsaved(e, saved) ==
  /\ pending' = pending \cup {e}
  /\ queued' = queued \cup {e}
  /\ flush' = [f \in Flushes |->
                 IF flush[f].live THEN [flush[f] EXCEPT !.todo = @ \cup {e}]
                 ELSE flush[f]]
  /\ saved
  /\ UNCHANGED <<file, unsaved>>

\* The entry is pushed on this.pending: a flush that iterates over that very
\* array comes to it too.
Enqueue(e, saved) ==
  /\ pending' = pending \cup {e}
  /\ queued' = queued \cup {e}
  /\ flush' = [f \in Flushes |->
                 IF flush[f].live THEN [flush[f] EXCEPT !.todo = @ \cup {e}]
                 ELSE flush[f]]
  /\ SaveQueue(pending', saved)

\* On to the next endpoint, or return when none is left.
TryNext(o, es) ==
  \/ /\ es = {}
     /\ left' = [left EXCEPT ![o] = {}]
     /\ sending' = [sending EXCEPT ![o] = NoEntry]
  \/ \E e \in es : /\ left' = [left EXCEPT ![o] = es \ {e}]
                   /\ sending' = [sending EXCEPT ![o] = e]

Submit(o) ==
  /\ o \in fresh
  /\ fresh' = fresh \ {o}
  /\ TryNext(o, EntriesOf[o])
  /\ UNCHANGED <<pending, file, flush, delivered, queued, overlapped,
                 unsaved, faults>>

SubmitAnswer(o, outcome, saved) ==
  /\ sending[o] # NoEntry
  /\ Upload(sending[o], outcome)
  /\ IF outcome = "ok"
     THEN saved /\ UNCHANGED <<pending, file, queued, flush, unsaved>>
     ELSE Enqueue(sending[o], saved)
  /\ TryNext(o, left[o])
  /\ Count(Faulty(sending[o], outcome, saved))
  /\ UNCHANGED <<fresh, overlapped>>

-----------------------------------------------------------------------------
(* uploadPending: timer and users run it, and nothing keeps them apart.    *)

\* An entry is filtered by endpoint, and a statement by its CA.
InScope(e, endpoint, ca) ==
  /\ endpoint \in {Every, EndpointOf[e]}
  /\ ca # Every /\ e \notin Attachments => CaOf[e] = ca

\* From one await to the next: entries filtered out are kept; when no other
\* is left, what was kept becomes a new this.pending.
Advance(f, c, saved) ==
  LET scope == {e \in c.todo : InScope(e, c.endpoint, c.ca)}
  IN \/ /\ scope = {}
        /\ pending' = c.kept \cup c.todo
        /\ SaveQueue(pending', saved)
        /\ flush' = [g \in Flushes |-> IF g = f THEN Ended
                                       ELSE [flush[g] EXCEPT !.live = FALSE]]
        /\ sending' = [sending EXCEPT ![f] = NoEntry]
     \/ /\ saved
        /\ \E e \in scope :
             /\ flush' = [flush EXCEPT ![f] = [c EXCEPT !.todo = @ \ {e}]]
             /\ sending' = [sending EXCEPT ![f] = e]
        /\ UNCHANGED <<pending, file, unsaved>>

StartFlush(f, endpoint, ca, saved) ==
  /\ ~flush[f].running
  /\ Advance(f, [running |-> TRUE, endpoint |-> endpoint, ca |-> ca,
                 todo |-> pending, kept |-> {}, live |-> TRUE], saved)
  /\ overlapped' = (overlapped \/ \E g \in Flushes : flush[g].running)
  /\ Count(~saved)
  /\ UNCHANGED <<fresh, left, delivered, queued>>

\* Mutant: the flush gives up at the first entry that fails.
FlushAnswerOrStop(f, outcome, saved) ==
  LET c == flush[f]
      e == sending[f]
  IN /\ c.running
     /\ Upload(e, outcome)
     /\ Advance(f, IF outcome = "ok" THEN c
                   ELSE [c EXCEPT !.kept = @ \cup {e} \cup c.todo,
                                  !.todo = {}], saved)
     /\ Count(Faulty(e, outcome, saved))
     /\ UNCHANGED <<fresh, left, queued, overlapped>>

FlushAnswer(f, outcome, saved) ==
  LET c == flush[f]
      e == sending[f]
  IN /\ c.running
     /\ Upload(e, outcome)
     /\ Advance(f, IF outcome = "ok" THEN c
                   ELSE [c EXCEPT !.kept = @ \cup {e}], saved)
     /\ Count(Faulty(e, outcome, saved))
     /\ UNCHANGED <<fresh, left, queued, overlapped>>

-----------------------------------------------------------------------------
\* Mutant: a file that does not parse is not replaced by an empty queue.
LoadQueueAnyway(torn) == IF torn THEN {NoEntry} ELSE file

LoadQueue(torn) == IF torn THEN {} ELSE file

\* The application stops and starts again: calls under way are gone.
Restart(torn) ==
  /\ pending' = LoadQueue(torn)
  /\ file' = LoadQueue(torn)
  /\ left' = [o \in Submissions |-> {}]
  /\ flush' = [f \in Flushes |-> Ended]
  /\ sending' = [a \in Actors |-> NoEntry]
  /\ unsaved' = (unsaved \/ torn)
  /\ Count(TRUE)
  /\ UNCHANGED <<fresh, delivered, queued, overlapped>>

Answer(a) ==
  \E outcome \in Outcomes, saved \in BOOLEAN :
    \/ a \in Submissions /\ SubmitAnswer(a, outcome, saved)
    \/ a \in Flushes /\ FlushAnswer(a, outcome, saved)

TimerFlush ==
  \E f \in TimerFlushes, saved \in BOOLEAN : StartFlush(f, Every, Every, saved)

UserFlush(f) ==
  \E endpoint \in Endpoints, ca \in Cas, saved \in BOOLEAN :
    StartFlush(f, endpoint, ca, saved)

Next ==
  \/ \E o \in Submissions : Submit(o)
  \/ \E a \in Actors : Answer(a)
  \/ TimerFlush
  \/ \E f \in UserFlushes : UserFlush(f)
  \/ \E torn \in BOOLEAN : Restart(torn)

Spec == Init /\ [][Next]_vars

\* The timer keeps firing and every request is answered or fails in the end.
FairSpec ==
  /\ Spec
  /\ WF_vars(TimerFlush)
  /\ \A a \in Actors : WF_vars(Answer(a))

-----------------------------------------------------------------------------
(* Type invariant of the queue and of the calls that work on it.           *)
TypeOK ==
  /\ pending \subseteq Entries
  /\ file \subseteq Entries
  /\ fresh \subseteq Submissions
  /\ left \in [Submissions -> SUBSET Entries]
  /\ flush \in [Flushes -> Calls]
  /\ sending \in [Actors -> Entries \cup {NoEntry}]
  /\ delivered \subseteq Entries
  /\ queued \subseteq Entries
  /\ overlapped \in BOOLEAN
  /\ unsaved \in BOOLEAN
  /\ faults \in Nat

(* An upload that was queued is on its server or still in the queue, while *)
(* submissions, one flush and restarts interleave in any way, as long as   *)
(* no second flush starts during one and the file can be written           *)
(* (enqueue, uploadPending, loadQueue).                                    *)
QueuedIsKept ==
  ~overlapped /\ ~unsaved => queued \subseteq delivered \cup pending

(* The same whether or not flushes overlap.  online.ts: "If the server is  *)
(* unreachable the upload is queued, and a background timer flushes the    *)
(* queue whenever the network becomes available."                          *)
QueuedIsNeverLost ==
  ~unsaved => queued \subseteq delivered \cup pending

(* Under the same proviso every queued upload its server takes reaches it  *)
(* in the end, whatever refused uploads, narrower flushes and restarts     *)
(* share the queue with it (the timer's syncNow).                          *)
QueuedIsDelivered ==
  \A e \in Accepted :
    e \in queued ~> e \in delivered \/ overlapped \/ unsaved

(* What QueuedIsKept rests on: a single flush iterates over the array that *)
(* is still this.pending, and accounts for everything in it.               *)
Accounted(f) ==
  LET c == flush[f]
  IN c.live /\ pending \subseteq c.todo \cup c.kept \cup {sending[f]} \cup delivered

KeptInvariant ==
  /\ \A f \in Flushes : flush[f].running => sending[f] \in Entries
  /\ ~overlapped /\ ~unsaved =>
       /\ file = pending
       /\ queued \subseteq delivered \cup pending
       /\ \A f, g \in Flushes : flush[f].running /\ flush[g].running => f = g
       /\ \A f \in Flushes : flush[f].running => Accounted(f)
=============================================================================
