----------------------------- MODULE Documents -----------------------------
(***************************************************************************)
(* The life of one document: issued by SigningService.issueSdoc of one     *)
(* core under a TCert with some schema, then verified any number of times  *)
(* by either core (the second half of VerificationService.verify).  The    *)
(* verifier prompts for bound values and waits for each answer.            *)
(*                                                                         *)
(* TCert, trust and revocation are taken as valid here: Verification has   *)
(* them.  A signature covers the stored values and the secrets, exactly.   *)
(***************************************************************************)
EXTENDS Fields

CONSTANTS
  Forms,      \* schemas with values to issue under: [schema, values]
  Clocks,     \* times, in minutes
  Offsets,    \* UTC offsets of a verifier, in minutes
  Places,     \* positions of a verifier
  Guesses,    \* answers of a person who does not know the value
  Omitted,    \* no value
  Now,        \* the default {kind: 'now'}
  NoDocument

\* The fields of a schema: what they hold, and the rules for it.
SchemaFields ==
  [type: FieldTypes, required: {"yes", "no", "unstated"}, min: Int, max: Int,
   options: Nat, ruleOptions: Nat, binding: {"none", "inline", "stripped"},
   rules: Seq(Rules), radius: Nat, default: Values \cup {Omitted, Now}]

ASSUME DocumentsAssumption ==
  /\ \A form \in Forms :
       /\ form.schema \in Seq(SchemaFields)
       /\ form.values \in Seq(Values \cup {Omitted})
       /\ Len(form.values) = Len(form.schema)
  /\ Clocks \subseteq Nat /\ Offsets \subseteq Int
  /\ \A now \in Clocks :       \* before 2038, when issuedAt is read amiss
       now \in Minutes /\ DayOf(now) \in FirstDay..LastDay /\ now < EpochHalf
  /\ Guesses \subseteq Values \cup Digits
  /\ Omitted \notin Values \cup Digits
  /\ NoTime \notin Int

NoAnswer == Omitted

VARIABLES
  doc,        \* the document, with what was entered for it
  check       \* the verification that runs or has ended last

documentVars == <<doc, check>>

NotRunning == [pc |-> "idle", core |-> "ts", now |-> 0, offset |-> 0,
               place |-> NoPlace, heard |-> <<>>, states |-> <<>>,
               cryptographic |-> "cannotVerify", schema |-> "cannotVerify",
               context |-> "satisfied"]

DocumentInit == doc = NoDocument /\ check = NotRunning

-----------------------------------------------------------------------------
(* SigningService.issueSdoc.                                               *)

\* A default `now' is a date, or a datetime for every other type of field.
Default(f, now) ==
  IF f.default # Now THEN f.default
  ELSE [kind |-> IF f.type = "date" THEN "date" ELSE "datetime",
        at |-> IF f.type = "date" THEN DayOf(now) ELSE now, loose |-> FALSE]

Entry(f, v, now) == IF v = Omitted THEN Default(f, now) ELSE v

\* What is left out may not be required.
MayEnter(core, f, v) ==
  IF v = Omitted THEN f.required # "yes" ELSE Accepts(core, f, v)

\* Mutant: a stripped value is stored as well.
StoredOpen(core, f, v) == IF v = Omitted THEN Omitted ELSE Encode(core, f, v)

Stored(core, f, v) ==
  IF v = Omitted \/ IsStripped(f) THEN Omitted ELSE Encode(core, f, v)

MayStore(core, f, v) ==
  Stored(core, f, v) # Omitted => Storable(Stored(core, f, v))

Secret(core, f, v) ==
  IF v = Omitted \/ ~IsStripped(f) THEN Omitted ELSE Written(core, v)

IssueDocument(core, form, now) ==
  LET schema == form.schema
      entries == [i \in DOMAIN schema |-> Entry(schema[i], form.values[i], now)]
  IN /\ doc = NoDocument
     /\ \A i \in DOMAIN schema :
          /\ MayEnter(core, schema[i], entries[i])
          /\ MayStore(core, schema[i], entries[i])
     /\ doc' = [schema |-> schema, issuer |-> core, issuedAt |-> now,
                entries |-> entries,
                stored |-> [i \in DOMAIN schema |->
                              Stored(core, schema[i], entries[i])],
                secrets |-> [i \in DOMAIN schema |->
                               Secret(core, schema[i], entries[i])]]
     /\ UNCHANGED check

-----------------------------------------------------------------------------
(* VerificationService.verify, from the prompts for secrets on.            *)

BeginVerification(core, now, offset, place) ==
  /\ doc # NoDocument
  /\ check.pc \in {"idle", "done"}
  /\ now >= doc.issuedAt
  /\ place # NoPlace =>       \* the position is asked for a location only
       \E i \in DOMAIN doc.schema : doc.schema[i].type = "location"
  /\ check' = [NotRunning EXCEPT !.pc = "secrets", !.core = core, !.now = now,
                                 !.offset = offset, !.place = place]
  /\ UNCHANGED doc

\* The field that the verification has come to.
Position == IF check.pc = "secrets" THEN Len(check.heard) + 1
            ELSE Len(check.states) + 1

Reached(pc) == check.pc = pc /\ Position <= Len(doc.schema)
Field == doc.schema[Position]

\* Every stripped field is asked for, also after one without an answer, and
\* also when the document has no value for it.
AskSecret(answer) ==
  /\ Reached("secrets")
  /\ IsStripped(Field)
  /\ check' = [check EXCEPT !.heard = Append(@, answer)]
  /\ UNCHANGED doc

NoSecret ==
  /\ Reached("secrets")
  /\ ~IsStripped(Field)
  /\ check' = [check EXCEPT !.heard = Append(@, NoAnswer)]
  /\ UNCHANGED doc

AskedFor == {i \in DOMAIN doc.schema : IsStripped(doc.schema[i])}

\* Mutant: the signature is checked without the values nobody entered.
SignedWithGiven(heard) ==
  \A i \in AskedFor : doc.secrets[i] # Omitted => heard[i] = doc.secrets[i]

\* The external AAD holds one entry for each value, and none for the rest.
SignatureHolds(heard) == \A i \in AskedFor : heard[i] = doc.secrets[i]

CheckSignature ==
  /\ check.pc = "secrets"
  /\ Position > Len(doc.schema)
  /\ check' =
       IF \E i \in AskedFor : check.heard[i] = NoAnswer
       THEN [check EXCEPT !.context = "missing", !.pc = "done"]
       ELSE IF SignatureHolds(check.heard)
       THEN [check EXCEPT !.cryptographic = "valid", !.schema = "valid",
                          !.pc = "fields"]
       ELSE [check EXCEPT !.cryptographic = "invalid", !.pc = "done"]
  /\ UNCHANGED doc

\* The result of a field goes to the list, and from there to the verdict.
Record(heard, state) ==
  /\ check' = [check EXCEPT
                 !.heard = heard,
                 !.states = Append(@, state),
                 !.schema = IF state = "invalid" THEN "invalid" ELSE @,
                 !.context = IF state = "cannotVerify" THEN "missing" ELSE @]
  /\ UNCHANGED doc

\* A bound value that is stored is asked for and compared with what is stored.
Asked(f, e) == IsInline(f) /\ e # Omitted

AnswerState(answer, e) ==
  IF answer = NoAnswer THEN "cannotVerify"
  ELSE IF Trim(answer) # Presentable(check.core, e) THEN "invalid"
  ELSE FieldState(check.core, Field, e, check)

AskValue(answer) ==
  /\ Reached("fields")
  /\ LET e == doc.stored[Position]
     IN /\ Asked(Field, e)
        /\ Record([check.heard EXCEPT ![Position] = answer],
                  AnswerState(answer, e))

CheckField ==
  /\ Reached("fields")
  /\ LET e == doc.stored[Position]
     IN /\ ~Asked(Field, e)
        /\ Record(check.heard,
                  IF IsStripped(Field) THEN "valid"
                  ELSE IF e = Omitted
                  THEN IF Field.required = "yes" THEN "invalid" ELSE "valid"
                  ELSE FieldState(check.core, Field, e, check))

FinishVerification ==
  /\ check.pc = "fields"
  /\ Position > Len(doc.schema)
  /\ check' = [check EXCEPT !.pc = "done"]
  /\ UNCHANGED doc

\* finalize, and VerificationResult.overall.
Verdict ==
  LET components == {check.cryptographic, check.schema}
  IN IF "invalid" \in components THEN "invalid"
     ELSE IF "cannotVerify" \in components \/ check.context # "satisfied"
     THEN "cannotVerify" ELSE "valid"

\* Answers to the prompt for the current field: what was entered at signing or
\* is stored, a number also as a core reads it, in the writing of either core;
\* a wrong guess, or none.
Answers ==
  LET entered == {doc.entries[Position], doc.stored[Position]} \ {Omitted}
      shown == {Decoded(core, v) :
                  core \in Cores, v \in {w \in entered : w.kind = "number"}}
  IN {NoAnswer} \cup Guesses
       \cup {Written(core, v) : core \in Cores, v \in entered \cup shown}

DocumentNext ==
  \/ \E core \in Cores, form \in Forms, now \in Clocks : IssueDocument(core, form, now)
  \/ \E core \in Cores, now \in Clocks, offset \in Offsets,
       place \in Places \cup {NoPlace} : BeginVerification(core, now, offset, place)
  \/ Reached("secrets") /\ \E answer \in Answers : AskSecret(answer)
  \/ NoSecret
  \/ CheckSignature
  \/ Reached("fields") /\ \E answer \in Answers : AskValue(answer)
  \/ CheckField
  \/ FinishVerification

DocumentSpec == DocumentInit /\ [][DocumentNext]_documentVars

-----------------------------------------------------------------------------

FieldStates == {"valid", "invalid", "cannotVerify"}

DocumentTypeOK ==
  /\ doc # NoDocument =>
       /\ doc.issuer \in Cores
       /\ \A i \in DOMAIN doc.schema :
            /\ doc.schema[i].type \in FieldTypes
            /\ IsStripped(doc.schema[i]) => doc.stored[i] = Omitted
            /\ ~IsStripped(doc.schema[i]) => doc.secrets[i] = Omitted
  /\ check.pc \in {"idle", "secrets", "fields", "done"}
  /\ check.pc # "idle" =>
       /\ Len(check.states) <= Len(check.heard)
       /\ Len(check.heard) <= Len(doc.schema)
       /\ \A i \in DOMAIN check.states : check.states[i] \in FieldStates

Accepted == check.pc = "done" /\ Verdict = "valid"

\* Whoever gets a document accepted has entered every bound value of it: the
\* secret as it was signed, the stored value as the verifier reads and writes
\* it, blanks at the ends aside.  An answer that was missing or wrong is not
\* outweighed by later fields, and a document without a value for a stripped
\* field is accepted with no answer at all (verificationService.ts:180-205,
\* 236-265, finalize).
HolderKnewTheValues ==
  Accepted =>
    \A i \in DOMAIN doc.schema :
      /\ IsStripped(doc.schema[i]) =>
           doc.secrets[i] # Omitted /\ check.heard[i] = doc.secrets[i]
      /\ Asked(doc.schema[i], doc.stored[i]) =>
           Trim(check.heard[i]) = Presentable(check.core, doc.stored[i])

\* What was entered for the bound fields is entered again, by someone who
\* writes it as the issuer's core does.
Reentered ==
  \A i \in DOMAIN doc.schema :
    IsBound(doc.schema[i]) /\ doc.entries[i] # Omitted =>
      check.heard[i] = Written(doc.issuer, doc.entries[i])

\* Time and place have a say in the verdict.
Contextual == \E i \in DOMAIN doc.schema :
                 doc.schema[i].type = "location" \/ doc.schema[i].rules # <<>>

\* A document that a core signed is valid to the same core when its values
\* are entered again and no rule of time or place concerns it: `never sign a
\* document that cannot be verified' (signingService.ts:59).  It does not
\* hold (README, 3), but for what the next property excepts.
SignedCanBeVerified ==
  check.pc = "done" /\ check.core = doc.issuer /\ Reentered /\ ~Contextual
    => Verdict = "valid"

InStoredForm(i) ==
  LET v == doc.entries[i]
      e == Encode(doc.issuer, doc.schema[i], v)
  IN v # Omitted =>
       Written(doc.issuer, Decoded(doc.issuer, e)) = Written(doc.issuer, v)

\* SignedIsVerifiable holds of every document for which all values of
\* stripped fields were given, and all values as they are stored and read:
\* texts in NFC, numbers of at most ten decimals, powers of ten that survive
\* the trimming of zeros, and in TypeScript no integers from 2^31 to 2^32
\* (signingService.ts:84-110, verificationService.ts:206-272).
SignedIsVerifiable ==
  /\ check.pc = "done" /\ check.core = doc.issuer /\ Reentered /\ ~Contextual
  /\ \A i \in AskedFor : doc.entries[i] # Omitted
  /\ \A i \in DOMAIN doc.schema : InStoredForm(i)
  => Verdict = "valid"

\* Where the cores are known to judge a stored value differently.
Differs(f, e) ==
  \/ f.type = "attachment"
  \/ f.type \in DOMAIN DateKind /\ e.kind = DateKind[f.type]
       /\ (e.loose \/ \E i \in DOMAIN f.rules : f.rules[i].kind = "day")
  \/ f.type = "secretInput" /\ e.astral > 0
  \/ f.type = "select" /\ f.ruleOptions = 0 /\ f.options > 0
  \/ f.type \in {"number", "datetimeEpoch"} /\ Decoded("ts", e) # e

\* Both cores judge every stored field alike, whichever of them issued it,
\* on a device in UTC: except for attachments, weekdays, dates that Python
\* alone accepts, the length of secrets outside the basic plane, empty lists
\* of options, and integers that TypeScript reads as other ones: those from
\* 2^31 to 2^32 and from 2^53 on, and the moments from 2038 to 2106
\* (qrs-core-js/src/fields, qrs/field_engines.py, canonical.ts:185-191).
CoresAgree ==
  check.pc = "done" /\ check.offset = 0 =>
    \A i \in DOMAIN doc.schema :
      LET f == doc.schema[i]
          e == doc.stored[i]
      IN \/ e = Omitted \/ Differs(f, e)
         \/ FieldState("ts", f, e, check) = FieldState("python", f, e, check)

-----------------------------------------------------------------------------
(* What the comments on date rules promise (dateRules.ts:4-36,             *)
(* date_rules.py:3-28), read as they are written and not as the cores      *)
(* compute it.  x is the field's date and clock time, how old it is, and   *)
(* the date of today.                                                      *)

Meaning(r, x) ==
  CASE r.kind = "today" -> Compare(x.day, r.op, x.today)
    [] r.kind = "day" -> Compare(x.day % 7, r.op, r.is)
    [] r.kind = "daytime" ->
         x.time # NoTime /\ (r.is = "day" <=> x.time \div 360 \in {1, 2})
    [] r.kind = "window" ->
         x.time # NoTime /\ Compare(r.lo, r.lop, x.time)
                         /\ Compare(x.time, r.hop, r.hi)
    [] r.kind = "clock" -> x.time # NoTime /\ Compare(x.time, r.op, r.bound)
    [] r.kind = "age" ->
         x.age # NoTime /\ Compare(x.age, r.op, r.bound * UnitMinutes[r.unit])
    [] OTHER -> FALSE

\* The field in its zone, beside the today of the verifier's zone.
Described(i, fieldZone, zone) ==
  LET at == doc.stored[i].at
      dated == doc.schema[i].type = "date"
  IN [day |-> IF dated THEN at ELSE (at + fieldZone) \div 1440,
      time |-> IF dated THEN NoTime ELSE (at + fieldZone) % 1440,
      age |-> IF dated THEN NoTime ELSE check.now - at,
      today |-> (check.now + zone) \div 1440]

\* The zone of the comments: local in TypeScript, UTC in Python.
Zone == IF check.core = "ts" THEN check.offset ELSE 0

\* The dates that have been judged on their rules alone, and were read as
\* they were stored.
JudgedDates ==
  IF check.pc # "done" THEN {}
  ELSE {i \in DOMAIN check.states :
          /\ doc.schema[i].type \in DOMAIN DateKind /\ ~IsBound(doc.schema[i])
          /\ doc.stored[i] # Omitted /\ ~doc.stored[i].loose
          /\ Decoded(check.core, doc.stored[i]) = doc.stored[i]}

HasDayRule(i) == \E j \in DOMAIN doc.schema[i].rules :
                   doc.schema[i].rules[j].kind = "day"

\* The verdict on a date is what its rules say of x, with the weekday of the
\* day that is so many days before.
ReadAs(i, x, before) ==
  check.states[i] = "valid" <=>
    \A j \in DOMAIN doc.schema[i].rules :
      LET r == doc.schema[i].rules[j]
      IN Meaning(r, IF r.kind = "day" THEN [x EXCEPT !.day = @ - before] ELSE x)

\* A date is valid iff its rules hold as the comments explain them.  It does
\* not hold (README, 3), but for what the next property corrects.
RulesReadAsWritten ==
  \A i \in JudgedDates : ReadAs(i, Described(i, Zone, Zone), 0)

\* A date is valid iff its rules hold as the comments explain them, but for
\* two things: the day and the clock time of an epoch are those of UTC where
\* the comment says local (datetimeEpochField.ts:44-47), and a Python
\* verifier takes the weekday of the day before (date_rules.py:134).
DateRulesReadAsWritten ==
  \A i \in JudgedDates :
    ReadAs(i,
           Described(i, IF doc.schema[i].type = "datetimeEpoch" THEN 0
                        ELSE Zone, Zone),
           IF check.core = "python" THEN 1 ELSE 0)

\* `day() == 'friday' - the field's weekday' (date_rules.py:11-12).
PythonReadsWeekdays ==
  \A i \in JudgedDates :
    check.core = "python" /\ HasDayRule(i)
      => ReadAs(i, Described(i, Zone, Zone), 0)

OfThisMoment(i) ==
  doc.stored[i].at = IF doc.schema[i].type = "date" THEN DayOf(check.now)
                     ELSE check.now

\* What is of this very moment is of today: a datetime always, a date - a
\* default is taken in UTC - and an epoch only while the day in UTC is the
\* day in the zone of the verifier (today(), resolveFieldDefault).
NowIsToday ==
  \A i \in JudgedDates :
    /\ OfThisMoment(i)
    /\ doc.schema[i].rules = <<[kind |-> "today", op |-> "=="]>>
    =>
      (check.states[i] = "valid" <=>
         \/ doc.schema[i].type = "datetime"
         \/ check.core = "python"
         \/ DayOf(check.now + check.offset) = DayOf(check.now))
-----------------------------------------------------------------------------
(* What holds in every state, and makes the properties above hold.         *)

\* The answers of a person, and the values they are compared with.
Heard == Values \cup Digits \cup {Omitted}

\* What is signed is what issueSdoc makes of the values it was given.
IssuedAsEntered ==
  doc # NoDocument =>
    /\ doc.schema \in Seq(SchemaFields)
    /\ doc.issuer \in Cores
    /\ doc.entries \in [DOMAIN doc.schema -> Values \cup {Omitted}]
    /\ \A i \in DOMAIN doc.schema :
         /\ MayEnter(doc.issuer, doc.schema[i], doc.entries[i])
         /\ doc.stored[i] = Stored(doc.issuer, doc.schema[i], doc.entries[i])
         /\ doc.secrets[i] = Secret(doc.issuer, doc.schema[i], doc.entries[i])

CheckTypeOK ==
  /\ check \in [pc: {"idle", "secrets", "fields", "done"}, core: Cores,
                now: Nat, offset: Int, place: Places \cup {NoPlace},
                heard: Seq(Heard), states: Seq(FieldStates),
                cryptographic: FieldStates, schema: FieldStates,
                context: {"satisfied", "missing"}]
  /\ check.pc # "idle" => doc # NoDocument

\* The state of field i, given the answer that was heard for it.
Judgement(i) ==
  LET f == doc.schema[i]
      e == doc.stored[i]
  IN IF Asked(f, e)
     THEN IF check.heard[i] = NoAnswer THEN "cannotVerify"
          ELSE IF Trim(check.heard[i]) # Presentable(check.core, e)
          THEN "invalid"
          ELSE FieldState(check.core, f, e, check)
     ELSE IF IsStripped(f) THEN "valid"
     ELSE IF e = Omitted
     THEN IF f.required = "yes" THEN "invalid" ELSE "valid"
     ELSE FieldState(check.core, f, e, check)

\* A verification that has come to the fields has every secret, and its
\* result is that of the fields it has judged.
JudgedSoFar ==
  /\ Len(check.heard) = Len(doc.schema)
  /\ SignatureHolds(check.heard)
  /\ \A i \in AskedFor : check.heard[i] # NoAnswer
  /\ Len(check.states) <= Len(doc.schema)
  /\ \A i \in DOMAIN check.states : check.states[i] = Judgement(i)
  /\ check.schema =
       IF \E i \in DOMAIN check.states : check.states[i] = "invalid"
       THEN "invalid" ELSE "valid"
  /\ check.context =
       IF \E i \in DOMAIN check.states : check.states[i] = "cannotVerify"
       THEN "missing" ELSE "satisfied"

\* One that has stopped before has no answer to some prompt, or a wrong one.
StoppedEarly ==
  /\ Len(check.heard) = Len(doc.schema)
  /\ \/ \E i \in AskedFor : check.heard[i] = NoAnswer
     \/ ~SignatureHolds(check.heard)

CheckProgress ==
  /\ check.pc = "secrets" =>
       /\ Len(check.heard) <= Len(doc.schema) /\ check.states = <<>>
       /\ check.context = "satisfied" /\ check.cryptographic = "cannotVerify"
  /\ check.pc = "fields" => check.cryptographic = "valid"
  /\ check.pc \in {"fields", "done"} =>
       IF check.cryptographic = "valid" THEN JudgedSoFar
       ELSE StoppedEarly /\ check.states = <<>>
  /\ check.pc = "done" /\ check.cryptographic = "valid" =>
       Len(check.states) = Len(doc.schema)

DocumentInvariant == IssuedAsEntered /\ CheckTypeOK /\ CheckProgress
=============================================================================
