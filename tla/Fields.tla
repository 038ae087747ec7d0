------------------------------- MODULE Fields -------------------------------
(***************************************************************************)
(* The field engines of the two cores: what a field of a document may      *)
(* hold, how a value is stored, and what the rules of a date say at        *)
(* verification time.  Each operator takes the core it speaks of, "ts"     *)
(* (qrs-core-js) or "python" (qrs-core-python); where it does not use it,  *)
(* the cores do the same.                                                  *)
(*                                                                         *)
(* Values are records with a `kind'.  A text is its lengths, and how many  *)
(* blanks stand at its ends (`pad'); a number counts half units of the     *)
(* tenth decimal (`ticks'), or is that many times a power of ten from      *)
(* 10^21 on (`exp'), and Python tells a `float' from an int; a point lies  *)
(* on a line of half microdegrees; a time is in minutes, and day 0 is a    *)
(* Sunday.                                                                 *)
(*                                                                         *)
(* Left out: infinite numbers; years before 1000 and after 9999, which the *)
(* rules compare as texts; the exponents with which either core writes a   *)
(* number that is very small, and Python one from 10^16 on.                *)
(***************************************************************************)
EXTENDS Integers, Sequences

CONSTANTS
  Far,        \* a bound that nothing reaches: the rule is absent
  One,        \* the number 1 in ticks
  Half,       \* 2^31, in ticks
  Safe,       \* 2^53, in ticks: the first integer JavaScript calls unsafe
  Wide,       \* 2^64, in ticks: the first one beyond CBOR
  EpochHalf,  \* 2^31 seconds, in minutes: a moment of January 2038
  FirstDay, LastDay,   \* of the years 1000 and 9999
  NoTime,     \* a date has no time of day and no epoch
  NoPlace     \* the device has no position

ASSUME FieldsAssumption ==
  /\ One \in Nat \ {0} /\ One % 2 = 0 /\ Far \in Nat
  /\ Half \in Nat /\ Safe \in Nat /\ Wide \in Nat
  /\ 0 < Half /\ Half < Safe /\ Safe < Wide
  /\ EpochHalf \in Nat \ {0} /\ FirstDay \in Int /\ LastDay \in Int

Cores == {"ts", "python"}

FieldTypes == {"text", "textarea", "select", "selectv2", "number", "date",
               "datetime", "datetimeEpoch", "location", "secretInput",
               "attachment"}

Minutes == FirstDay * 1440 .. LastDay * 1440 + 1439
Exponents == {n \in Nat : n = 0 \/ n >= 21}

Values ==
  [kind: {"text"}, points: Nat, composed: Nat, astral: Nat, pad: Nat]
    \cup [kind: {"number"}, ticks: Int, exp: Exponents, float: BOOLEAN]
    \cup [kind: {"option", "index"}, choice: Int]
    \cup [kind: {"date"}, at: FirstDay..LastDay, loose: BOOLEAN]
    \cup [kind: {"datetime"}, at: Minutes, loose: BOOLEAN]
    \cup [kind: {"epoch"}, at: Minutes, loose: {FALSE}]
    \cup [kind: {"point"}, at: Int]
    \cup [kind: {"hash", "reference"}]

\* A number as it is written.
Digits == [kind: {"digits"}, ticks: Int, exp: Exponents, point: BOOLEAN]

Comparisons == {"<", "<=", ">", ">=", "==", "!="}
Orders == {"<", "<=", ">", ">="}
Units == {"m", "h", "d", "w"}

Rules ==
  [kind: {"today"}, op: Comparisons]
    \cup [kind: {"day"}, op: {"==", "!="}, is: Nat]
    \cup [kind: {"daytime"}, is: {"day", "night"}]
    \cup [kind: {"window"}, lo: Nat, lop: Orders, hop: Orders, hi: Nat]
    \cup [kind: {"clock"}, op: Orders, bound: Nat]
    \cup [kind: {"age"}, op: Comparisons \ {"!="}, bound: Nat, unit: Units]
    \cup [kind: {"unknown"}]

-----------------------------------------------------------------------------
(* Bindings: a bound value is asked for again at verification.             *)

BindingFieldTypes == {"secretInput", "text", "select", "number", "date"}

IsBound(f) ==
  f.type \in BindingFieldTypes /\ (f.type = "secretInput" \/ f.binding # "none")

EffectiveBinding(f) ==
  IF f.binding # "none" THEN f.binding
  ELSE IF f.type = "secretInput" THEN "stripped" ELSE "inline"

IsStripped(f) == IsBound(f) /\ EffectiveBinding(f) = "stripped"
IsInline(f) == IsBound(f) /\ EffectiveBinding(f) = "inline"

-----------------------------------------------------------------------------
(* Text.  `points' is its length in code points without the blanks at its  *)
(* ends, `composed' what NFC makes of it, `astral' how many of them take   *)
(* two UTF-16 units.                                                       *)

Normalize(v) == [v EXCEPT !.points = v.composed]

TextLength(v) == v.points + v.pad

\* A JavaScript string is as long as its UTF-16 units.
SecretLength(core, v) ==
  IF core = "ts" THEN TextLength(v) + v.astral ELSE TextLength(v)

InRange(n, f) == n >= f.min /\ (f.max = Far \/ n <= f.max)

AcceptsText(f, v) ==
  v.kind = "text" /\ InRange(TextLength(v), f)
    /\ (f.required = "yes" => TextLength(v) > 0)

\* A secret is required unless the schema says otherwise, and has no maximum.
AcceptsSecret(core, f, v) ==
  v.kind = "text" /\ SecretLength(core, v) >= f.min
    /\ (f.required # "no" => SecretLength(core, v) > 0)

-----------------------------------------------------------------------------
(* Numbers.                                                                *)

\* n to an even number: ties away from zero, upwards, or to a multiple of 4.
RoundAway(n) == IF n % 2 = 0 THEN n ELSE IF n > 0 THEN n + 1 ELSE n - 1
RoundUp(n) == IF n % 2 = 0 THEN n ELSE n + 1
RoundEven(n) ==
  IF n % 2 = 0 THEN n ELSE IF (n + 1) % 4 = 0 THEN n + 1 ELSE n - 1

\* toFixed writes 10^30 as `1e+30', and the zeros at the end are removed (no
\* number has an exponent of four digits).
TrimmedExponent(e) ==
  IF e % 100 = 0 THEN e \div 100 ELSE IF e % 10 = 0 THEN e \div 10 ELSE e

Shortened(v) ==
  LET e == TrimmedExponent(v.exp)
  IN IF e < 21 THEN [v EXCEPT !.ticks = @ * 10 ^ e, !.exp = 0]
     ELSE [v EXCEPT !.exp = e]

\* canonicalDecimalString; `float' marks what is stored as a decimal string.
CanonicalDecimal(core, v) ==
  LET rounded == IF core = "ts" THEN RoundAway(v.ticks) ELSE RoundEven(v.ticks)
  IN [IF v.exp = 0 THEN [v EXCEPT !.ticks = rounded]
      ELSE IF core = "ts" THEN Shortened(v) ELSE v
        EXCEPT !.float = TRUE]

IsWhole(v) == v.exp > 0 \/ v.ticks % One = 0

IsSafe(ticks) == -Safe < ticks /\ ticks < Safe

\* JavaScript stores the safe integers as integers, Python every int.
EncodeNumber(core, v) ==
  IF core = "ts" /\ IsWhole(v) /\ v.exp = 0 /\ IsSafe(v.ticks)
  THEN [v EXCEPT !.float = FALSE]
  ELSE IF core = "python" /\ ~v.float THEN v
  ELSE CanonicalDecimal(core, v)

AcceptsNumber(f, v) ==
  /\ v.kind = "number"
  /\ f.min = -Far \/ IF v.exp = 0 THEN v.ticks >= f.min ELSE v.ticks > 0
  /\ f.max = Far \/ IF v.exp = 0 THEN v.ticks <= f.max ELSE v.ticks < 0

-----------------------------------------------------------------------------
(* Choices.                                                                *)

\* The texts 1..n are the options; 0 is the empty text.  An empty list of
\* options in the input rules hides those of the field in one core only.
SelectOptions(core, f) ==
  IF f.ruleOptions = Far \/ (core = "python" /\ f.ruleOptions = 0)
  THEN 1..f.options ELSE 1..f.ruleOptions

AcceptsSelect(core, f, v) ==
  /\ v.kind = "option"
  /\ f.required = "yes" => v.choice # 0
  /\ SelectOptions(core, f) # {} => v.choice \in SelectOptions(core, f)

OptionCount(f) == IF f.ruleOptions = Far THEN f.options ELSE f.ruleOptions

AcceptsSelectV2(f, v) == v.kind = "index" /\ v.choice \in 0..OptionCount(f) - 1

-----------------------------------------------------------------------------
(* Dates.  `loose' marks a text that only Python reads as a date: one with *)
(* a line break at its end.                                                *)

AcceptsDate(core, kind, v) == v.kind = kind /\ (v.loose => core = "python")

DayOf(t) == t \div 1440
MinuteOf(t) == t % 1440

\* Mutant: the offset is subtracted.
ZoneTimeBackwards(core, t, offset) == IF core = "ts" THEN t - offset ELSE t

\* Python computes in UTC, the TypeScript core in the zone of the device.
ZoneTime(core, t, offset) == IF core = "ts" THEN t + offset ELSE t

Compare(a, op, b) ==
  \/ op = "<" /\ a < b
  \/ op = "<=" /\ a <= b
  \/ op = ">" /\ a > b
  \/ op = ">=" /\ a >= b
  \/ op = "==" /\ a = b
  \/ op = "!=" /\ a # b

\* Mutant: the operator on the left is read as it stands.
Unflipped == [op \in Orders |-> op]

Flipped == [op \in Orders |->
              CASE op = "<" -> ">" [] op = "<=" -> ">="
                [] op = ">" -> "<" [] op = ">=" -> "<="]

\* The list of names begins with Sunday; Python counts from Monday.
Weekday(core, day) == IF core = "ts" THEN day % 7 ELSE (day + 6) % 7

UnitMinutes == [m |-> 1, h |-> 60, d |-> 1440, w |-> 10080]

\* Mutant: one core counts whole units only.
AgeHoldsWhole(core, r, x) ==
  IF core = "python"
  THEN Compare((x.now - x.epoch) \div UnitMinutes[r.unit], r.op, r.bound)
  ELSE Compare(x.now - x.epoch, r.op, r.bound * UnitMinutes[r.unit])

\* The age is compared as a fraction of the unit.
AgeHolds(core, r, x) ==
  Compare(x.now - x.epoch, r.op, r.bound * UnitMinutes[r.unit])

Order(a, b) == IF a = b THEN 0 ELSE IF a < b THEN -1 ELSE 1

\* evaluateOne: does the rule hold of x, the date or datetime of a field?
\* What matches no form, or needs a time that is not there, fails.
RuleHolds(core, r, x) ==
  \/ r.kind = "today" /\ Compare(Order(x.day, x.today), r.op, 0)
  \/ r.kind = "day" /\ Compare(Weekday(core, x.day), r.op, r.is)
  \/ r.kind = "daytime" /\ x.time # NoTime
       /\ r.is = IF x.time \in 360..1079 THEN "day" ELSE "night"
  \/ r.kind = "window" /\ x.time # NoTime
       /\ Compare(x.time, Flipped[r.lop], r.lo) /\ Compare(x.time, r.hop, r.hi)
  \/ r.kind = "clock" /\ x.time # NoTime /\ Compare(x.time, r.op, r.bound)
  \/ r.kind = "age" /\ x.epoch # NoTime
       /\ AgeHolds(core, r, x)

\* All expressions must hold.
DateRulesHold(core, rules, x) ==
  \A i \in DOMAIN rules : RuleHolds(core, rules[i], x)

\* The day and the clock time of a datetime are local, those of an epoch
\* are UTC; the day of today is local for both.
RuleInput(core, type, e, now, offset) ==
  LET here == IF type = "datetime" THEN ZoneTime(core, e.at, offset) ELSE e.at
  IN [day |-> IF type = "date" THEN e.at ELSE DayOf(here),
      time |-> IF type = "date" THEN NoTime ELSE MinuteOf(here),
      epoch |-> IF type = "date" THEN NoTime ELSE e.at,
      now |-> now, today |-> DayOf(ZoneTime(core, now, offset))]

DateHolds(core, f, e, env) ==
  DateRulesHold(core, f.rules,
                RuleInput(core, f.type, e, env.now, env.offset))

-----------------------------------------------------------------------------
(* What is stored is CBOR.                                                 *)

\* The integers from `half' to twice as much take four bytes, and a decoder
\* that puts them together with 32-bit shifts finds their sign bit set.
Signed(n, half) ==
  IF half <= n /\ n < 2 * half THEN n - 2 * half
  ELSE IF -2 * half <= n /\ n < -half THEN n + 2 * half
  ELSE n

\* The value that core reads where e was stored: JavaScript reads an integer
\* that is not safe as a bigint, Python every integer as it is.
Decoded(core, e) ==
  IF core = "python" THEN e
  ELSE IF e.kind = "epoch" THEN [e EXCEPT !.at = Signed(@, EpochHalf)]
  ELSE IF e.kind # "number" \/ e.float THEN e
  ELSE IF IsSafe(Signed(e.ticks, Half))
  THEN [e EXCEPT !.ticks = Signed(@, Half)]
  ELSE [e EXCEPT !.kind = "bigint"]

\* cborEncode takes the integers of 64 bits.
Storable(e) ==
  e.kind = "number" /\ ~e.float =>
    e.exp = 0 /\ -Wide <= e.ticks /\ e.ticks < Wide

-----------------------------------------------------------------------------
(* The engines.                                                            *)

DateKind == [date |-> "date", datetime |-> "datetime", datetimeEpoch |-> "epoch"]

Distance(a, b) == IF a < b THEN b - a ELSE a - b

\* validateInput finds nothing wrong.  An attachment is a hash to one core
\* and a hash with a size to the other.
Accepts(core, f, v) ==
  \/ f.type \in {"text", "textarea"} /\ AcceptsText(f, v)
  \/ f.type = "secretInput" /\ AcceptsSecret(core, f, v)
  \/ f.type = "number" /\ AcceptsNumber(f, v)
  \/ f.type = "select" /\ AcceptsSelect(core, f, v)
  \/ f.type = "selectv2" /\ AcceptsSelectV2(f, v)
  \/ f.type \in DOMAIN DateKind /\ AcceptsDate(core, DateKind[f.type], v)
  \/ f.type = "location" /\ v.kind = "point"
  \/ f.type = "attachment"
       /\ v.kind = IF core = "ts" THEN "hash" ELSE "reference"

Encode(core, f, v) ==
  CASE f.type \in {"text", "textarea"} -> Normalize(v)
    [] f.type = "number" -> EncodeNumber(core, v)
    [] f.type = "location" ->
         [v EXCEPT !.at = IF core = "ts" THEN RoundUp(@) ELSE RoundEven(@)]
    [] OTHER -> v

\* validateField, for a stored value that is there and is not stripped.
FieldState(core, f, stored, env) ==
  LET e == Decoded(core, stored)
  IN IF f.type = "location"
     THEN IF env.place = NoPlace THEN "cannotVerify"
          ELSE IF Distance(env.place, e.at) <= f.radius THEN "valid"
          ELSE "invalid"
     ELSE IF /\ Accepts(core, f, e)
             /\ f.type \in DOMAIN DateKind => DateHolds(core, f, e, env)
          THEN "valid" ELSE "invalid"

\* String(value): Python writes a whole float with `.0'.
Written(core, v) ==
  IF v.kind \in {"number", "bigint"}
  THEN [kind |-> "digits", ticks |-> v.ticks, exp |-> v.exp,
        point |-> core = "python" /\ v.float /\ v.exp = 0 /\ IsWhole(v)]
  ELSE v

\* Blanks and line breaks at the ends of a text.
Trim(v) ==
  IF v.kind = "text" THEN [v EXCEPT !.pad = 0]
  ELSE IF v.kind \in {"date", "datetime"} THEN [v EXCEPT !.loose = FALSE]
  ELSE v

\* Mutant: the answer is trimmed, and what it is compared with is not.
PresentableUntrimmed(core, stored) == Written(core, Decoded(core, stored))

\* What the verifier compares an answer with.
Presentable(core, stored) == Trim(Written(core, Decoded(core, stored)))
=============================================================================
