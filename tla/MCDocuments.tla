---------------------------- MODULE MCDocuments ----------------------------
(***************************************************************************)
(* One or two fields of each type, with the values that the engines treat  *)
(* differently.  1 is four ticks (two tenth decimals), and the integers    *)
(* that take four bytes, are unsafe or do not fit begin at 2, 8 and 16;    *)
(* the clocks are the end of a Friday and the beginning of the Saturday    *)
(* that follows it, and the day after it is that of January 2038.          *)
(***************************************************************************)
EXTENDS Documents, TLC

CONSTANTS NoValue

A(type) == [type |-> type, required |-> "unstated", min |-> 0, max |-> Far,
            options |-> 2, ruleOptions |-> Far, binding |-> "none",
            rules |-> <<>>, radius |-> 0, default |-> NoValue]

Text(points, composed, astral) ==
  [kind |-> "text", points |-> points, composed |-> composed, astral |-> astral,
   pad |-> 0]
Padded(text) == [text EXCEPT !.pad = 1]
Number(ticks, exp, float) ==
  [kind |-> "number", ticks |-> ticks, exp |-> exp, float |-> float]
Option(n) == [kind |-> "option", choice |-> n]
Index(n) == [kind |-> "index", choice |-> n]
At(kind, t) == [kind |-> kind, at |-> t, loose |-> FALSE]
Point(p) == [kind |-> "point", at |-> p]

Texts == {Text(2, 2, 0), Text(2, 1, 0), Text(1, 1, 1), Text(0, 0, 0),
          Padded(Text(1, 1, 0))}
Numbers == {Number(n, 0, fl) : n \in {1, 3, 4, -1}, fl \in BOOLEAN}
             \cup {Number(n, 0, FALSE) : n \in {8, -8, -12, 16, 32, 64, -64}}
             \cup {Number(n, 0, TRUE) : n \in {8, 32}}
             \cup {Number(n, 21, TRUE) : n \in {1, -4}} \cup {Number(4, 30, TRUE)}
Friday == 5 * 1440
FridayNight == Friday + 1410
SaturdayMorning == Friday + 1440 + 360

AfterHalf == SaturdayMorning + 1440 + 6

DayRule == [kind |-> "day", op |-> "==", is |-> 5]
TodayRule == [kind |-> "today", op |-> "=="]
WindowRule == [kind |-> "window", lo |-> 360, lop |-> "<", hop |-> "<=", hi |-> 1410]
NightRule == [kind |-> "daytime", is |-> "night"]
AgeRule == [kind |-> "age", op |-> "<=", bound |-> 1, unit |-> "h"]
ClockRule == [kind |-> "clock", op |-> ">=", bound |-> 1080]

SampleRules ==
  {[DayRule EXCEPT !.op = op, !.is = d] : op \in {"==", "!="}, d \in 0..6}
    \cup {[TodayRule EXCEPT !.op = op] : op \in {"<", "<=", ">", ">=", "==", "!="}}
    \cup {[WindowRule EXCEPT !.lop = lop, !.hop = hop] :
            lop \in DOMAIN Flipped, hop \in DOMAIN Flipped}
    \cup {NightRule, [NightRule EXCEPT !.is = "day"], ClockRule}
    \cup {[AgeRule EXCEPT !.op = op, !.unit = u] :
            op \in {"<", "<=", ">", ">=", "=="}, u \in DOMAIN UnitMinutes}
    \cup {[kind |-> "unknown"]}

Moments == {Friday + n : n \in {359, 360, 1079, 1080, 1410, 1440}}
Epochs == Moments \cup {AfterHalf}

\* One field, with a value or without.
Single ==
  LET Of(f, values) == {[schema |-> <<f>>, values |-> <<v>>] :
                          v \in values \cup {NoValue}}
      bound(type) == {[A(type) EXCEPT !.binding = b, !.required = q] :
                        b \in {"none", "inline", "stripped"}, q \in {"no", "unstated"}}
      Dates == {At("date", 5), [At("date", 5) EXCEPT !.loose = TRUE]}
  IN UNION (
       {Of([f EXCEPT !.min = m], Texts) : f \in bound("text") \cup bound("secretInput"), m \in {0, 2}}
       \cup {Of([A("text") EXCEPT !.max = 1, !.required = "yes"], Texts),
             Of([A("textarea") EXCEPT !.min = 2], Texts)}
       \cup {Of([f EXCEPT !.min = m], Numbers) : f \in bound("number"), m \in {-4, 1}}
       \cup {Of([A("number") EXCEPT !.max = 4], Numbers)}
       \cup {Of([f EXCEPT !.ruleOptions = r], {Option(n) : n \in 0..3}) :
               f \in bound("select"), r \in {Far, 0, 1}}
       \cup {Of([A("selectv2") EXCEPT !.ruleOptions = r], {Index(n) : n \in 0..2}) :
               r \in {Far, 0, 1}}
       \cup {Of(f, Dates) : f \in bound("date")}
       \cup {Of([A("date") EXCEPT !.rules = <<r>>, !.default = Now], Dates) :
               r \in SampleRules}
       \cup {Of([A(type) EXCEPT !.rules = r, !.default = Now],
                {At(DateKind[type], t) :
                   t \in IF type = "datetime" THEN Moments ELSE Epochs}) :
               type \in {"datetime", "datetimeEpoch"},
               r \in {<<s>> : s \in SampleRules} \cup {<<WindowRule, NightRule>>}}
       \cup {Of([A("location") EXCEPT !.radius = r], {Point(0), Point(1)}) : r \in 0..1}
       \cup {Of([A("attachment") EXCEPT !.required = "yes"],
                {[kind |-> "hash"], [kind |-> "reference"]})})

\* Two fields: what one of them lacks must count whatever the other has.
Double ==
  LET s == [A("secretInput") EXCEPT !.required = "no"]
      t == [A("text") EXCEPT !.binding = "inline"]
      l == [A("location") EXCEPT !.radius = 1]
      Value == [secretInput |-> Text(1, 1, 1), text |-> Text(2, 1, 0),
                location |-> Point(1)]
  IN {[schema |-> <<f, g>>, values |-> <<Value[f.type], v>>] :
        f \in {s, t, l}, g \in {s, t, l}, v \in {NoValue, Text(2, 1, 0), Point(1)}}

SampleForms == Single \cup Double

\* A date that is a Friday, to be verified on Fridays only.
OneFriday == {[schema |-> <<[A("date") EXCEPT !.rules = <<DayRule>>]>>,
               values |-> <<At("date", 5)>>]}
SampleGuesses == {Text(3, 3, 0), Padded(Text(2, 2, 0))}
SampleFirstDay == -10
SampleClocks == {FridayNight, SaturdayMorning}
SampleOffsets == {0, 120}
SamplePlaces == {0}
=============================================================================
