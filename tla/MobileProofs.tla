---------------------------- MODULE MobileProofs ----------------------------
(***************************************************************************)
(* Proofs about Mobile, for any TCerts, documents, offers, contents of the *)
(* lists when the app starts, and number of calls.                         *)
(***************************************************************************)
EXTENDS Mobile, FiniteSetTheorems, TLAPS

-----------------------------------------------------------------------------
(* The lists.                                                              *)

LEMMA EntriesTyped ==
  ASSUME NEW list \in Lists
  PROVE  EntriesOf(list) \subseteq Entries
BY DEF EntriesOf, Entries, Lists, TcertLists, StatementLists, OnePerTarget

LEMMA CascadeOrderIs ==
  /\ DOMAIN CascadeOrder = 1..13 /\ Len(CascadeOrder) = 13
  /\ CascadeOrder[1] = "attestations" /\ CascadeOrder[2] = "pinned"
  /\ CascadeOrder[3] = "attestations" /\ CascadeOrder[4] = "pinned"
  /\ CascadeOrder[5] = "cas" /\ CascadeOrder[6] = "distrusted"
  /\ CascadeOrder[7] = "archived-tcerts" /\ CascadeOrder[8] = "certificates"
  /\ CascadeOrder[9] = "revoked-tcerts" /\ CascadeOrder[10] = "revoked-keys"
  /\ CascadeOrder[11] = "revoked-attestations"
  /\ CascadeOrder[12] = "blocked-sdocs" /\ CascadeOrder[13] = "sdoc-statements"
BY DEF CascadeOrder, SweepOrder

LEMMA CascadeTyped ==
  ASSUME NEW t \in Tcerts
  PROVE  /\ Cascade(t) \in Seq(Edits) /\ Len(Cascade(t)) = 13
         /\ \A i \in 1..13 :
              /\ Cascade(t)[i].op = IF i <= 2 THEN "load" ELSE "sweep"
              /\ Cascade(t)[i].list = CascadeOrder[i]
<1>1. \A i \in 1..13 : CascadeOrder[i] \in Lists
  BY CascadeOrderIs
  DEF Lists, TcertLists, StatementLists, OnePerTarget
<1>2. t \in Entries
  BY DEF Entries
<1>3. \A i \in 1..13 :
        Edit(IF i <= 2 THEN "load" ELSE "sweep", CascadeOrder[i], t) \in Edits
  BY <1>1, <1>2 DEF Edit, Edits
<1>4. Cascade(t) = [i \in 1..13 |->
        Edit(IF i <= 2 THEN "load" ELSE "sweep", CascadeOrder[i], t)]
  BY CascadeOrderIs DEF Cascade
<1>. QED BY <1>3, <1>4 DEF Edit

LEMMA EmptyKept == Nothing \in Disks /\ WellKept(Nothing)
BY DEF Nothing, Disks, WellKept, Lists, StatementLists, OnePerTarget

LEMMA UpdateKept ==
  ASSUME NEW D \in Disks, WellKept(D), NEW list \in Lists,
         NEW value, value \subseteq EntriesOf(list),
         list \in OnePerTarget => \A x, y \in value : x.of = y.of => x = y
  PROVE  /\ [D EXCEPT ![list] = value] \in Disks
         /\ WellKept([D EXCEPT ![list] = value])
<1>1. value \subseteq Entries
  BY EntriesTyped
<1>2. OnePerTarget \subseteq Lists
  BY DEF Lists, StatementLists
<1>. QED BY <1>1, <1>2 DEF Disks, WellKept

LEMMA PutKept ==
  ASSUME NEW D \in Disks, WellKept(D), NEW list \in Lists,
         NEW e \in EntriesOf(list)
  PROVE  /\ Put(list, D[list], e) \subseteq EntriesOf(list)
         /\ list \in OnePerTarget =>
              \A x, y \in Put(list, D[list], e) : x.of = y.of => x = y
BY DEF WellKept, Put

LEMMA DropKept ==
  ASSUME NEW D \in Disks, WellKept(D), NEW list \in Lists, NEW e, NEW t,
         NEW removed
  PROVE  /\ Drop(list, D[list], e) \subseteq D[list]
         /\ Swept(list, D[list], t, removed) \subseteq D[list]
BY DEF Drop, Swept

LEMMA AttestingTyped ==
  ASSUME NEW D \in Disks, WellKept(D), NEW t
  PROVE  Attesting(D, t) \subseteq Tcerts
<1>1. D["attestations"] \subseteq [of: Tcerts, by: Tcerts]
  BY DEF WellKept, EntriesOf, Lists, TcertLists, StatementLists
<1>. QED BY <1>1 DEF Attesting

LEMMA OrphansTyped ==
  ASSUME NEW D \in Disks, WellKept(D), NEW t
  PROVE  Orphans(t, D["attestations"], D["pinned"]) \subseteq Tcerts
<1>1. D["attestations"] \subseteq [of: Tcerts, by: Tcerts]
  BY DEF WellKept, EntriesOf, Lists, TcertLists, StatementLists
<1>. QED BY <1>1 DEF Orphans, Targets

-----------------------------------------------------------------------------
(* Types.                                                                  *)

LEMMA IdleTyped == Idle \in CallRecords /\ IsFiniteSet(Idle.objects)
<1>1. <<>> \in Seq(Edits) /\ IsFiniteSet({})
  BY FS_EmptySet
<1>. QED BY <1>1, EmptyKept DEF Idle, CallRecords

LEMMA UnstartedTyped ==
  ASSUME NEW x \in Docs
  PROVE  Unstarted(x) \in CheckRecords
BY DEF Unstarted, CheckRecords

LEMMA UnseenTyped ==
  Unseen \in [acceptable: BOOLEAN, beside: 0..2]
BY DEF Unseen

LEMMA AtMostTwoTyped ==
  ASSUME NEW n \in Nat
  PROVE  AtMostTwo(n) \in 0..2
BY DEF AtMostTwo

LEMMA AcceptableTyped ==
  ASSUME NEW rule, NEW D, NEW x
  PROVE  Acceptable(rule, D, x) \in BOOLEAN
BY DEF Acceptable

\* What TypeOK and CallsInOrder say of the call of one caller.
TypedCall(c, r) ==
  /\ r \in CallRecords /\ WellKept(r.read) /\ IsFiniteSet(r.objects)
  /\ \A i \in DOMAIN r.todo :
       r.todo[i].op = "put" => r.todo[i].entry \in EntriesOf(r.todo[i].list)
  /\ InOrder(r)
  /\ c = "user" => r.objects = {}
  /\ c = "import" =>
       /\ r.tcert = NoTcert
       /\ \A i \in 1..Len(r.todo) : r.todo[i].list \notin {"pinned", "cas"}

Typed == TypeOK /\ CallsInOrder

LEMMA TypedCalls ==
  ASSUME Typed, NEW c \in Callers
  PROVE  TypedCall(c, call[c])
BY DEF Typed, TypeOK, CallsInOrder, TypedCall

LEMMA CallTyped ==
  ASSUME Typed, NEW c \in Callers, NEW r, TypedCall(c, r),
         call' = [call EXCEPT ![c] = r]
  PROVE  /\ call' \in [Callers -> CallRecords]
         /\ \A o \in Callers : WellKept(call'[o].read)
              /\ IsFiniteSet(call'[o].objects)
              /\ \A i \in DOMAIN call'[o].todo :
                   call'[o].todo[i].op = "put" =>
                     call'[o].todo[i].entry \in EntriesOf(call'[o].todo[i].list)
         /\ CallsInOrder'
<1>1. ASSUME NEW o \in Callers PROVE TypedCall(o, call'[o])
  <2>1. CASE o = c
    BY <2>1 DEF Typed, TypeOK
  <2>2. CASE o # c
    <3>1. call'[o] = call[o]
      BY <2>2 DEF Typed, TypeOK
    <3>. QED BY <3>1, TypedCalls
  <2>. QED BY <2>1, <2>2
<1>2. call' \in [Callers -> CallRecords]
  BY DEF Typed, TypeOK, TypedCall
<1>. QED BY <1>1, <1>2 DEF TypedCall, CallsInOrder, Callers

LEMMA IdleCallTyped ==
  ASSUME NEW c \in Callers
  PROVE  TypedCall(c, Idle)
<1>1. Idle.todo = <<>> /\ Idle.tcert = NoTcert /\ Idle.objects = {}
      /\ Idle.read = Nothing
  BY DEF Idle
<1>2. InOrder(Idle)
  BY <1>1 DEF InOrder
<1>. QED BY <1>1, <1>2, IdleTyped, EmptyKept DEF TypedCall

LEMMA BeginTyped ==
  ASSUME Typed, NEW c \in Callers, NEW r, TypedCall(c, r), Begin(c, r)
  PROVE  Typed'
<1>1. call' = [call EXCEPT ![c] = r]
  BY DEF Begin
<1>3. calls' \in Nat /\ allowed' \subseteq Docs
  BY DEF Begin, Typed, TypeOK, AcceptableDocs
<1>4. Cardinality(r.objects) \in Nat
  BY FS_CardinalityType DEF TypedCall
<1>5. AtMostTwo(seen.beside + (IF r.objects = {} THEN 1
                               ELSE Cardinality(r.objects))) \in 0..2
  BY <1>4, AtMostTwoTyped DEF Typed, TypeOK
<1>6. seen' \in [acceptable: BOOLEAN, beside: 0..2]
  BY <1>5 DEF Begin, Typed, TypeOK
<1>7. UNCHANGED <<disk, check, policy>>
  BY DEF Begin
<1>. QED BY <1>1, <1>3, <1>6, <1>7, CallTyped DEF Typed, TypeOK

LEMMA SingleEditTyped ==
  ASSUME NEW op \in {"put", "drop"}, NEW list \in TcertLists, NEW t \in Tcerts
  PROVE  TypedCall("user", [Idle EXCEPT !.todo = <<Edit(op, list, t)>>])
<1>1. list \in Lists /\ t \in Entries /\ t \in EntriesOf(list)
  BY DEF Lists, TcertLists, Entries, EntriesOf
<1>2. Edit(op, list, t) \in Edits
  BY <1>1 DEF Edit, Edits
<1>3. PICK todo : todo = <<Edit(op, list, t)>>
  OBVIOUS
<1>4. todo \in Seq(Edits) /\ Len(todo) = 1 /\ todo[1] = Edit(op, list, t)
  BY <1>2, <1>3
<1>5. PICK r : r = [Idle EXCEPT !.todo = todo]
  OBVIOUS
<1>6. r \in CallRecords
  BY <1>4, <1>5, IdleTyped DEF CallRecords
<1>7. r.todo = todo /\ r.read = Nothing /\ r.objects = {} /\ r.tcert = NoTcert
  BY <1>5 DEF Idle
<1>8. InOrder(r)
  <2>1. todo[1].op \in {"put", "drop"}
    BY <1>4 DEF Edit
  <2>2. \A i \in 1..Len(todo) : i = 1
    BY <1>4
  <2>. QED BY <1>7, <2>1, <2>2 DEF InOrder
<1>9. IsFiniteSet({})
  BY FS_EmptySet
<1>10. TypedCall("user", r)
  BY <1>1, <1>4, <1>6, <1>7, <1>8, <1>9, EmptyKept DEF TypedCall, Edit
<1>. QED BY <1>3, <1>5, <1>10

LEMMA RemovalTyped ==
  ASSUME NEW t \in Tcerts
  PROVE  TypedCall("user", [Idle EXCEPT !.tcert = t, !.todo = Cascade(t)])
<1>1. PICK r : r = [Idle EXCEPT !.tcert = t, !.todo = Cascade(t)]
  OBVIOUS
<1>2. r \in CallRecords
  BY <1>1, CascadeTyped, IdleTyped DEF CallRecords
<1>3. r.todo = Cascade(t) /\ r.read = Nothing /\ r.objects = {} /\ r.tcert = t
  BY <1>1 DEF Idle
<1>4. InOrder(r)
  <2>1. t # NoTcert
    BY MobileAssumption
  <2>2. Len(Cascade(t)) = 13
    BY CascadeTyped
  <2>. QED BY <1>3, <2>1, <2>2, CascadeOrderIs DEF InOrder
<1>5. \A i \in DOMAIN r.todo : r.todo[i].op # "put"
  <2>1. DOMAIN Cascade(t) = 1..13
    BY CascadeTyped
  <2>. QED BY <1>3, <2>1, CascadeTyped
<1>6. IsFiniteSet({})
  BY FS_EmptySet
<1>7. TypedCall("user", r)
  BY <1>2, <1>3, <1>4, <1>5, <1>6, EmptyKept DEF TypedCall
<1>. QED BY <1>1, <1>7

LEMMA ImportTyped ==
  ASSUME NEW offer \in Offers
  PROVE  TypedCall("import", [Idle EXCEPT !.objects = offer])
<1>1. offer \subseteq Objects /\ IsFiniteSet(offer)
  BY MobileAssumption
<1>2. PICK r : r = [Idle EXCEPT !.objects = offer]
  OBVIOUS
<1>3. r \in CallRecords
  BY <1>1, <1>2, IdleTyped DEF CallRecords
<1>4. r.todo = <<>> /\ r.read = Nothing /\ r.objects = offer
      /\ r.tcert = NoTcert
  BY <1>2 DEF Idle
<1>5. InOrder(r)
  BY <1>4 DEF InOrder
<1>6. TypedCall("import", r)
  BY <1>1, <1>3, <1>4, <1>5, EmptyKept DEF TypedCall
<1>. QED BY <1>2, <1>6

\* An imported statement becomes edits of the lists for its action.
LEMMA EditsTyped ==
  ASSUME NEW o \in Objects, NEW by \in Tcerts, o.action # "tcert",
         NEW edits, edits = EditsFor(o, by)
  PROVE  /\ edits \in Seq(Edits)
         /\ \A i \in DOMAIN edits :
              /\ edits[i].entry \in EntriesOf(edits[i].list)
              /\ edits[i].list \notin {"pinned", "cas"}
              /\ edits[i].op \in {"put", "drop"}
              /\ i > 1 => edits[i].list = "sdoc-statements"
<1> DEFINE e == [of |-> o.of, by |-> by]
<1>1. /\ o.action \in {"attest", "revokeTcert", "revokeAttestation"} =>
           o.of \in Tcerts
      /\ o.action = "revokeKey" => o.of \in SigningKeys
      /\ o.action \in {"blockSdoc", "unblockSdoc"} => o.of \in Docs
      /\ o.action \in {"attest", "revokeTcert", "revokeAttestation",
                       "revokeKey", "blockSdoc", "unblockSdoc"}
  BY DEF Objects
<1>2. e \in Entries
  BY <1>1 DEF Entries
<1>3. \A op \in {"put", "drop"}, list \in Lists : Edit(op, list, e) \in Edits
  BY <1>2 DEF Edit, Edits
<1>4. /\ EntriesOf("attestations") = [of: Tcerts, by: Tcerts]
      /\ EntriesOf("revoked-tcerts") = [of: Tcerts, by: Tcerts]
      /\ EntriesOf("revoked-attestations") = [of: Tcerts, by: Tcerts]
      /\ EntriesOf("revoked-keys") = [of: SigningKeys, by: Tcerts]
      /\ EntriesOf("blocked-sdocs") = [of: Docs, by: Tcerts]
      /\ EntriesOf("sdoc-statements") = [of: Docs, by: Tcerts]
  BY DEF EntriesOf, TcertLists
<1>5. {"attestations", "revoked-tcerts", "revoked-attestations",
       "revoked-keys", "blocked-sdocs", "sdoc-statements"} \subseteq Lists
  BY DEF Lists, StatementLists, OnePerTarget
<1>s. ASSUME NEW list \in Lists \ {"pinned", "cas"}, e \in EntriesOf(list),
             edits = <<Edit("put", list, e)>>
      PROVE  /\ edits \in Seq(Edits)
             /\ \A i \in DOMAIN edits :
                  /\ edits[i].entry \in EntriesOf(edits[i].list)
                  /\ edits[i].list \notin {"pinned", "cas"}
                  /\ edits[i].op \in {"put", "drop"}
                  /\ i > 1 => edits[i].list = "sdoc-statements"
  <2>1. Edit("put", list, e) \in Edits
    BY <1>3
  <2>2. edits \in Seq(Edits) /\ DOMAIN edits = {1}
        /\ edits[1] = Edit("put", list, e)
    BY <1>s, <2>1
  <2>. HIDE DEF e
  <2>. QED BY <1>s, <2>2 DEF Edit
<1>6. CASE o.action = "attest"
  <2>1. edits = <<Edit("put", "attestations", e)>>
    BY <1>6 DEF EditsFor
  <2>2. e \in EntriesOf("attestations")
    BY <1>1, <1>4, <1>6
  <2>. QED BY <1>5, <1>s, <2>1, <2>2
<1>7. CASE o.action = "revokeTcert"
  <2>1. edits = <<Edit("put", "revoked-tcerts", e)>>
    BY <1>7 DEF EditsFor
  <2>2. e \in EntriesOf("revoked-tcerts")
    BY <1>1, <1>4, <1>7
  <2>. QED BY <1>5, <1>s, <2>1, <2>2
<1>8. CASE o.action = "revokeKey"
  <2>1. edits = <<Edit("put", "revoked-keys", e)>>
    BY <1>8 DEF EditsFor
  <2>2. e \in EntriesOf("revoked-keys")
    BY <1>1, <1>4, <1>8
  <2>. QED BY <1>5, <1>s, <2>1, <2>2
<1>9. CASE o.action = "revokeAttestation"
  <2>1. edits = <<Edit("put", "revoked-attestations", e)>> \/ edits = <<>>
    BY <1>9 DEF EditsFor
  <2>2. e \in EntriesOf("revoked-attestations")
    BY <1>1, <1>4, <1>9
  <2>3. CASE edits = <<>>
    BY <2>3
  <2>. QED BY <1>5, <1>s, <2>1, <2>2, <2>3
<1>10. CASE o.action \in {"blockSdoc", "unblockSdoc"}
  <2>1. PICK op \in {"put", "drop"} :
          edits = <<Edit(op, "blocked-sdocs", e),
                    Edit("put", "sdoc-statements", e)>>
    BY <1>10 DEF EditsFor
  <2>2. Edit(op, "blocked-sdocs", e) \in Edits
        /\ Edit("put", "sdoc-statements", e) \in Edits
    BY <1>3, <1>5
  <2>3. edits \in Seq(Edits) /\ Len(edits) = 2
        /\ edits[1] = Edit(op, "blocked-sdocs", e)
        /\ edits[2] = Edit("put", "sdoc-statements", e)
    BY <2>1, <2>2
  <2>4. e \in EntriesOf("blocked-sdocs") /\ e \in EntriesOf("sdoc-statements")
    BY <1>1, <1>4, <1>10
  <2>. QED BY <2>3, <2>4 DEF Edit
<1>. QED BY <1>1, <1>6, <1>7, <1>8, <1>9, <1>10

LEMMA TakeObjectTyped ==
  ASSUME Typed, NEW o \in call["import"].objects, TakeObject(o)
  PROVE  Typed'
<1>1. PICK r : r = call["import"]
  OBVIOUS
<1>2. "import" \in Callers /\ TypedCall("import", r) /\ o \in Objects
  <2>1. "import" \in Callers
    BY DEF Callers
  <2>. QED BY <1>1, <2>1, TypedCalls DEF TypedCall, CallRecords
<1>3. PICK edits \in
          IF o.action = "tcert" THEN {<<Edit("put", "certificates", o.of)>>}
          ELSE IF SignerTcerts(o.signer) = {} THEN {<<>>}
          ELSE {EditsFor(o, by) : by \in SignerTcerts(o.signer)} :
        call' = [call EXCEPT !["import"].objects = @ \ {o},
                             !["import"].todo = edits]
  BY DEF TakeObject
<1>4. /\ edits \in Seq(Edits)
      /\ \A i \in 1..Len(edits) :
           /\ edits[i].entry \in EntriesOf(edits[i].list)
           /\ edits[i].list \notin {"pinned", "cas"}
           /\ edits[i].op \in {"put", "drop"}
           /\ i > 1 => edits[i].list = "sdoc-statements"
  <2>1. CASE o.action = "tcert"
    <3>1. o.of \in Tcerts
      BY <1>2, <2>1 DEF Objects
    <3>2. Edit("put", "certificates", o.of) \in Edits
          /\ o.of \in EntriesOf("certificates")
      BY <3>1
      DEF Edit, Edits, Entries, Lists, TcertLists, EntriesOf
    <3>3. edits = <<Edit("put", "certificates", o.of)>>
      BY <1>3, <2>1
    <3>4. edits \in Seq(Edits) /\ Len(edits) = 1
          /\ edits[1] = Edit("put", "certificates", o.of)
      BY <3>2, <3>3
    <3>. QED BY <3>2, <3>4 DEF Edit
  <2>2. CASE o.action # "tcert" /\ SignerTcerts(o.signer) = {}
    BY <1>3, <2>2
  <2>3. CASE o.action # "tcert" /\ SignerTcerts(o.signer) # {}
    <3>1. PICK by \in SignerTcerts(o.signer) : edits = EditsFor(o, by)
      BY <1>3, <2>3
    <3>2. disk["certificates"] \subseteq Tcerts
      BY DEF Typed, TypeOK, WellKept, EntriesOf, Lists, TcertLists
    <3>3. by \in Tcerts
      BY <3>2 DEF SignerTcerts
    <3>4. edits \in Seq(Edits) /\ DOMAIN edits = 1..Len(edits)
      BY <1>2, <2>3, <3>1, <3>3, EditsTyped
    <3>. QED BY <1>2, <2>3, <3>1, <3>3, <3>4, EditsTyped
  <2>. QED BY <2>1, <2>2, <2>3
<1>5. PICK new : new = [r EXCEPT !.objects = @ \ {o}, !.todo = edits]
  OBVIOUS
<1>6. call' = [call EXCEPT !["import"] = new]
  BY <1>1, <1>2, <1>3, <1>5 DEF Typed, TypeOK
<1>7. new \in CallRecords /\ new.todo = edits /\ new.read = r.read
      /\ new.objects = r.objects \ {o} /\ new.tcert = NoTcert
  BY <1>2, <1>4, <1>5 DEF CallRecords, TypedCall
<1>8. IsFiniteSet(r.objects \ {o})
  BY <1>2, FS_RemoveElement DEF TypedCall
<1>9. InOrder(new)
  BY <1>4, <1>7 DEF InOrder
<1>10. TypedCall("import", new)
  BY <1>2, <1>4, <1>7, <1>8, <1>9 DEF TypedCall
<1>11. UNCHANGED <<disk, check, policy, calls, allowed, seen>>
  BY DEF TakeObject
<1>. QED BY <1>2, <1>6, <1>10, <1>11, CallTyped DEF Typed, TypeOK

LEMMA HeadTail ==
  ASSUME NEW S, NEW s \in Seq(S), s # <<>>
  PROVE  /\ Head(s) \in S /\ Head(s) = s[1] /\ Len(s) \in Nat \ {0}
         /\ Tail(s) \in Seq(S) /\ Len(Tail(s)) = Len(s) - 1
         /\ \A i \in 1..Len(Tail(s)) : Tail(s)[i] = s[i + 1]
OBVIOUS

\* What a read and a write make of the call.
LEMMA AfterReadIs ==
  ASSUME NEW r \in CallRecords, r.todo # <<>>, NEW value
  PROVE  LET e == Head(r.todo)
             n == AfterRead(r, value)
         IN /\ n.todo = IF e.op = "load" THEN Tail(r.todo) ELSE r.todo
            /\ n.read = [r.read EXCEPT ![e.list] = value]
            /\ n.fetched = r.fetched \cup {e.list}
            /\ n.tcert = r.tcert /\ n.objects = r.objects
            /\ n.removed = IF e.op = "load" /\ e.list = "pinned"
                           THEN {r.tcert} \cup Orphans(r.tcert,
                                  n.read["attestations"], n.read["pinned"])
                           ELSE r.removed
            /\ n = [todo |-> n.todo, fetched |-> n.fetched, read |-> n.read,
                    tcert |-> n.tcert, removed |-> n.removed,
                    objects |-> n.objects]
<1>1. PICK e, n : e = Head(r.todo) /\ n = AfterRead(r, value)
  OBVIOUS
<1>2. PICK read : read = [r.read EXCEPT ![e.list] = value]
  OBVIOUS
<1>3. PICK todo, removed :
         /\ todo = IF e.op = "load" THEN Tail(r.todo) ELSE r.todo
         /\ removed = IF e.op = "load" /\ e.list = "pinned"
                      THEN {r.tcert} \cup Orphans(r.tcert,
                             read["attestations"], read["pinned"])
                      ELSE r.removed
  OBVIOUS
<1>4. n = [r EXCEPT !.read = read, !.fetched = @ \cup {e.list},
             !.todo = todo, !.removed = removed]
  BY <1>1, <1>2, <1>3 DEF AfterRead
<1>5. /\ n.todo = todo /\ n.read = read /\ n.fetched = r.fetched \cup {e.list}
      /\ n.tcert = r.tcert /\ n.objects = r.objects /\ n.removed = removed
      /\ n = [todo |-> n.todo, fetched |-> n.fetched, read |-> n.read,
              tcert |-> n.tcert, removed |-> n.removed, objects |-> n.objects]
  BY <1>4 DEF CallRecords
<1>. QED BY <1>1, <1>2, <1>3, <1>5

LEMMA AfterWriteIs ==
  ASSUME NEW r \in CallRecords, r.todo # <<>>
  PROVE  LET e == Head(r.todo)
             n == AfterWrite(r)
         IN /\ Len(r.todo) = 1 /\ r.objects = {} => n = Idle
            /\ ~(Len(r.todo) = 1 /\ r.objects = {}) =>
                 /\ n.todo = Tail(r.todo)
                 /\ n.read = [r.read EXCEPT ![e.list] = {}]
                 /\ n.fetched = r.fetched \ {e.list}
                 /\ n.tcert = r.tcert /\ n.objects = r.objects
                 /\ n.removed = r.removed
                 /\ n = [todo |-> n.todo, fetched |-> n.fetched,
                         read |-> n.read, tcert |-> n.tcert,
                         removed |-> n.removed, objects |-> n.objects]
<1>1. PICK e, n : e = Head(r.todo) /\ n = AfterWrite(r)
  OBVIOUS
<1>2. CASE Len(r.todo) = 1 /\ r.objects = {}
  BY <1>2 DEF AfterWrite
<1>3. CASE ~(Len(r.todo) = 1 /\ r.objects = {})
  <2>1. PICK read : read = [r.read EXCEPT ![e.list] = {}]
    OBVIOUS
  <2>2. n = [r EXCEPT !.todo = Tail(r.todo),
                      !.fetched = r.fetched \ {e.list}, !.read = read]
    BY <1>1, <1>3, <2>1 DEF AfterWrite, CallRecords
  <2>3. /\ n.todo = Tail(r.todo) /\ n.read = read
        /\ n.fetched = r.fetched \ {e.list}
        /\ n.tcert = r.tcert /\ n.objects = r.objects /\ n.removed = r.removed
        /\ n = [todo |-> n.todo, fetched |-> n.fetched, read |-> n.read,
                tcert |-> n.tcert, removed |-> n.removed,
                objects |-> n.objects]
    BY <2>2 DEF CallRecords
  <2>. QED BY <1>1, <1>3, <2>1, <2>3
<1>. QED BY <1>2, <1>3

\* A call that has done its first edit, and is not at its end, is in order.
LEMMA TailInOrder ==
  ASSUME NEW r \in CallRecords, InOrder(r), r.todo # <<>>,
         NEW n \in CallRecords, n.tcert = r.tcert, n.todo = Tail(r.todo),
         r.tcert = NoTcert \/ Len(r.todo) > 1
  PROVE  InOrder(n)
<1>1. /\ r.todo \in Seq(Edits) /\ Len(r.todo) \in Nat \ {0}
      /\ Len(n.todo) = Len(r.todo) - 1
      /\ \A i \in 1..Len(n.todo) : n.todo[i] = r.todo[i + 1]
  BY HeadTail DEF CallRecords
<1>2. CASE r.tcert = NoTcert
  BY <1>1, <1>2 DEF InOrder
<1>3. CASE r.tcert # NoTcert
  <2>1. Len(n.todo) \in 1..Len(CascadeOrder)
    <3>1. Len(r.todo) \in 1..13 /\ Len(r.todo) > 1
      BY <1>3, CascadeOrderIs DEF InOrder
    <3>2. \A m \in 1..13 : m > 1 => m - 1 \in 1..13
      OBVIOUS
    <3>. QED BY <1>1, <3>1, <3>2, CascadeOrderIs
  <2>2. ASSUME NEW i \in 1..Len(n.todo)
        PROVE  n.todo[i]
                 = Cascade(r.tcert)[Len(CascadeOrder) - Len(n.todo) + i]
    <3>1. \A m \in Nat \ {0} : \A j \in 1..m - 1 :
            j + 1 \in 1..m /\ 13 - m + (j + 1) = 13 - (m - 1) + j
      OBVIOUS
    <3>2. /\ i + 1 \in 1..Len(r.todo)
          /\ 13 - Len(r.todo) + (i + 1) = 13 - Len(n.todo) + i
      BY <1>1, <3>1
    <3>3. r.todo[i + 1] = Cascade(r.tcert)[13 - Len(r.todo) + (i + 1)]
      BY <1>3, <3>2, CascadeOrderIs DEF InOrder
    <3>. QED BY <1>1, <3>2, <3>3, CascadeOrderIs
  <2>. QED BY <1>3, <2>1, <2>2 DEF InOrder
<1>. QED BY <1>2, <1>3

\* Where a removal is, by what it has still to do.
LEMMA CurrentOfRemoval ==
  ASSUME NEW r \in CallRecords, InOrder(r), r.tcert # NoTcert
  PROVE  /\ r.tcert \in Tcerts /\ r.todo # <<>> /\ r.todo \in Seq(Edits)
         /\ Len(r.todo) \in 1..13
         /\ \A i \in 1..Len(r.todo) :
              /\ r.todo[i].list = CascadeOrder[13 - Len(r.todo) + i]
              /\ r.todo[i].op = IF 13 - Len(r.todo) + i <= 2
                                THEN "load" ELSE "sweep"
<1>1. /\ r.tcert \in Tcerts /\ Len(r.todo) \in 1..13
      /\ r.todo \in Seq(Edits)
      /\ \A i \in 1..Len(r.todo) :
           r.todo[i] = Cascade(r.tcert)[13 - Len(r.todo) + i]
  BY CascadeOrderIs DEF CallRecords, InOrder
<1>2. \A n \in 1..13 : \A i \in 1..n : 13 - n + i \in 1..13
  OBVIOUS
<1>3. \A i \in 1..Len(r.todo) : 13 - Len(r.todo) + i \in 1..13
  BY <1>1, <1>2
<1>4. \A i \in 1..13 :
        /\ Cascade(r.tcert)[i].op = IF i <= 2 THEN "load" ELSE "sweep"
        /\ Cascade(r.tcert)[i].list = CascadeOrder[i]
  BY <1>1, CascadeTyped
<1>5. r.todo # <<>>
  <2>1. Len(r.todo) # 0
    <3>1. \A n \in 1..13 : n # 0
      OBVIOUS
    <3>. QED BY <1>1, <3>1
  <2>2. \A s \in Seq(Edits) : Len(s) # 0 => s # <<>>
    OBVIOUS
  <2>. QED BY <1>1, <2>1, <2>2
<1>6. ASSUME NEW i \in 1..Len(r.todo)
      PROVE  /\ r.todo[i].list = CascadeOrder[13 - Len(r.todo) + i]
             /\ r.todo[i].op = IF 13 - Len(r.todo) + i <= 2
                               THEN "load" ELSE "sweep"
  <2>1. PICK j \in 1..13 : j = 13 - Len(r.todo) + i
    BY <1>3
  <2>2. r.todo[i] = Cascade(r.tcert)[j]
    BY <1>1, <2>1
  <2>3. r.todo[i].list = CascadeOrder[j]
        /\ r.todo[i].op = IF j <= 2 THEN "load" ELSE "sweep"
    BY <1>4, <2>2
  <2>. QED BY <2>1, <2>3
<1>. QED BY <1>1, <1>5, <1>6

LEMMA ReadTyped ==
  ASSUME Typed, NEW c \in Callers, Read(c)
  PROVE  Typed'
<1>1. PICK r : r = call[c]
  OBVIOUS
<1>2. PICK e : e = Current(c)
  OBVIOUS
<1>3. PICK list : list = e.list
  OBVIOUS
<1>4. PICK read : read = [r.read EXCEPT ![list] = disk[list]]
  OBVIOUS
<1>5. PICK new : new = AfterRead(r, disk[list])
  OBVIOUS
<1>6. TypedCall(c, r) /\ r.todo \in Seq(Edits) /\ r.todo # <<>>
      /\ r \in CallRecords /\ Head(r.todo) = e
  BY <1>1, <1>2, TypedCalls DEF Read, TypedCall, CallRecords, Current
<1>7. /\ e \in Edits /\ list \in Lists /\ e = r.todo[1]
      /\ Len(r.todo) \in Nat \ {0} /\ 1 \in 1..Len(r.todo)
  <2>1. e \in Edits /\ e = r.todo[1] /\ Len(r.todo) \in Nat \ {0}
    BY <1>6, HeadTail
  <2>. QED BY <1>3, <2>1 DEF Edits
<1>8. read \in Disks /\ WellKept(read)
  <2>1. /\ disk[list] \subseteq EntriesOf(list)
        /\ list \in OnePerTarget =>
             \A x, y \in disk[list] : x.of = y.of => x = y
    BY <1>7 DEF Typed, TypeOK, WellKept
  <2>2. r.read \in Disks /\ WellKept(r.read)
    BY <1>6 DEF TypedCall, CallRecords
  <2>. QED BY <1>4, <1>7, <2>1, <2>2, UpdateKept
<1>9. Orphans(r.tcert, read["attestations"], read["pinned"]) \subseteq Tcerts
  BY <1>8, OrphansTyped
<1>10. ASSUME e.op = "load"
       PROVE  r.tcert # NoTcert /\ r.tcert \in Tcerts /\ Len(r.todo) > 1
  <2>1. r.tcert # NoTcert
    BY <1>6, <1>7, <1>10 DEF TypedCall, InOrder
  <2>. QED
    <3>1. InOrder(r)
      BY <1>6 DEF TypedCall
    <3>2. r.tcert \in Tcerts /\ Len(r.todo) \in 1..13
          /\ e.op = IF 13 - Len(r.todo) + 1 <= 2 THEN "load" ELSE "sweep"
      BY <1>6, <1>7, <2>1, <3>1, CurrentOfRemoval
    <3>3. 13 - Len(r.todo) + 1 <= 2
      BY <1>10, <3>2
    <3>. QED BY <2>1, <3>2, <3>3
<1>11. /\ new.todo = IF e.op = "load" THEN Tail(r.todo) ELSE r.todo
       /\ new.read = read /\ new.tcert = r.tcert /\ new.objects = r.objects
       /\ new.fetched = r.fetched \cup {list}
       /\ new.removed = IF e.op = "load" /\ list = "pinned"
                        THEN {r.tcert} \cup Orphans(r.tcert,
                               read["attestations"], read["pinned"])
                        ELSE r.removed
       /\ new = [todo |-> new.todo, fetched |-> new.fetched,
                 read |-> new.read, tcert |-> new.tcert,
                 removed |-> new.removed, objects |-> new.objects]
  <2>1. PICK n : n = AfterRead(r, disk[list])
    OBVIOUS
  <2>2. n.read = read
    BY <1>3, <1>4, <1>6, <2>1, AfterReadIs
  <2>. QED BY <1>3, <1>5, <1>6, <2>1, <2>2, AfterReadIs
<1>12. new \in CallRecords
  <2>1. new.todo \in Seq(Edits)
    BY <1>6, <1>11, HeadTail
  <2>2. new.removed \subseteq Tcerts
    BY <1>6, <1>9, <1>10, <1>11 DEF CallRecords
  <2>3. new.fetched \subseteq Lists /\ new.tcert \in Tcerts \cup {NoTcert}
        /\ new.objects \subseteq Objects
    BY <1>6, <1>7, <1>11 DEF CallRecords
  <2>. QED BY <1>8, <1>11, <2>1, <2>2, <2>3 DEF CallRecords
<1>13. InOrder(new)
  <2>1. CASE e.op = "load"
    BY <1>6, <1>10, <1>11, <1>12, <2>1, TailInOrder DEF TypedCall
  <2>2. CASE e.op # "load"
    BY <1>6, <1>11, <2>2 DEF TypedCall, InOrder
  <2>. QED BY <2>1, <2>2
<1>14. \A i \in 1..Len(new.todo) : \E j \in 1..Len(r.todo) :
         new.todo[i] = r.todo[j]
  <2>1. CASE e.op = "load"
    <3>1. /\ Len(new.todo) = Len(r.todo) - 1
          /\ \A i \in 1..Len(new.todo) : new.todo[i] = r.todo[i + 1]
      BY <1>6, <1>11, <2>1, HeadTail
    <3>. QED BY <1>7, <3>1
  <2>2. CASE e.op # "load"
    BY <1>11, <2>2
  <2>. QED BY <2>1, <2>2
<1>15. DOMAIN new.todo = 1..Len(new.todo) /\ DOMAIN r.todo = 1..Len(r.todo)
  BY <1>6, <1>12 DEF CallRecords
<1>16. TypedCall(c, new)
  BY <1>6, <1>8, <1>11, <1>12, <1>13, <1>14, <1>15 DEF TypedCall
<1>17. UNCHANGED <<disk, check, policy, calls, allowed, seen>>
  BY DEF Read
<1>18. call' = [call EXCEPT ![c] = new]
  BY <1>1, <1>2, <1>3, <1>5 DEF Read
<1>. QED BY <1>18, <1>16, <1>17, CallTyped DEF Typed, TypeOK

LEMMA WrittenKept ==
  ASSUME Typed, NEW r, r \in CallRecords, WellKept(r.read), NEW e \in Edits,
         e.op = "put" => e.entry \in EntriesOf(e.list), e.op # "load"
  PROVE  LET new == [disk EXCEPT ![e.list] = Written(e, r, disk[e.list])]
         IN new \in Disks /\ WellKept(new)
<1>1. PICK list : list = e.list
  OBVIOUS
<1>2. PICK here : here = Written(e, r, disk[list])
  OBVIOUS
<1>3. list \in Lists /\ r.read \in Disks /\ disk \in Disks /\ WellKept(disk)
  BY <1>1 DEF Edits, CallRecords, Typed, TypeOK
<1>4. /\ disk[list] \subseteq EntriesOf(list)
      /\ r.read[list] \subseteq EntriesOf(list)
      /\ list \in OnePerTarget =>
           /\ \A x, y \in disk[list] : x.of = y.of => x = y
           /\ \A x, y \in r.read[list] : x.of = y.of => x = y
  BY <1>3 DEF WellKept
<1>5. /\ here \subseteq EntriesOf(list)
      /\ list \in OnePerTarget =>
           \A x, y \in here : x.of = y.of => x = y
  <2>1. CASE here = disk[list]
    BY <1>4, <2>1
  <2>2. CASE e.op = "put" /\ here = Put(list, r.read[list], e.entry)
    BY <1>1, <1>3, <2>2, PutKept
  <2>3. CASE here \subseteq r.read[list]
    BY <1>4, <2>3
  <2>4. Drop(list, r.read[list], e.entry) \subseteq r.read[list]
        /\ Swept(list, r.read[list], r.tcert, r.removed) \subseteq r.read[list]
    BY <1>3, DropKept
  <2>5. e.op \in {"put", "drop", "sweep"}
    BY DEF Edits
  <2>. QED BY <1>1, <1>2, <2>1, <2>2, <2>3, <2>4, <2>5 DEF Written
<1>. QED BY <1>1, <1>2, <1>3, <1>5, UpdateKept

LEMMA WriteTyped ==
  ASSUME Typed, NEW c \in Callers, Write(c)
  PROVE  Typed'
<1>1. PICK r : r = call[c]
  OBVIOUS
<1>2. PICK e : e = Current(c)
  OBVIOUS
<1>3. PICK list : list = e.list
  OBVIOUS
<1>4. PICK new : new = AfterWrite(r)
  OBVIOUS
<1>5. TypedCall(c, r) /\ r.todo \in Seq(Edits) /\ r.todo # <<>>
      /\ r \in CallRecords /\ Head(r.todo) = e /\ e.op # "load"
  BY <1>1, <1>2, TypedCalls DEF Write, TypedCall, CallRecords, Current
<1>6. /\ e \in Edits /\ list \in Lists /\ e = r.todo[1]
      /\ Len(r.todo) \in Nat \ {0} /\ 1 \in 1..Len(r.todo)
  <2>1. e \in Edits /\ e = r.todo[1] /\ Len(r.todo) \in Nat \ {0}
    BY <1>5, HeadTail
  <2>. QED BY <1>3, <2>1 DEF Edits
<1>7. disk' \in Disks /\ WellKept(disk)'
  <2>1. e.op = "put" => e.entry \in EntriesOf(e.list)
    BY <1>5, <1>6 DEF TypedCall
  <2>2. disk' = [disk EXCEPT ![e.list] = Written(e, r, disk[e.list])]
    BY <1>1, <1>2 DEF Write
  <2>3. WellKept(r.read)
    BY <1>5 DEF TypedCall
  <2>4. [disk EXCEPT ![e.list] = Written(e, r, disk[e.list])] \in Disks
        /\ WellKept([disk EXCEPT ![e.list] = Written(e, r, disk[e.list])])
    BY <1>5, <1>6, <2>1, <2>3, WrittenKept
  <2>5. disk' \in Disks /\ WellKept(disk')
    BY <2>2, <2>4
  <2>. QED BY <2>5 DEF WellKept
<1>8. TypedCall(c, new)
  <2>1. CASE Len(r.todo) = 1 /\ r.objects = {}
    BY <1>4, <2>1, IdleCallTyped DEF AfterWrite
  <2>2. CASE ~(Len(r.todo) = 1 /\ r.objects = {})
    <3>1. PICK read : read = [r.read EXCEPT ![list] = {}]
      OBVIOUS
    <3>2. read \in Disks /\ WellKept(read)
      <4>1. r.read \in Disks /\ WellKept(r.read)
        BY <1>5 DEF TypedCall, CallRecords
      <4>. QED BY <1>6, <3>1, <4>1, UpdateKept
    <3>3. /\ new.todo = Tail(r.todo)
          /\ new.read = read /\ new.tcert = r.tcert /\ new.objects = r.objects
          /\ new.fetched = r.fetched \ {list} /\ new.removed = r.removed
          /\ new = [todo |-> new.todo, fetched |-> new.fetched,
                    read |-> new.read, tcert |-> new.tcert,
                    removed |-> new.removed, objects |-> new.objects]
      BY <1>3, <1>4, <1>5, <2>2, <3>1, AfterWriteIs
    <3>4. new \in CallRecords
      BY <1>5, <3>2, <3>3, HeadTail DEF CallRecords
    <3>5. r.tcert = NoTcert \/ Len(r.todo) > 1
      <4>1. \A n \in Nat \ {0} : n # 1 => n > 1
        OBVIOUS
      <4>2. c = "user" \/ c = "import"
        BY DEF Callers
      <4>3. Len(r.todo) # 1 \/ r.tcert = NoTcert
        BY <1>5, <2>2, <4>2 DEF TypedCall
      <4>. QED BY <1>6, <4>1, <4>3
    <3>6. InOrder(new)
      BY <1>5, <3>3, <3>4, <3>5, TailInOrder DEF TypedCall
    <3>7. \A i \in 1..Len(new.todo) : \E j \in 1..Len(r.todo) :
            new.todo[i] = r.todo[j]
      <4>1. /\ Len(new.todo) = Len(r.todo) - 1
            /\ \A i \in 1..Len(new.todo) : new.todo[i] = r.todo[i + 1]
        BY <1>5, <3>3, HeadTail
      <4>. QED BY <1>6, <4>1
    <3>8. DOMAIN new.todo = 1..Len(new.todo) /\ DOMAIN r.todo = 1..Len(r.todo)
      BY <1>5, <3>4 DEF CallRecords
    <3>. QED BY <1>5, <3>2, <3>3, <3>4, <3>6, <3>7, <3>8 DEF TypedCall
  <2>. QED BY <2>1, <2>2
<1>9. call' = [call EXCEPT ![c] = new]
  BY <1>1, <1>4 DEF Write
<1>10. UNCHANGED <<check, policy, calls, allowed>>
  BY DEF Write
<1>11. seen' \in [acceptable: BOOLEAN, beside: 0..2]
  BY DEF Write, Typed, TypeOK, Checking
<1>. QED BY <1>7, <1>8, <1>9, <1>10, <1>11, CallTyped DEF Typed, TypeOK

LEMMA StopTyped ==
  ASSUME Typed, Stop
  PROVE  Typed'
<1>1. call' = [c \in Callers |-> Idle]
  BY DEF Stop
<1>2. \A c \in Callers : TypedCall(c, call'[c])
  BY <1>1, IdleCallTyped
<1>3. call' \in [Callers -> CallRecords]
  BY <1>1, IdleTyped
<1>4. CallsInOrder'
  BY <1>2 DEF CallsInOrder, TypedCall, Callers
<1>5. check.doc \in Docs
  BY DEF Typed, TypeOK, CheckRecords
<1>6. check' \in CheckRecords
  BY <1>5, UnstartedTyped DEF Stop
<1>7. seen' \in [acceptable: BOOLEAN, beside: 0..2]
  BY UnseenTyped DEF Stop
<1>8. calls' \in Nat
  BY DEF Stop, Typed, TypeOK
<1>9. UNCHANGED <<disk, policy, allowed>>
  BY DEF Stop
<1>. QED
  BY <1>2, <1>3, <1>4, <1>6, <1>7, <1>8, <1>9
  DEF Typed, TypeOK, TypedCall

LEMMA CallersFinite ==
  ASSUME NEW S \in SUBSET Callers
  PROVE  Cardinality(S) \in Nat /\ IsFiniteSet(S)
<1>1. IsFiniteSet(Callers)
  <2>1. IsFiniteSet({"import"})
    BY FS_Singleton
  <2>2. IsFiniteSet({"import"} \cup {"user"})
    BY <2>1, FS_AddElement
  <2>3. Callers = {"import"} \cup {"user"}
    BY DEF Callers
  <2>. QED BY <2>2, <2>3
<1>. QED BY <1>1, FS_Subset, FS_CardinalityType

LEMMA StartCheckTyped ==
  ASSUME Typed, NEW d \in Docs, StartCheck(d)
  PROVE  Typed'
<1>1. check' \in CheckRecords
  BY UnstartedTyped DEF StartCheck, CheckRecords
<1>2. Cardinality(call["import"].objects) \in Nat
  BY TypedCalls, FS_CardinalityType DEF Callers, TypedCall
<1>3. Cardinality({c \in Callers : Active(c)}) \in Nat
  <2>1. {c \in Callers : Active(c)} \in SUBSET Callers
    OBVIOUS
  <2>. QED BY <2>1, CallersFinite
<1>4. Cardinality({c \in Callers : Outdated(c)}) \in Nat
  <2>1. {c \in Callers : Outdated(c)} \in SUBSET Callers
    OBVIOUS
  <2>. QED BY <2>1, CallersFinite
<1>5. seen'.beside \in 0..2
  BY <1>2, <1>3, <1>4, AtMostTwoTyped DEF StartCheck
<1>6. seen' \in [acceptable: BOOLEAN, beside: 0..2]
  BY <1>5, AcceptableTyped DEF StartCheck
<1>7. calls' \in Nat /\ UNCHANGED <<disk, call, policy, allowed>>
  BY DEF StartCheck, Typed, TypeOK
<1>. QED BY <1>1, <1>6, <1>7 DEF Typed, TypeOK, CallsInOrder

LEMMA ReturnTyped ==
  ASSUME Typed, NEW verdict \in {"valid", "invalid", "cannotVerify"},
         Return(verdict)
  PROVE  /\ check' \in CheckRecords
         /\ seen' \in [acceptable: BOOLEAN, beside: 0..2]
<1>1. check.doc \in Docs
  BY DEF Typed, TypeOK, CheckRecords
<1>2. Unstarted(check.doc) \in CheckRecords
  BY <1>1, UnstartedTyped
<1>3. check' \in CheckRecords
  BY <1>2 DEF Return, CheckRecords
<1>. QED BY <1>3, UnseenTyped DEF Return, Typed, TypeOK

LEMMA HeardTyped ==
  ASSUME NEW read, NEW value, NEW t, NEW trusted, NEW speaking
  PROVE  Heard(read, value, t, speaking, trusted) \subseteq speaking
BY DEF Heard

LEMMA VerificationTyped ==
  ASSUME Typed,
         \/ ReadForCore \/ ReadDistrusted \/ ReadPinned \/ ReadAttestations
         \/ ReadForViews \/ ResolveVerdict
  PROVE  Typed'
<1>1. UNCHANGED <<disk, call, policy, calls, allowed>>
  BY DEF ReadForCore, ReadDistrusted, ReadPinned, ReadAttestations,
         ReadForViews, ResolveVerdict
<1>2. check \in CheckRecords
      /\ seen \in [acceptable: BOOLEAN, beside: 0..2]
  BY DEF Typed, TypeOK
<1>3. PICK next \in Nat : next = check.next + 1
  BY <1>2 DEF CheckRecords
<1>4. /\ check' \in CheckRecords
      /\ seen' \in [acceptable: BOOLEAN, beside: 0..2]
  <2>1. CASE ReadForCore
    <3>1. CASE \E verdict \in {"invalid", "cannotVerify"} : Return(verdict)
      BY <3>1, ReturnTyped
    <3>2. CASE /\ check' = [check EXCEPT !.next = @ + 1,
                    !.at = IF check.next = Len(CoreReads)
                           THEN "distrusted" ELSE @]
               /\ UNCHANGED seen
      <4>1. PICK at : at = IF check.next = Len(CoreReads)
                           THEN "distrusted" ELSE check.at
        OBVIOUS
      <4>2. check' = [check EXCEPT !.next = next, !.at = at]
        BY <1>3, <3>2, <4>1
      <4>3. at \in {"distrusted", check.at}
        BY <4>1
      <4>. QED BY <1>2, <1>3, <3>2, <4>2, <4>3 DEF CheckRecords
    <3>. QED BY <2>1, <3>1, <3>2 DEF ReadForCore
  <2>2. CASE ReadDistrusted
    <3>1. PICK at \in {"attestations", "pinned"} :
            check' = [check EXCEPT !.at = at]
      BY <2>2 DEF ReadDistrusted
    <3>2. UNCHANGED seen
      BY <2>2 DEF ReadDistrusted
    <3>. QED BY <1>2, <3>1, <3>2 DEF CheckRecords
  <2>3. CASE ReadPinned
    <3>1. PICK pinned \in BOOLEAN :
            pinned <=> IssuerOf[check.doc] \in disk["pinned"]
      <4>1. CASE IssuerOf[check.doc] \in disk["pinned"]
        BY <4>1
      <4>2. CASE IssuerOf[check.doc] \notin disk["pinned"]
        BY <4>2
      <4>. QED BY <4>1, <4>2
    <3>2. /\ check' = [check EXCEPT !.at = "attestations", !.pinned = pinned]
          /\ UNCHANGED seen
      BY <2>3, <3>1 DEF ReadPinned
    <3>. QED BY <1>2, <3>2 DEF CheckRecords
  <2>4. CASE ReadAttestations
    <3>1. Attesting(disk, IssuerOf[check.doc]) \subseteq Tcerts
      BY AttestingTyped DEF Typed, TypeOK
    <3>2. PICK attesting \in SUBSET Tcerts :
            check' = [check EXCEPT !.at = "views", !.next = 1,
                        !.attesting = attesting, !.speaking = attesting]
      BY <2>4, <3>1 DEF ReadAttestations
    <3>3. UNCHANGED seen
      BY <2>4 DEF ReadAttestations
    <3>. QED BY <1>2, <3>2, <3>3 DEF CheckRecords
  <2>5. CASE ReadForViews
    <3>1. PICK speaking :
            speaking = Heard(CaReads[check.next],
                             disk[ListOf(CaReads[check.next])],
                             IssuerOf[check.doc], check.speaking,
                             check.trusted)
      OBVIOUS
    <3>2. PICK trusted :
            trusted = IF CaReads[check.next] = "pinned"
                      THEN check.speaking
                             \cap disk[ListOf(CaReads[check.next])]
                      ELSE {}
      OBVIOUS
    <3>3. check' = [check EXCEPT !.next = next, !.speaking = speaking,
                                 !.trusted = trusted]
      BY <1>3, <2>5, <3>1, <3>2 DEF ReadForViews
    <3>4. speaking \subseteq Tcerts /\ trusted \subseteq Tcerts
      BY <1>2, <3>1, <3>2, HeardTyped DEF CheckRecords
    <3>5. UNCHANGED seen
      BY <2>5 DEF ReadForViews
    <3>. QED BY <1>2, <1>3, <3>3, <3>4, <3>5 DEF CheckRecords
  <2>6. CASE ResolveVerdict
    BY <2>6, ReturnTyped DEF ResolveVerdict
  <2>. QED BY <2>1, <2>2, <2>3, <2>4, <2>5, <2>6
<1>. QED BY <1>1, <1>4 DEF Typed, TypeOK, CallsInOrder

LEMMA InitTyped ==
  ASSUME Init
  PROVE  Typed
<1>1. PICK stored \in Stored : disk = stored.lists /\ policy = stored.policy
  BY DEF Init
<1>2. disk \in Disks /\ WellKept(disk) /\ policy \in {"any", "all"}
  BY <1>1, MobileAssumption
<1>3. call = [c \in Callers |-> Idle]
  BY DEF Init
<1>4. \A c \in Callers : TypedCall(c, call[c])
  BY <1>3, IdleCallTyped
<1>5. call \in [Callers -> CallRecords]
  BY <1>3, IdleTyped
<1>6. check \in CheckRecords /\ calls \in Nat /\ allowed \subseteq Docs
      /\ seen \in [acceptable: BOOLEAN, beside: 0..2]
  BY UnstartedTyped, UnseenTyped DEF Init
<1>. QED
  BY <1>2, <1>4, <1>5, <1>6 DEF Typed, TypeOK, CallsInOrder, TypedCall, Callers

\* The steps of the app, by what they are to the calls.
NewCall(c, r) ==
  \/ /\ c = "user"
     /\ \E t \in Tcerts :
          \/ \E op \in {"put", "drop"}, list \in TcertLists :
               r = [Idle EXCEPT !.todo = <<Edit(op, list, t)>>]
          \/ r = [Idle EXCEPT !.tcert = t, !.todo = Cascade(t)]
  \/ c = "import" /\ \E offer \in Offers : r = [Idle EXCEPT !.objects = offer]

CheckStep ==
  \/ ReadForCore \/ ReadDistrusted \/ ReadPinned \/ ReadAttestations
  \/ ReadForViews \/ ResolveVerdict

LEMMA NextCases ==
  ASSUME Next
  PROVE  \/ \E c \in Callers : \E r : NewCall(c, r) /\ Begin(c, r)
         \/ \E o \in call["import"].objects : TakeObject(o)
         \/ \E c \in Callers : Read(c) \/ Write(c)
         \/ Stop
         \/ \E x \in Docs : StartCheck(x)
         \/ CheckStep
<1>1. ASSUME NEW t \in Tcerts, NEW list \in TcertLists,
             PutTcert(list, t) \/ DropTcert(list, t)
      PROVE  \E r : NewCall("user", r) /\ Begin("user", r)
  <2>1. PICK op \in {"put", "drop"} :
          Begin("user", [Idle EXCEPT !.todo = <<Edit(op, list, t)>>])
    BY <1>1 DEF PutTcert, DropTcert
  <2>. QED BY <2>1 DEF NewCall
<1>2. ASSUME NEW t \in Tcerts, RemoveTcertCascade(t)
      PROVE  \E r : NewCall("user", r) /\ Begin("user", r)
  BY <1>2 DEF NewCall, RemoveTcertCascade
<1>3. ASSUME NEW offer \in Offers, Import(offer)
      PROVE  \E r : NewCall("import", r) /\ Begin("import", r)
  BY <1>3 DEF NewCall, Import
<1>. QED BY <1>1, <1>2, <1>3 DEF Next, CheckStep, Callers

LEMMA NewCallIs ==
  ASSUME NEW c \in Callers, NEW r, NewCall(c, r)
  PROVE  /\ TypedCall(c, r) /\ r.fetched = {}
         /\ r.tcert # NoTcert => c = "user" /\ Len(r.todo) = 13
<1>1. r.fetched = {}
  BY DEF NewCall, Idle
<1>2. CASE \E op \in {"put", "drop"}, list \in TcertLists, t \in Tcerts :
             c = "user" /\ r = [Idle EXCEPT !.todo = <<Edit(op, list, t)>>]
  <2>1. r.tcert = NoTcert
    BY <1>2 DEF Idle
  <2>. QED BY <1>1, <1>2, <2>1, SingleEditTyped
<1>3. CASE \E t \in Tcerts :
             c = "user" /\ r = [Idle EXCEPT !.tcert = t, !.todo = Cascade(t)]
  <2>1. PICK t \in Tcerts :
          c = "user" /\ r = [Idle EXCEPT !.tcert = t, !.todo = Cascade(t)]
    BY <1>3
  <2>2. r.todo = Cascade(t)
    BY <2>1 DEF Idle
  <2>. QED BY <1>1, <2>1, <2>2, RemovalTyped, CascadeTyped
<1>4. CASE \E offer \in Offers :
             c = "import" /\ r = [Idle EXCEPT !.objects = offer]
  <2>1. r.tcert = NoTcert
    BY <1>4 DEF Idle
  <2>. QED BY <1>1, <1>4, <2>1, ImportTyped
<1>. QED BY <1>2, <1>3, <1>4 DEF NewCall

LEMMA StepTyped ==
  ASSUME Typed, [Next]_vars
  PROVE  Typed'
<1>1. CASE UNCHANGED vars
  BY <1>1 DEF vars, Typed, TypeOK, CallsInOrder
<1>2. ASSUME NEW c \in Callers, NEW r, NewCall(c, r), Begin(c, r)
      PROVE  Typed'
  BY <1>2, NewCallIs, BeginTyped
<1>. QED
  BY <1>1, <1>2, NextCases, TakeObjectTyped, ReadTyped, WriteTyped,
     StopTyped, StartCheckTyped, VerificationTyped
  DEF CheckStep

\* What the mobile app keeps is well typed, and a call has its edits in order.
LEMMA TypedAlways == Spec => []Typed
BY InitTyped, StepTyped, PTL DEF Spec

\* The lists of the mobile app hold entries of their kind, one a target where
\* they keep one, whatever the calls and wherever the app is stopped.
THEOREM MobileTypes == Spec => []TypeOK
<1>1. Typed => TypeOK
  BY DEF Typed
<1>. QED BY <1>1, TypedAlways, PTL

-----------------------------------------------------------------------------
(* Where a removal is.                                                     *)

LEMMA SweepsOnce ==
  ASSUME NEW j \in 3..13, NEW k \in 3..13, CascadeOrder[j] = CascadeOrder[k]
  PROVE  j = k
<1>1. j \in {3, 4, 5, 6, 7, 8, 9, 10, 11, 12, 13}
      /\ k \in {3, 4, 5, 6, 7, 8, 9, 10, 11, 12, 13}
  OBVIOUS
<1>. QED BY <1>1, CascadeOrderIs

\* The list that is swept k-th has been dealt with when 13 - k are left.
LEMMA PassedIs ==
  ASSUME NEW r \in CallRecords, InOrder(r), r.tcert # NoTcert, NEW k \in 3..13
  PROVE  Passed(r, CascadeOrder[k]) <=> Len(r.todo) <= 13 - k
<1>1. PICK n \in 1..13 : n = Len(r.todo)
  BY CurrentOfRemoval
<1>2. DOMAIN r.todo = 1..n
  BY <1>1, CurrentOfRemoval
<1>3. \A i \in 1..n : r.todo[i].list = CascadeOrder[13 - n + i]
  BY <1>1, CurrentOfRemoval
<1>4. ASSUME n > 13 - k
      PROVE  ~Passed(r, CascadeOrder[k])
  <2>1. PICK i \in 1..n : 13 - n + i = k
    <3>1. k - (13 - n) \in 1..n /\ 13 - n + (k - (13 - n)) = k
      BY <1>4
    <3>. QED BY <3>1
  <2>. QED BY <1>2, <1>3, <2>1 DEF Passed
<1>5. ASSUME n <= 13 - k
      PROVE  Passed(r, CascadeOrder[k])
  <2>1. ASSUME NEW i \in 1..n
        PROVE  r.todo[i].list # CascadeOrder[k]
    <3>1. PICK j : j = 13 - n + i
      OBVIOUS
    <3>2. j \in 3..13 /\ j # k
      BY <1>5, <3>1
    <3>3. r.todo[i].list = CascadeOrder[j]
      BY <1>3, <3>1
    <3>. QED BY <3>2, <3>3, SweepsOnce
  <2>. QED BY <1>2, <2>1 DEF Passed
<1>. QED BY <1>1, <1>4, <1>5

LEMMA LoadedIs ==
  ASSUME NEW r \in CallRecords, InOrder(r), r.tcert # NoTcert
  PROVE  /\ (\A i \in DOMAIN r.todo : r.todo[i].op # "load")
              <=> Len(r.todo) <= 11
         /\ Head(r.todo).list = CascadeOrder[14 - Len(r.todo)]
         /\ Head(r.todo).op = IF Len(r.todo) >= 12 THEN "load" ELSE "sweep"
<1>1. PICK n \in 1..13 : n = Len(r.todo)
  BY CurrentOfRemoval
<1>2. DOMAIN r.todo = 1..n
  BY <1>1, CurrentOfRemoval
<1>3. \A i \in 1..n : /\ r.todo[i].list = CascadeOrder[13 - n + i]
                      /\ r.todo[i].op = IF 13 - n + i <= 2
                                        THEN "load" ELSE "sweep"
  BY <1>1, CurrentOfRemoval
<1>4. 1 \in 1..n /\ 13 - n + 1 = 14 - n /\ (14 - n <= 2 <=> n >= 12)
  OBVIOUS
<1>5. Head(r.todo) = r.todo[1]
  BY CurrentOfRemoval, HeadTail
<1>6. /\ Head(r.todo).list = CascadeOrder[14 - n]
      /\ Head(r.todo).op = IF n >= 12 THEN "load" ELSE "sweep"
  BY <1>3, <1>4, <1>5
<1>7. ASSUME n <= 11, NEW i \in 1..n
      PROVE  r.todo[i].op # "load"
  <2>1. ~(13 - n + i <= 2)
    BY <1>7
  <2>. QED BY <1>3, <2>1
<1>8. ASSUME ~(n <= 11)
      PROVE  r.todo[1].op = "load"
  BY <1>5, <1>6, <1>8
<1>. QED BY <1>1, <1>2, <1>4, <1>6, <1>7, <1>8

LEMMA StaysOutIs ==
  ASSUME NEW r \in CallRecords, InOrder(r), r.tcert # NoTcert, NEW D
  PROVE  StaysOut(D, r) <=>
           /\ Len(r.todo) <= 11 => r.tcert \in r.removed
           /\ Len(r.todo) <= 9 => D["pinned"] \cap r.removed = {}
           /\ Len(r.todo) <= 8 => D["cas"] \cap r.removed = {}
<1>1. Passed(r, "pinned") <=> Len(r.todo) <= 9
  <2>1. Passed(r, CascadeOrder[4]) <=> Len(r.todo) <= 13 - 4
    BY PassedIs
  <2>. QED BY <2>1, CascadeOrderIs
<1>2. Passed(r, "cas") <=> Len(r.todo) <= 8
  <2>1. Passed(r, CascadeOrder[5]) <=> Len(r.todo) <= 13 - 5
    BY PassedIs
  <2>. QED BY <2>1, CascadeOrderIs
<1>. QED BY <1>1, <1>2, LoadedIs DEF StaysOut

\* A write changes the list at the head of the call, and nothing else.
LEMMA WriteIs ==
  ASSUME Typed, NEW c \in Callers, Write(c)
  PROVE  LET r == call[c]
             e == Head(r.todo)
         IN /\ r \in CallRecords /\ r.todo # <<>> /\ TypedCall(c, r)
            /\ e \in Edits /\ e.list \in Lists /\ e.op # "load"
            /\ r.todo \in Seq(Edits) /\ e = r.todo[1]
            /\ e.list \in r.fetched /\ r.read \in Disks
            /\ disk' = [disk EXCEPT ![e.list] = Written(e, r, disk[e.list])]
            /\ disk'[e.list] = Written(e, r, disk[e.list])
            /\ \A list \in Lists : list # e.list => disk'[list] = disk[list]
            /\ call' = [call EXCEPT ![c] = AfterWrite(r)]
            /\ call'[c] = AfterWrite(r)
            /\ \A o \in Callers : o # c => call'[o] = call[o]
            /\ UNCHANGED <<check, policy, calls, allowed>>
<1>1. PICK r : r = call[c]
  OBVIOUS
<1>2. PICK e : e = Head(r.todo)
  OBVIOUS
<1>3. TypedCall(c, r) /\ r \in CallRecords /\ r.todo \in Seq(Edits)
      /\ r.todo # <<>> /\ r.read \in Disks
  BY <1>1, TypedCalls DEF Write, TypedCall, CallRecords
<1>4. e \in Edits /\ e = r.todo[1] /\ e.list \in Lists
  <2>1. e \in Edits /\ e = r.todo[1]
    BY <1>2, <1>3, HeadTail
  <2>. QED BY <2>1 DEF Edits
<1>5. /\ disk' = [disk EXCEPT ![e.list] = Written(e, r, disk[e.list])]
      /\ call' = [call EXCEPT ![c] = AfterWrite(r)]
      /\ e.op # "load" /\ e.list \in r.fetched
      /\ UNCHANGED <<check, policy, calls, allowed>>
  BY <1>1, <1>2 DEF Write, Current
<1>6. DOMAIN disk = Lists /\ DOMAIN call = Callers
  BY DEF Typed, TypeOK, Disks
<1>7. /\ disk'[e.list] = Written(e, r, disk[e.list])
      /\ \A list \in Lists : list # e.list => disk'[list] = disk[list]
  BY <1>4, <1>5, <1>6
<1>8. /\ call'[c] = AfterWrite(r)
      /\ \A o \in Callers : o # c => call'[o] = call[o]
  BY <1>5, <1>6
<1>. QED BY <1>1, <1>2, <1>3, <1>4, <1>5, <1>7, <1>8

LEMMA ReadIs ==
  ASSUME Typed, NEW c \in Callers, Read(c)
  PROVE  LET r == call[c]
             e == Head(r.todo)
         IN /\ r \in CallRecords /\ r.todo # <<>> /\ TypedCall(c, r)
            /\ e \in Edits /\ e.list \in Lists
            /\ r.todo \in Seq(Edits) /\ e = r.todo[1]
            /\ call' = [call EXCEPT ![c] = AfterRead(r, disk[e.list])]
            /\ call'[c] = AfterRead(r, disk[e.list])
            /\ \A o \in Callers : o # c => call'[o] = call[o]
            /\ UNCHANGED <<disk, check, policy, calls, allowed, seen>>
<1>1. PICK r : r = call[c]
  OBVIOUS
<1>2. PICK e : e = Head(r.todo)
  OBVIOUS
<1>3. TypedCall(c, r) /\ r \in CallRecords /\ r.todo \in Seq(Edits)
      /\ r.todo # <<>>
  BY <1>1, TypedCalls DEF Read, TypedCall, CallRecords
<1>4. e \in Edits /\ e = r.todo[1] /\ e.list \in Lists
  <2>1. e \in Edits /\ e = r.todo[1]
    BY <1>2, <1>3, HeadTail
  <2>. QED BY <2>1 DEF Edits
<1>5. /\ call' = [call EXCEPT ![c] = AfterRead(r, disk[e.list])]
      /\ UNCHANGED <<disk, check, policy, calls, allowed, seen>>
  BY <1>1, <1>2 DEF Read, Current
<1>6. DOMAIN call = Callers
  BY DEF Typed, TypeOK
<1>7. /\ call'[c] = AfterRead(r, disk[e.list])
      /\ \A o \in Callers : o # c => call'[o] = call[o]
  BY <1>5, <1>6
<1>. QED BY <1>1, <1>2, <1>3, <1>4, <1>5, <1>7

LEMMA IdleIs ==
  /\ Idle.todo = <<>> /\ Idle.fetched = {} /\ Idle.read = Nothing
  /\ Idle.tcert = NoTcert /\ Idle.objects = {}
BY DEF Idle

LEMMA CheckStepIs ==
  ASSUME CheckStep \/ \E x \in Docs : StartCheck(x)
  PROVE  UNCHANGED <<disk, call, policy, allowed>>
BY DEF CheckStep, StartCheck, ReadForCore, ReadDistrusted, ReadPinned,
       ReadAttestations, ReadForViews, ResolveVerdict

LEMMA StaysOutStep ==
  ASSUME Typed, Typed', RemovedStaysOut, [Next]_vars
  PROVE  RemovedStaysOut'
<1>1. PICK u, v : u = call["user"] /\ v = call'["user"]
  OBVIOUS
<1>2. "user" \in Callers /\ "import" \in Callers
  BY DEF Callers
<1>3. u \in CallRecords /\ InOrder(u) /\ v \in CallRecords /\ InOrder(v)
  BY <1>1, <1>2 DEF Typed, TypeOK, CallsInOrder
<1>4. StaysOut(disk, u)
  BY <1>1 DEF RemovedStaysOut
<1>5. SUFFICES StaysOut(disk', v)
  BY <1>1 DEF RemovedStaysOut
<1>6. CASE /\ v = u
           /\ disk'["pinned"] = disk["pinned"] /\ disk'["cas"] = disk["cas"]
  BY <1>4, <1>6 DEF StaysOut
<1>7. CASE v.tcert = NoTcert
  BY <1>7 DEF StaysOut
<1>8. CASE UNCHANGED vars
  BY <1>1, <1>6, <1>8 DEF vars
<1>9. ASSUME NEW c \in Callers, NEW r, NewCall(c, r), Begin(c, r)
      PROVE  StaysOut(disk', v)
  <2>1. call' = [call EXCEPT ![c] = r] /\ disk' = disk
    BY <1>9 DEF Begin
  <2>2. call \in [Callers -> CallRecords]
    BY DEF Typed, TypeOK
  <2>3. CASE c = "user"
    <3>1. v = r
      BY <1>1, <1>2, <2>1, <2>2, <2>3
    <3>2. CASE r.tcert # NoTcert
      <4>1. Len(v.todo) = 13
        BY <1>9, <3>1, <3>2, NewCallIs
      <4>2. ~(13 <= 11) /\ ~(13 <= 9) /\ ~(13 <= 8)
        OBVIOUS
      <4>. QED BY <1>3, <3>1, <3>2, <4>1, <4>2, StaysOutIs
    <3>. QED BY <1>7, <3>1, <3>2
  <2>4. CASE c # "user"
    BY <1>1, <1>2, <1>6, <2>1, <2>2, <2>4
  <2>. QED BY <2>3, <2>4
<1>10. ASSUME NEW o \in call["import"].objects, TakeObject(o)
       PROVE  StaysOut(disk', v)
  <2>1. disk' = disk /\ call'["user"] = call["user"]
    BY <1>2, <1>10 DEF TakeObject, Typed, TypeOK
  <2>. QED BY <1>1, <1>6, <2>1
<1>11. ASSUME NEW c \in Callers, Read(c)
       PROVE  StaysOut(disk', v)
  <2>1. disk' = disk
    BY <1>11, ReadIs
  <2>2. CASE c # "user"
    BY <1>1, <1>2, <1>6, <1>11, <2>1, <2>2, ReadIs
  <2>3. CASE c = "user"
    <3>1. PICK value : v = AfterRead(u, value) /\ u.todo # <<>>
      BY <1>1, <1>11, <2>3, ReadIs
    <3>2. PICK e : e = Head(u.todo)
      OBVIOUS
    <3>3. v.tcert = u.tcert
          /\ v.todo = IF e.op = "load" THEN Tail(u.todo) ELSE u.todo
      <4>1. u.todo # <<>> /\ u \in CallRecords
        BY <1>3, <3>1
      <4>2. AfterRead(u, value).tcert = u.tcert
        BY <4>1, AfterReadIs
      <4>3. AfterRead(u, value).todo
              = IF Head(u.todo).op = "load" THEN Tail(u.todo) ELSE u.todo
        BY <4>1, AfterReadIs
      <4>. QED BY <3>1, <3>2, <4>2, <4>3
    <3>4. SUFFICES ASSUME u.tcert # NoTcert
                   PROVE  StaysOut(disk', v)
      BY <1>7, <3>3
    <3>5. PICK n \in 1..13 : n = Len(u.todo)
      BY <1>3, <3>4, CurrentOfRemoval
    <3>6. e.op = (IF n >= 12 THEN "load" ELSE "sweep")
          /\ e.list = CascadeOrder[14 - n]
      BY <1>3, <3>2, <3>4, <3>5, LoadedIs
    <3>7. CASE n >= 12
      <4>1. Len(v.todo) = n - 1
        BY <1>3, <3>1, <3>3, <3>5, <3>6, <3>7, HeadTail DEF CallRecords
      <4>2. n = 12 => v.tcert \in v.removed
        <5>1. ASSUME n = 12
              PROVE  e.list = "pinned" /\ e.op = "load"
          BY <3>6, <5>1, CascadeOrderIs
        <5>2. u.todo # <<>> /\ u \in CallRecords
          BY <1>3, <3>1
        <5>3. AfterRead(u, value).removed
                = IF Head(u.todo).op = "load" /\ Head(u.todo).list = "pinned"
                  THEN {u.tcert} \cup Orphans(u.tcert,
                         AfterRead(u, value).read["attestations"],
                         AfterRead(u, value).read["pinned"])
                  ELSE u.removed
          BY <5>2, AfterReadIs
        <5>. QED BY <3>1, <3>2, <3>3, <5>1, <5>3
      <4>3. ~(n - 1 <= 9) /\ ~(n - 1 <= 8) /\ (n - 1 <= 11 => n = 12)
        BY <3>7
      <4>. QED BY <1>3, <3>3, <3>4, <4>1, <4>2, <4>3, StaysOutIs
    <3>8. CASE n < 12
      <4>1. e.op = "sweep"
        BY <3>6, <3>8
      <4>2. v.todo = u.todo /\ v.removed = u.removed
        BY <1>3, <3>1, <3>2, <3>3, <4>1, AfterReadIs
      <4>. QED BY <1>4, <2>1, <3>3, <4>2 DEF StaysOut, Passed
    <3>. QED BY <3>7, <3>8
  <2>. QED BY <2>2, <2>3
<1>12. ASSUME NEW c \in Callers, Write(c)
       PROVE  StaysOut(disk', v)
  <2>1. PICK e : e = Head(call[c].todo)
    OBVIOUS
  <2>2. CASE c # "user"
    <3>1. c = "import"
      BY <2>2 DEF Callers
    <3>2. e.list \notin {"pinned", "cas"}
      <4>1. 1 \in 1..Len(call[c].todo)
        BY <1>12, WriteIs, HeadTail
      <4>. QED BY <1>12, <2>1, <3>1, <4>1, WriteIs DEF TypedCall
    <3>3. "pinned" \in Lists /\ "cas" \in Lists
      BY DEF Lists, TcertLists
    <3>. QED BY <1>1, <1>2, <1>6, <1>12, <2>1, <2>2, <3>2, <3>3, WriteIs
  <2>3. CASE c = "user"
    <3>1. v = AfterWrite(u) /\ u.todo # <<>> /\ e = Head(u.todo)
      BY <1>1, <1>12, <2>1, <2>3, WriteIs
    <3>2. SUFFICES ASSUME ~(Len(u.todo) = 1 /\ u.objects = {})
                   PROVE  StaysOut(disk', v)
      BY <1>3, <1>7, <3>1, AfterWriteIs, IdleIs
    <3>3. v.todo = Tail(u.todo) /\ v.tcert = u.tcert /\ v.removed = u.removed
      BY <1>3, <3>1, <3>2, AfterWriteIs
    <3>4. SUFFICES ASSUME u.tcert # NoTcert
                   PROVE  StaysOut(disk', v)
      BY <1>7, <3>3
    <3>5. PICK n \in 1..13 : n = Len(u.todo)
      BY <1>3, <3>4, CurrentOfRemoval
    <3>6. e.op = (IF n >= 12 THEN "load" ELSE "sweep")
          /\ e.list = CascadeOrder[14 - n]
      BY <1>3, <3>1, <3>4, <3>5, LoadedIs
    <3>7. n <= 11 /\ e.op = "sweep"
      BY <1>12, <2>1, <2>3, <3>5, <3>6, WriteIs
    <3>8. Len(v.todo) = n - 1
      BY <1>3, <3>1, <3>3, <3>5, HeadTail DEF CallRecords
    <3>9. u.tcert \in u.removed
          /\ (n <= 9 => disk["pinned"] \cap u.removed = {})
          /\ (n <= 8 => disk["cas"] \cap u.removed = {})
      BY <1>3, <1>4, <3>4, <3>5, <3>7, StaysOutIs
    <3>10. ASSUME NEW list \in {"pinned", "cas"}
           PROVE  IF list = e.list THEN disk'[list] \cap u.removed = {}
                  ELSE disk'[list] = disk[list]
      <4>1. list \in TcertLists /\ list \in Lists
        BY DEF TcertLists, Lists
      <4>2. CASE list = e.list
        <5>1. disk'[list] = Swept(list, u.read[list], u.tcert, u.removed)
          BY <1>1, <1>12, <2>1, <2>3, <3>7, <4>2, WriteIs DEF Written
        <5>. QED BY <4>1, <4>2, <5>1 DEF Swept
      <4>. QED BY <1>12, <2>1, <4>1, <4>2, WriteIs
    <3>11. (n = 10 => e.list = "pinned") /\ (n = 9 => e.list = "cas")
      BY <3>6, CascadeOrderIs
    <3>12. n - 1 <= 9 => disk'["pinned"] \cap u.removed = {}
      <4>1. n - 1 <= 9 => n <= 9 \/ n = 10
        OBVIOUS
      <4>. QED BY <3>9, <3>10, <3>11, <4>1
    <3>13. n - 1 <= 8 => disk'["cas"] \cap u.removed = {}
      <4>1. n - 1 <= 8 => n <= 8 \/ n = 9
        OBVIOUS
      <4>. QED BY <3>9, <3>10, <3>11, <4>1
    <3>. QED
      BY <1>3, <3>3, <3>4, <3>8, <3>9, <3>12, <3>13, StaysOutIs
  <2>. QED BY <2>2, <2>3
<1>13. CASE Stop
  BY <1>1, <1>2, <1>7, <1>13, IdleIs DEF Stop
<1>14. CASE CheckStep \/ \E x \in Docs : StartCheck(x)
  BY <1>1, <1>6, <1>14, CheckStepIs
<1>. QED
  BY <1>8, <1>9, <1>10, <1>11, <1>12, <1>13, <1>14, NextCases

LEMMA CallerStep ==
  ASSUME Typed, NEW c \in Callers, NEW r, call' = [call EXCEPT ![c] = r]
  PROVE  call'[c] = r /\ \A o \in Callers : o # c => call'[o] = call[o]
BY DEF Typed, TypeOK

LEMMA TakeObjectIs ==
  ASSUME Typed, NEW o \in call["import"].objects, TakeObject(o)
  PROVE  /\ call["import"].todo = <<>>
         /\ call'["user"] = call["user"]
         /\ call'["import"].fetched = call["import"].fetched
         /\ call'["import"].read = call["import"].read
         /\ call'["import"].objects = call["import"].objects \ {o}
         /\ UNCHANGED <<disk, check, policy, calls, allowed, seen>>
<1>1. PICK edits : call' = [call EXCEPT !["import"].objects = @ \ {o},
                                        !["import"].todo = edits]
  BY DEF TakeObject
<1>2. PICK r : r = call["import"]
  OBVIOUS
<1>3. PICK new : new = [r EXCEPT !.objects = @ \ {o}, !.todo = edits]
  OBVIOUS
<1>4. "import" \in Callers /\ "user" \in Callers /\ r \in CallRecords
  BY <1>2 DEF Callers, Typed, TypeOK
<1>5. call' = [call EXCEPT !["import"] = new]
  BY <1>1, <1>2, <1>3, <1>4 DEF Typed, TypeOK
<1>6. new.fetched = r.fetched /\ new.read = r.read
      /\ new.objects = r.objects \ {o}
  BY <1>3, <1>4 DEF CallRecords
<1>7. call'["import"] = new /\ call'["user"] = call["user"]
  BY <1>4, <1>5, CallerStep
<1>8. UNCHANGED <<disk, check, policy, calls, allowed, seen>>
      /\ call["import"].todo = <<>>
  BY DEF TakeObject
<1>. QED BY <1>2, <1>6, <1>7, <1>8

LEMMA ToWriteAfterRead ==
  ASSUME NEW c, NEW r, TypedCall(c, r), r.todo # <<>>, ToWrite(r), NEW value
  PROVE  ToWrite(AfterRead(r, value))
<1>1. PICK e, n : e = Head(r.todo) /\ n = AfterRead(r, value)
  OBVIOUS
<1>2. /\ r \in CallRecords /\ InOrder(r) /\ r.todo \in Seq(Edits)
      /\ e = r.todo[1] /\ 1 \in 1..Len(r.todo) /\ Len(r.todo) \in Nat \ {0}
  <2>1. r \in CallRecords /\ InOrder(r) /\ r.todo \in Seq(Edits)
    BY DEF TypedCall, CallRecords
  <2>. QED BY <1>1, <2>1, HeadTail
<1>3. n.fetched = r.fetched \cup {e.list}
      /\ n.todo = IF e.op = "load" THEN Tail(r.todo) ELSE r.todo
  BY <1>1, <1>2, AfterReadIs
<1>4. CASE e.op # "load"
  BY <1>1, <1>2, <1>3, <1>4 DEF ToWrite
<1>5. CASE e.op = "load"
  <2>1. r.tcert # NoTcert
    BY <1>2, <1>5 DEF InOrder
  <2>2. PICK m \in 1..13 : m = Len(r.todo)
    BY <1>2, <2>1, CurrentOfRemoval
  <2>3. m >= 12
    BY <1>1, <1>2, <1>5, <2>1, <2>2, LoadedIs
  <2>4. r.todo[3].list = e.list /\ 2 \in 1..m - 1
    <3>1. 3 \in 1..m /\ 1 \in 1..m /\ 2 \in 1..m - 1
          /\ (m = 12 \/ m = 13)
      BY <2>3
    <3>2. r.todo[1].list = CascadeOrder[13 - m + 1]
          /\ r.todo[3].list = CascadeOrder[13 - m + 3]
      BY <1>2, <2>1, <2>2, <3>1, CurrentOfRemoval
    <3>. QED BY <1>2, <3>1, <3>2, CascadeOrderIs
  <2>5. Len(n.todo) = m - 1
        /\ \A i \in 1..Len(n.todo) : n.todo[i] = r.todo[i + 1]
    BY <1>2, <1>3, <1>5, <2>2, HeadTail
  <2>6. ASSUME NEW list \in n.fetched
        PROVE  \E i \in 1..Len(n.todo) : n.todo[i].list = list
    <3>1. CASE list = e.list
      BY <2>4, <2>5, <3>1
    <3>2. CASE list # e.list
      <4>1. PICK i \in 1..m : r.todo[i].list = list
        BY <1>3, <2>2, <3>2 DEF ToWrite
      <4>2. i - 1 \in 1..m - 1 /\ (i - 1) + 1 = i
        <5>1. i # 1
          BY <1>2, <3>2, <4>1
        <5>. QED BY <5>1
      <4>. QED BY <2>5, <4>1, <4>2
    <3>. QED BY <3>1, <3>2
  <2>. QED BY <1>1, <2>6 DEF ToWrite
<1>. QED BY <1>4, <1>5

LEMMA ToWriteAfterWrite ==
  ASSUME NEW r \in CallRecords, r.todo # <<>>, ToWrite(r)
  PROVE  ToWrite(AfterWrite(r))
<1>1. PICK e, n : e = Head(r.todo) /\ n = AfterWrite(r)
  OBVIOUS
<1>2. /\ r.todo \in Seq(Edits) /\ e = r.todo[1] /\ Len(r.todo) \in Nat \ {0}
      /\ Len(Tail(r.todo)) = Len(r.todo) - 1
      /\ \A i \in 1..Len(Tail(r.todo)) : Tail(r.todo)[i] = r.todo[i + 1]
  <2>1. r.todo \in Seq(Edits)
    BY DEF CallRecords
  <2>. QED BY <1>1, <2>1, HeadTail
<1>3. CASE Len(r.todo) = 1 /\ r.objects = {}
  BY <1>3, AfterWriteIs, IdleIs DEF ToWrite
<1>4. CASE ~(Len(r.todo) = 1 /\ r.objects = {})
  <2>1. n.fetched = r.fetched \ {e.list} /\ n.todo = Tail(r.todo)
    BY <1>1, <1>4, AfterWriteIs
  <2>2. ASSUME NEW list \in n.fetched
        PROVE  \E i \in 1..Len(n.todo) : n.todo[i].list = list
    <3>1. PICK m \in Nat \ {0} : m = Len(r.todo)
      BY <1>2
    <3>2. PICK i \in 1..m : r.todo[i].list = list
      BY <2>1, <3>1 DEF ToWrite
    <3>3. i # 1
      BY <1>2, <2>1, <3>2
    <3>4. i - 1 \in 1..m - 1 /\ (i - 1) + 1 = i
      BY <3>3
    <3>. QED BY <1>2, <2>1, <3>1, <3>2, <3>4
  <2>. QED BY <1>1, <2>2 DEF ToWrite
<1>. QED BY <1>3, <1>4

LEMMA ReadToWriteStep ==
  ASSUME Typed, Typed', ReadToWrite, [Next]_vars
  PROVE  ReadToWrite'
<1>1. SUFFICES ASSUME NEW o \in Callers
               PROVE  ToWrite(call'[o])
  BY DEF ReadToWrite
<1>2. ToWrite(call[o])
  BY DEF ReadToWrite
<1>3. CASE call'[o] = call[o]
  BY <1>2, <1>3
<1>4. CASE UNCHANGED vars
  BY <1>3, <1>4 DEF vars
<1>5. ASSUME NEW c \in Callers, NEW r, NewCall(c, r), Begin(c, r)
      PROVE  ToWrite(call'[o])
  <2>1. call' = [call EXCEPT ![c] = r]
    BY <1>5 DEF Begin
  <2>2. ToWrite(r)
    BY <1>5, NewCallIs DEF ToWrite
  <2>. QED BY <1>2, <2>1, <2>2, CallerStep
<1>6. ASSUME NEW x \in call["import"].objects, TakeObject(x)
      PROVE  ToWrite(call'[o])
  <2>1. CASE o = "import"
    <3>1. call[o].fetched = {}
      <4>1. Len(call[o].todo) = 0
        BY <1>6, <2>1, TakeObjectIs
      <4>. QED BY <1>2, <4>1 DEF ToWrite
    <3>. QED BY <1>6, <2>1, <3>1, TakeObjectIs DEF ToWrite
  <2>2. CASE o = "user"
    BY <1>3, <1>6, <2>2, TakeObjectIs
  <2>. QED BY <2>1, <2>2 DEF Callers
<1>7. ASSUME NEW c \in Callers, Read(c)
      PROVE  ToWrite(call'[o])
  <2>1. CASE o = c
    <3>1. PICK value : call'[o] = AfterRead(call[o], value)
      BY <1>7, <2>1, ReadIs
    <3>2. TypedCall(o, call[o]) /\ call[o].todo # <<>>
      BY <1>7, <2>1, ReadIs
    <3>. QED BY <1>2, <3>1, <3>2, ToWriteAfterRead
  <2>2. CASE o # c
    BY <1>3, <1>7, <2>2, ReadIs
  <2>. QED BY <2>1, <2>2
<1>8. ASSUME NEW c \in Callers, Write(c)
      PROVE  ToWrite(call'[o])
  <2>1. CASE o = c
    <3>1. call'[o] = AfterWrite(call[o]) /\ call[o].todo # <<>>
          /\ call[o] \in CallRecords
      BY <1>8, <2>1, WriteIs
    <3>. QED BY <1>2, <3>1, ToWriteAfterWrite
  <2>2. CASE o # c
    BY <1>3, <1>8, <2>2, WriteIs
  <2>. QED BY <2>1, <2>2
<1>9. CASE Stop
  BY <1>9, IdleIs DEF Stop, ToWrite
<1>10. CASE CheckStep \/ \E x \in Docs : StartCheck(x)
  BY <1>3, <1>10, CheckStepIs
<1>. QED
  BY <1>4, <1>5, <1>6, <1>7, <1>8, <1>9, <1>10, NextCases

LEMMA AtMostTwoIs ==
  ASSUME NEW n \in Nat, AtMostTwo(n) <= 1
  PROVE  AtMostTwo(n) = n /\ n <= 1
BY DEF AtMostTwo

LEMMA CardIs ==
  ASSUME NEW S, IsFiniteSet(S)
  PROVE  /\ Cardinality(S) \in Nat
         /\ Cardinality(S) = 0 <=> S = {}
         /\ Cardinality(S) = 1 => \E x : S = {x}
BY FS_CardinalityType, FS_EmptySet, FS_Singleton

LEMMA NothingRead ==
  ASSUME Typed, ReadToWrite, NEW c \in Callers, call[c].todo = <<>>
  PROVE  call[c].fetched = {}
<1>1. Len(call[c].todo) = 0
  OBVIOUS
<1>. QED BY <1>1 DEF ReadToWrite, ToWrite

\* A call that begins beside a verification, and leaves it with one.
LEMMA BeginBeside ==
  ASSUME Typed, ReadToWrite, OneBeside, NEW c \in Callers, NEW r,
         TypedCall(c, r), Begin(c, r), Checking, seen'.beside <= 1
  PROVE  /\ seen.beside = 0 /\ seen'.beside = 1
         /\ \A o \in Callers : ~Active(o)
         /\ r.objects = {} \/ \E o \in Objects : r.objects = {o}
<1>1. PICK k \in Nat \ {0} :
        /\ k = IF r.objects = {} THEN 1 ELSE Cardinality(r.objects)
        /\ k = 1 => r.objects = {} \/ \E o \in Objects : r.objects = {o}
  <2>1. CASE r.objects = {}
    BY <2>1
  <2>2. CASE r.objects # {}
    <3>1. IsFiniteSet(r.objects) /\ r.objects \subseteq Objects
      BY DEF TypedCall, CallRecords
    <3>. QED BY <2>2, <3>1, CardIs
  <2>. QED BY <2>1, <2>2
<1>2. PICK b \in Nat : b = seen.beside
  BY DEF Typed, TypeOK
<1>3. seen'.beside = AtMostTwo(b + k)
  BY <1>1, <1>2 DEF Begin, Typed, TypeOK
<1>4. b + k \in Nat
  OBVIOUS
<1>5. seen'.beside = b + k /\ b + k <= 1
  BY <1>3, <1>4, AtMostTwoIs
<1>6. b = 0 /\ k = 1 /\ seen'.beside = 1
  BY <1>5
<1>7. \A o \in Callers : ~Active(o)
  <2>1. seen.beside <= 1 /\ seen.beside # 1
    BY <1>2, <1>6
  <2>. QED BY <2>1 DEF OneBeside, Callers
<1>. QED BY <1>1, <1>2, <1>6, <1>7

\* A verification that starts with one call beside it.
LEMMA StartBeside ==
  ASSUME Typed, NEW x \in Docs, StartCheck(x), seen'.beside <= 1
  PROVE  /\ \A c \in Callers : ~Outdated(c) \/ \A o \in Callers : ~Active(o)
         /\ call["import"].objects = {}
         /\ \A c, o \in Callers : Active(c) /\ Active(o) => c = o
         /\ \A c \in Callers : Active(c) => seen'.beside = 1
<1>1. PICK A, B, I : A = {c \in Callers : Active(c)}
                     /\ B = {c \in Callers : Outdated(c)}
                     /\ I = call["import"].objects
  OBVIOUS
<1>2. A \in SUBSET Callers /\ B \in SUBSET Callers
  BY <1>1
<1>3. IsFiniteSet(A) /\ IsFiniteSet(B) /\ IsFiniteSet(I)
  BY <1>1, <1>2, CallersFinite, TypedCalls DEF Callers, TypedCall
<1>4. PICK a, b, i : a = Cardinality(A) /\ b = Cardinality(B)
                     /\ i = Cardinality(I)
  OBVIOUS
<1>5. a \in Nat /\ b \in Nat /\ i \in Nat
  BY <1>3, <1>4, CardIs
<1>6. seen'.beside = AtMostTwo(a + b + i)
  BY <1>1, <1>4 DEF StartCheck
<1>7. a + b + i \in Nat
  BY <1>5
<1>8. seen'.beside = a + b + i /\ a + b + i <= 1
  BY <1>6, <1>7, AtMostTwoIs
<1>9. (a # 0 => a = 1 /\ b = 0 /\ i = 0 /\ a + b + i = 1)
      /\ (i # 0 => a = 0)
  BY <1>5, <1>8
<1>10. i = 0
  <2>1. ASSUME i # 0
        PROVE  FALSE
    <3>1. Active("import") /\ "import" \in Callers
      BY <1>1, <1>3, <1>4, <2>1, CardIs DEF Active, Callers
    <3>2. A # {}
      BY <1>1, <3>1
    <3>. QED BY <1>3, <1>4, <1>9, <2>1, <3>2, CardIs
  <2>. QED BY <2>1
<1>11. ASSUME NEW c \in Callers, Active(c)
       PROVE  seen'.beside = 1 /\ B = {} /\ \E x1 : A = {x1}
  <2>1. a # 0
    BY <1>1, <1>3, <1>4, <1>11, CardIs
  <2>. QED BY <1>3, <1>4, <1>8, <1>9, <2>1, CardIs
<1>12. I = {}
  BY <1>3, <1>4, <1>10, CardIs
<1>13. \A c, o \in Callers : Active(c) /\ Active(o) => c = o
  BY <1>1, <1>11
<1>. QED BY <1>1, <1>11, <1>12, <1>13

LEMMA OneBesideStep ==
  ASSUME Typed, Typed', ReadToWrite, OneBeside, [Next]_vars
  PROVE  OneBeside'
<1>1. "user" \in Callers /\ "import" \in Callers
      /\ \A c \in Callers : c \in {"user", "import"}
  BY DEF Callers
<1>2. SUFFICES ASSUME Checking', seen'.beside <= 1
               PROVE  /\ Active("user")' => seen'.beside = 1 /\ ~Active("import")'
                      /\ Active("import")' => seen'.beside = 1
                      /\ \/ call'["import"].objects = {}
                         \/ call'["import"].todo = <<>>
                              /\ \E o \in Objects :
                                   call'["import"].objects = {o}
                      /\ \A c \in Callers : ~Outdated(c)'
  BY DEF OneBeside
<1>3. ASSUME Checking, seen.beside <= 1
      PROVE  /\ Active("user") => seen.beside = 1 /\ ~Active("import")
             /\ Active("import") => seen.beside = 1
             /\ \/ call["import"].objects = {}
                \/ call["import"].todo = <<>>
                     /\ \E o \in Objects : call["import"].objects = {o}
             /\ \A c \in Callers : ~Outdated(c)
  BY <1>3 DEF OneBeside
<1>4. CASE UNCHANGED <<call, disk>> /\ seen'.beside = seen.beside /\ Checking
  BY <1>2, <1>3, <1>4 DEF Active, Outdated
<1>5. CASE UNCHANGED vars
  BY <1>2, <1>4, <1>5 DEF vars, Checking
<1>6. ASSUME NEW c \in Callers, NEW r, NewCall(c, r), Begin(c, r)
      PROVE  OneBeside'
  <2>1. call' = [call EXCEPT ![c] = r] /\ UNCHANGED <<disk, check>>
    BY <1>6 DEF Begin
  <2>2. Checking
    BY <1>2, <2>1 DEF Checking
  <2>3. TypedCall(c, r) /\ r.fetched = {}
    BY <1>6, NewCallIs
  <2>4. /\ seen'.beside = 1 /\ \A o \in Callers : ~Active(o)
        /\ r.objects = {} \/ \E o \in Objects : r.objects = {o}
    BY <1>2, <1>6, <2>2, <2>3, BeginBeside
  <2>5. call'[c] = r /\ \A o \in Callers : o # c => call'[o] = call[o]
    BY <2>1, CallerStep
  <2>6. \A o \in Callers : call'[o].fetched = {}
    BY <2>3, <2>4, <2>5, NothingRead DEF Active
  <2>7. \A o \in Callers : ~Outdated(o)'
    BY <2>6 DEF Outdated
  <2>8. call["user"].objects = {} /\ call["import"].objects = {}
        /\ call["user"].todo = <<>> /\ call["import"].todo = <<>>
    BY <1>1, <2>4 DEF Active
  <2>9. c = "import" => r.todo = <<>>
    BY <1>6 DEF NewCall, Idle
  <2>10. ~(Active("user")' /\ Active("import")')
    BY <1>1, <2>5, <2>8 DEF Active
  <2>11. \/ call'["import"].objects = {}
         \/ call'["import"].todo = <<>>
              /\ \E o \in Objects : call'["import"].objects = {o}
    BY <1>1, <2>4, <2>5, <2>8, <2>9
  <2>. QED BY <2>4, <2>7, <2>10, <2>11 DEF OneBeside
<1>7. ASSUME NEW x \in call["import"].objects, TakeObject(x)
      PROVE  OneBeside'
  <2>1. /\ call'["user"] = call["user"]
        /\ call'["import"].fetched = call["import"].fetched
        /\ call'["import"].read = call["import"].read
        /\ call'["import"].objects = call["import"].objects \ {x}
        /\ UNCHANGED <<disk, check, seen>>
    BY <1>7, TakeObjectIs
  <2>2. Checking /\ seen.beside <= 1
    BY <1>2, <2>1 DEF Checking
  <2>3. Active("import")
    BY <1>7 DEF Active
  <2>4. seen.beside = 1 /\ ~Active("user") /\ call'["import"].objects = {}
    BY <1>3, <1>7, <2>1, <2>2, <2>3
  <2>5. ~Active("user")'
    BY <2>1, <2>4 DEF Active
  <2>6. \A c \in Callers : ~Outdated(c)'
    BY <1>1, <1>3, <2>1, <2>2 DEF Outdated
  <2>. QED BY <2>1, <2>4, <2>5, <2>6 DEF OneBeside
<1>8. ASSUME NEW c \in Callers, Read(c)
      PROVE  OneBeside'
  <2>1. PICK r, e : r = call[c] /\ e = Head(r.todo)
    OBVIOUS
  <2>2. /\ call'[c] = AfterRead(r, disk[e.list])
        /\ r \in CallRecords /\ r.todo # <<>> /\ e.list \in Lists
        /\ \A o \in Callers : o # c => call'[o] = call[o]
        /\ UNCHANGED <<disk, check, seen>>
    BY <1>8, <2>1, ReadIs
  <2>3. Checking /\ seen.beside <= 1
    BY <1>2, <2>2 DEF Checking
  <2>4. /\ call'[c].fetched = r.fetched \cup {e.list}
        /\ call'[c].read = [r.read EXCEPT ![e.list] = disk[e.list]]
        /\ call'[c].objects = r.objects
    <3>1. PICK value : value = disk[e.list]
      OBVIOUS
    <3>2. AfterRead(r, value).fetched = r.fetched \cup {e.list}
      BY <2>1, <2>2, AfterReadIs
    <3>3. AfterRead(r, value).read = [r.read EXCEPT ![e.list] = value]
      BY <2>1, <2>2, AfterReadIs
    <3>4. AfterRead(r, value).objects = r.objects
      BY <2>2, AfterReadIs
    <3>. QED BY <2>2, <3>1, <3>2, <3>3, <3>4
  <2>5. Active(c)
    BY <2>1, <2>2 DEF Active
  <2>6. \A o \in Callers : Active(o)' => Active(o)
    BY <2>2, <2>5 DEF Active
  <2>7. call'["import"].objects = {} \/ c # "import"
    BY <1>3, <2>1, <2>2, <2>3, <2>4
  <2>8. \A o \in Callers : ~Outdated(o)'
    <3>1. DOMAIN r.read = Lists
      BY <2>2 DEF CallRecords, Disks
    <3>2. \A o \in Callers : ~Outdated(o)
      BY <1>3, <2>3
    <3>3. \A list \in r.fetched : r.read[list] = disk[list]
      BY <2>1, <3>2 DEF Outdated
    <3>4. ASSUME NEW list \in call'[c].fetched
          PROVE  call'[c].read[list] = disk[list]
      <4>1. CASE list = e.list
        BY <2>2, <2>4, <3>1, <4>1
      <4>2. CASE list # e.list
        BY <2>4, <3>1, <3>3, <4>2
      <4>. QED BY <4>1, <4>2
    <3>5. ~Outdated(c)'
      BY <2>2, <3>4 DEF Outdated
    <3>. QED BY <2>2, <3>2, <3>5 DEF Outdated
  <2>. QED BY <1>1, <1>3, <2>2, <2>3, <2>6, <2>7, <2>8 DEF OneBeside
<1>9. ASSUME NEW c \in Callers, Write(c)
      PROVE  OneBeside'
  <2>1. PICK r, e, n : r = call[c] /\ e = Head(r.todo) /\ n = AfterWrite(r)
    OBVIOUS
  <2>2. /\ call'[c] = n
        /\ r \in CallRecords /\ r.todo # <<>> /\ e.list \in Lists
        /\ \A o \in Callers : o # c => call'[o] = call[o]
        /\ \A list \in Lists : list # e.list => disk'[list] = disk[list]
        /\ UNCHANGED check
    BY <1>9, <2>1, WriteIs
  <2>3. seen'.beside = seen.beside
    BY <1>9 DEF Write, Typed, TypeOK
  <2>4. Checking /\ seen.beside <= 1
    BY <1>2, <2>2, <2>3 DEF Checking
  <2>5. Active(c)
    BY <2>1, <2>2 DEF Active
  <2>6. seen.beside = 1 /\ \A o \in Callers : o # c => ~Active(o)
    BY <1>1, <1>3, <2>4, <2>5
  <2>7. \A o \in Callers : Active(o)' => o = c
    BY <2>2, <2>6 DEF Active
  <2>8. r.objects = {} /\ call["import"].objects = {}
    <3>1. CASE c = "import"
      BY <1>3, <2>1, <2>2, <2>4, <3>1
    <3>2. CASE c = "user"
      BY <1>1, <2>1, <2>6, <3>2, TypedCalls DEF TypedCall, Active
    <3>. QED BY <1>1, <3>1, <3>2
  <2>9. n.objects = {} /\ n.fetched \subseteq r.fetched \ {e.list}
        /\ \A list \in n.fetched : n.read[list] = r.read[list]
    <3>1. CASE Len(r.todo) = 1
      BY <2>1, <2>2, <2>8, <3>1, AfterWriteIs, IdleIs
    <3>2. CASE Len(r.todo) # 1
      <4>1. /\ n.read = [r.read EXCEPT ![e.list] = {}]
            /\ n.fetched = r.fetched \ {e.list} /\ n.objects = r.objects
        BY <2>1, <2>2, <3>2, AfterWriteIs
      <4>. QED BY <2>8, <4>1
    <3>. QED BY <3>1, <3>2
  <2>10. call'["import"].objects = {}
    BY <1>1, <2>2, <2>8, <2>9
  <2>11. ~Outdated(c)'
    <3>1. r.fetched \subseteq Lists
      BY <2>2 DEF CallRecords
    <3>2. ~Outdated(c)
      BY <1>3, <2>4
    <3>. QED BY <2>1, <2>2, <2>9, <3>1, <3>2 DEF Outdated
  <2>12. ASSUME NEW o \in Callers, o # c
         PROVE  ~Outdated(o)'
    <3>1. call[o].todo = <<>>
      BY <2>6, <2>12 DEF Active
    <3>2. call'[o].fetched = {}
      BY <2>2, <2>12, <3>1, NothingRead
    <3>. QED BY <3>2 DEF Outdated
  <2>. QED
    BY <1>1, <2>3, <2>6, <2>7, <2>10, <2>11, <2>12 DEF OneBeside
<1>10. CASE Stop
  BY <1>2, <1>10 DEF Stop, Unstarted, Checking
<1>11. ASSUME NEW x \in Docs, StartCheck(x)
       PROVE  OneBeside'
  <2>1. UNCHANGED <<disk, call>>
    BY <1>11 DEF StartCheck
  <2>2. /\ \A c \in Callers : ~Outdated(c) \/ \A o \in Callers : ~Active(o)
        /\ call["import"].objects = {}
        /\ \A c, o \in Callers : Active(c) /\ Active(o) => c = o
        /\ \A c \in Callers : Active(c) => seen'.beside = 1
    BY <1>2, <1>11, StartBeside
  <2>3. \A c \in Callers : ~Outdated(c)
    <3>1. ASSUME NEW c \in Callers, ~Active(c)
          PROVE  ~Outdated(c)
      <4>1. call[c].fetched = {}
        BY <3>1, NothingRead DEF Active
      <4>. QED BY <4>1 DEF Outdated
    <3>. QED BY <2>2, <3>1
  <2>. QED BY <1>1, <2>1, <2>2, <2>3 DEF OneBeside, Active, Outdated
<1>12. CASE CheckStep
  <2>1. UNCHANGED <<disk, call>>
    BY <1>12, CheckStepIs
  <2>2. Checking
    BY <1>12
    DEF CheckStep, Checking, ReadForCore, ReadDistrusted, ReadPinned,
        ReadAttestations, ReadForViews, ResolveVerdict
  <2>3. seen' = seen
    <3>1. ASSUME NEW verdict, Return(verdict)
          PROVE  FALSE
      BY <1>2, <3>1 DEF Return, Checking, Unstarted
    <3>. QED BY <1>12, <3>1
         DEF CheckStep, ReadForCore, ReadDistrusted, ReadPinned,
             ReadAttestations, ReadForViews, ResolveVerdict
  <2>. QED BY <1>2, <1>4, <2>1, <2>2, <2>3
<1>13. OneBeside' =>
         /\ Active("user")' => seen'.beside = 1 /\ ~Active("import")'
         /\ Active("import")' => seen'.beside = 1
         /\ \/ call'["import"].objects = {}
            \/ call'["import"].todo = <<>>
                 /\ \E o \in Objects : call'["import"].objects = {o}
         /\ \A c \in Callers : ~Outdated(c)'
  BY <1>2 DEF OneBeside
<1>. QED
  BY <1>5, <1>6, <1>7, <1>8, <1>9, <1>10, <1>11, <1>12, <1>13, NextCases

LEMMA CaReadsIs ==
  /\ DOMAIN CaReads = 1..13 /\ Len(CaReads) = 13
  /\ CaReads[1] = "pinned" /\ CaReads[2] = "cas" /\ CaReads[3] = "distrusted"
  /\ CaReads[4] = "revoked-keys" /\ CaReads[5] = "revoked-attestations"
  /\ CaReads[6] = "revoked-tcerts-of-target" /\ CaReads[7] = "certificates"
  /\ CaReads[8] = "distrusted" /\ CaReads[9] = "revoked-tcerts"
  /\ CaReads[10] = "pinned" /\ CaReads[11] = "cas"
  /\ CaReads[12] = "revoked-keys" /\ CaReads[13] = "certificates-of-target"
BY DEF CaReads, ViewReads, AttestationReads

LEMMA CoreReadsIs ==
  /\ DOMAIN CoreReads = 1..5 /\ Len(CoreReads) = 5
  /\ CoreReads[1] = "certificates" /\ CoreReads[2] = "distrusted"
  /\ CoreReads[3] = "revoked-keys" /\ CoreReads[4] = "revoked-tcerts"
  /\ CoreReads[5] = "blocked-sdocs"
BY DEF CoreReads

\* Calls leave the verification alone.
LEMMA CheckKept ==
  ASSUME Typed
  PROVE  /\ \A c \in Callers : \A r : Begin(c, r) =>
              /\ UNCHANGED <<disk, check, policy>>
              /\ seen'.acceptable = seen.acceptable
         /\ \A c \in Callers : Write(c) =>
              /\ UNCHANGED <<check, policy, calls, allowed>>
              /\ seen'.beside = seen.beside
              /\ seen'.acceptable <=>
                   \/ seen.acceptable
                   \/ Checking /\ Acceptable(policy, disk', check.doc)
<1>1. seen \in [acceptable: BOOLEAN, beside: 0..2]
  BY DEF Typed, TypeOK
<1>2. ASSUME NEW c \in Callers, NEW r, Begin(c, r)
      PROVE  /\ UNCHANGED <<disk, check, policy>>
             /\ seen'.acceptable = seen.acceptable
  BY <1>1, <1>2 DEF Begin
<1>3. ASSUME NEW c \in Callers, Write(c)
      PROVE  /\ UNCHANGED <<check, policy, calls, allowed>>
             /\ seen'.beside = seen.beside
             /\ seen'.acceptable <=>
                  \/ seen.acceptable
                  \/ Checking /\ Acceptable(policy, disk', check.doc)
  BY <1>1, <1>3 DEF Write
<1>. QED BY <1>2, <1>3

Orderly(k) ==
  /\ k.at = "core" => k.next \in 1..5
  /\ k.at = "views" => k.next \in 1..14
  /\ k.verdict = "valid" => k.at = "done"

LEMMA OrderlyIs ==
  /\ CheckInOrder <=>
       /\ Orderly(check)
       /\ Checking /\ Acceptable(policy, disk, check.doc) => seen.acceptable
  /\ CheckInOrder' <=>
       /\ Orderly(check')
       /\ Checking' /\ Acceptable(policy', disk', check'.doc) =>
            seen'.acceptable
<1>1. Len(CaReads) + 1 = 14 /\ DOMAIN CoreReads = 1..5
  BY CaReadsIs, CoreReadsIs
<1>2. CheckInOrder <=>
        /\ Orderly(check)
        /\ Checking /\ Acceptable(policy, disk, check.doc) => seen.acceptable
  BY <1>1 DEF CheckInOrder, Orderly
<1>3. CheckInOrder' <=>
        /\ Orderly(check')
        /\ Checking' /\ Acceptable(policy', disk', check'.doc) =>
             seen'.acceptable
  BY <1>1 DEF CheckInOrder, Orderly
<1>. QED BY <1>2, <1>3

LEMMA CheckInOrderStep ==
  ASSUME Typed, CheckInOrder, [Next]_vars
  PROVE  CheckInOrder'
<1>1. check \in CheckRecords
      /\ seen \in [acceptable: BOOLEAN, beside: 0..2]
  BY DEF Typed, TypeOK
<1>2. CASE /\ UNCHANGED <<disk, check, policy>>
           /\ seen'.acceptable = seen.acceptable
  BY <1>2 DEF CheckInOrder, Checking
<1>3. Orderly(check)
      /\ (Checking /\ Acceptable(policy, disk, check.doc) => seen.acceptable)
  BY OrderlyIs
<1>4. ASSUME NEW c \in Callers, NEW r, Begin(c, r)
      PROVE  CheckInOrder'
  BY <1>2, <1>4, CheckKept
<1>5. ASSUME NEW o \in call["import"].objects, TakeObject(o)
      PROVE  CheckInOrder'
  BY <1>2, <1>5, TakeObjectIs
<1>6. ASSUME NEW c \in Callers, Read(c)
      PROVE  CheckInOrder'
  BY <1>2, <1>6, ReadIs
<1>7. ASSUME NEW c \in Callers, Write(c)
      PROVE  CheckInOrder'
  BY <1>7, CheckKept DEF CheckInOrder, Checking
<1>8. CASE Stop
  BY <1>8, OrderlyIs DEF Stop, Unstarted, Orderly, Checking
<1>9. ASSUME NEW x \in Docs, StartCheck(x)
      PROVE  CheckInOrder'
  BY <1>9, OrderlyIs DEF StartCheck, Unstarted, Orderly, Checking
<1>10. ASSUME NEW verdict, Return(verdict)
       PROVE  CheckInOrder'
  BY <1>10, OrderlyIs DEF Return, Unstarted, Orderly, Checking
<1>11. CASE ReadForCore
  <2>1. CASE UNCHANGED seen /\ check' = [check EXCEPT !.next = @ + 1,
                  !.at = IF check.next = Len(CoreReads)
                         THEN "distrusted" ELSE @]
    <3>1. check.at = "core" /\ check.next \in 1..5 /\ UNCHANGED <<disk, policy>>
      BY <1>3, <1>11 DEF ReadForCore, Orderly
    <3>2. PICK n \in 1..5 : n = check.next
      BY <3>1
    <3>3. /\ check'.next = n + 1 /\ check'.doc = check.doc
          /\ check'.verdict = check.verdict
          /\ check'.at = IF n = 5 THEN "distrusted" ELSE "core"
      BY <1>1, <2>1, <3>1, <3>2, CoreReadsIs DEF CheckRecords
    <3>4. n # 5 => n + 1 \in 1..5
      OBVIOUS
    <3>. QED
      BY <1>3, <2>1, <3>1, <3>3, <3>4, OrderlyIs DEF Orderly, Checking
  <2>. QED BY <1>10, <1>11, <2>1 DEF ReadForCore
<1>12. CASE ReadDistrusted
  BY <1>1, <1>3, <1>12, OrderlyIs
  DEF ReadDistrusted, Orderly, Checking, CheckRecords
<1>13. CASE ReadPinned
  BY <1>1, <1>3, <1>13, OrderlyIs
  DEF ReadPinned, Orderly, Checking, CheckRecords
<1>14. CASE ReadAttestations
  <2>1. check'.at = "views" /\ check'.next = 1 /\ check'.doc = check.doc
        /\ check'.verdict = check.verdict /\ check.at = "attestations"
        /\ UNCHANGED <<disk, policy, seen>>
    BY <1>1, <1>14 DEF ReadAttestations, CheckRecords
  <2>2. 1 \in 1..14
    OBVIOUS
  <2>. QED BY <1>3, <2>1, <2>2, OrderlyIs DEF Orderly, Checking
<1>15. CASE ReadForViews
  <2>1. check.at = "views" /\ check.next \in 1..13
        /\ UNCHANGED <<disk, policy, seen>>
    <3>1. check.next \in 1..14 /\ check.next <= 13
      BY <1>3, <1>15, CaReadsIs DEF ReadForViews, Orderly
    <3>2. \A m \in 1..14 : m <= 13 => m \in 1..13
      OBVIOUS
    <3>. QED BY <1>15, <3>1, <3>2 DEF ReadForViews
  <2>2. PICK n \in 1..13 : n = check.next
    BY <2>1
  <2>3. check'.at = "views" /\ check'.next = n + 1 /\ check'.doc = check.doc
        /\ check'.verdict = check.verdict
    BY <1>1, <1>15, <2>1, <2>2 DEF ReadForViews, CheckRecords
  <2>4. n + 1 \in 1..14
    OBVIOUS
  <2>. QED BY <1>3, <2>1, <2>3, <2>4, OrderlyIs DEF Orderly, Checking
<1>16. CASE ResolveVerdict
  BY <1>10, <1>16 DEF ResolveVerdict
<1>17. CASE UNCHANGED vars
  BY <1>2, <1>17 DEF vars
<1>. QED
  BY <1>4, <1>5, <1>6, <1>7, <1>8, <1>9, <1>11, <1>12, <1>13, <1>14, <1>15,
     <1>16, <1>17, NextCases DEF CheckStep

LEMMA MobileInvariantInit ==
  ASSUME Init
  PROVE  MobileInvariant
<1>1. Typed
  BY InitTyped
<1>2. \A c \in Callers : call[c] = Idle
  BY DEF Init
<1>3. PICK d \in Docs : check = Unstarted(d)
  BY DEF Init
<1>4. ReadToWrite
  BY <1>2, IdleIs DEF ReadToWrite, ToWrite
<1>5. RemovedStaysOut
  BY <1>2, IdleIs DEF RemovedStaysOut, StaysOut, Callers
<1>6. OneBeside /\ CheckInOrder
  BY <1>3 DEF OneBeside, CheckInOrder, Checking, Unstarted
<1>. QED BY <1>1, <1>4, <1>5, <1>6 DEF MobileInvariant, Typed

\* What holds whenever calls and a verification interleave.
THEOREM MobileInvariantHolds == Spec => []MobileInvariant
<1>1. Init => MobileInvariant
  BY MobileInvariantInit
<1>2. Typed /\ Typed' /\ MobileInvariant /\ [Next]_vars => MobileInvariant'
  BY StaysOutStep, ReadToWriteStep, OneBesideStep, CheckInOrderStep
  DEF MobileInvariant, Typed
<1>. QED BY <1>1, <1>2, TypedAlways, PTL DEF Spec

-----------------------------------------------------------------------------
(* What is accepted, under the policy that one trusted CA suffices.        *)

Clear(D, x) == \A i \in 1..5 : ~Refuses(CoreReads[i], D[CoreReads[i]], x)

SpeaksFor(D, t, ca) ==
  /\ ca \in Attesting(D, t) /\ ca \in D["pinned"] \cup D["cas"]
  /\ \A i \in 1..13 : ~Silences(CaReads[i], D[ListOf(CaReads[i])], t, ca)

LEMMA AcceptableIs ==
  ASSUME NEW D, NEW x
  PROVE  Acceptable("any", D, x) <=>
           /\ Clear(D, x)
           /\ \/ IssuerOf[x] \in D["pinned"]
              \/ \E ca : SpeaksFor(D, IssuerOf[x], ca)
<1>1. PICK t : t = IssuerOf[x]
  OBVIOUS
<1>2. (\A list \in {CoreReads[i] : i \in DOMAIN CoreReads} :
         ~Refuses(list, D[list], x)) <=> Clear(D, x)
  BY CoreReadsIs DEF Clear
<1>3. IssuerVerified("any", Attesting(D, t), HeardIn(D, t, Attesting(D, t)))
        <=> \E ca : SpeaksFor(D, t, ca)
  BY CaReadsIs DEF IssuerVerified, HeardIn, SpeaksFor
<1>. QED BY <1>1, <1>2, <1>3 DEF Acceptable

\* M accepts what N does, the distrust of the TCerts in R apart.
Better(N, M, R) ==
  /\ \A list \in {"attestations", "pinned", "cas", "certificates"} :
       N[list] \subseteq M[list]
  /\ M["distrusted"] \subseteq N["distrusted"] \cup R
  /\ \A list \in {"revoked-tcerts", "revoked-attestations"} :
       M[list] \subseteq N[list]
  /\ \A list \in OnePerTarget : Targets(M[list]) \subseteq Targets(N[list])

LEMMA RefusesBetter ==
  ASSUME NEW N, NEW M, NEW R, Better(N, M, R), NEW x, IssuerOf[x] \notin R,
         NEW i \in 1..5, ~Refuses(CoreReads[i], N[CoreReads[i]], x)
  PROVE  ~Refuses(CoreReads[i], M[CoreReads[i]], x)
<1>1. i \in {1, 2, 3, 4, 5}
  OBVIOUS
<1>2. CASE i = 1
  BY <1>2, CoreReadsIs DEF Better, Refuses
<1>3. CASE i = 2
  BY <1>3, CoreReadsIs DEF Better, Refuses
<1>4. CASE i = 3
  BY <1>4, CoreReadsIs DEF Better, Refuses, Targets, OnePerTarget
<1>5. CASE i = 4
  BY <1>5, CoreReadsIs DEF Better, Refuses
<1>6. CASE i = 5
  BY <1>6, CoreReadsIs DEF Better, Refuses, Targets, OnePerTarget
<1>. QED BY <1>1, <1>2, <1>3, <1>4, <1>5, <1>6

LEMMA SilencesBetter ==
  ASSUME NEW N, NEW M, NEW R, Better(N, M, R), NEW t, NEW ca, ca \notin R,
         NEW i \in 1..13,
         ~Silences(CaReads[i], N[ListOf(CaReads[i])], t, ca)
  PROVE  ~Silences(CaReads[i], M[ListOf(CaReads[i])], t, ca)
<1>1. i \in {1, 2, 3, 4, 5, 6, 7, 8, 9, 10, 11, 12, 13}
  OBVIOUS
<1>2. CASE i \in {1, 2, 10, 11}
  BY <1>2, CaReadsIs DEF Silences
<1>3. CASE i \in {3, 8}
  BY <1>3, CaReadsIs DEF Better, Silences, ListOf
<1>4. CASE i \in {4, 12}
  BY <1>4, CaReadsIs DEF Better, Silences, ListOf, Targets, OnePerTarget
<1>5. CASE i = 5
  BY <1>5, CaReadsIs DEF Better, Silences, ListOf
<1>6. CASE i = 6
  BY <1>6, CaReadsIs DEF Better, Silences, ListOf
<1>7. CASE i = 7
  BY <1>7, CaReadsIs DEF Better, Silences, ListOf
<1>8. CASE i = 9
  BY <1>8, CaReadsIs DEF Better, Silences, ListOf
<1>9. CASE i = 13
  BY <1>9, CaReadsIs DEF Better, Silences, ListOf
<1>. QED BY <1>1, <1>2, <1>3, <1>4, <1>5, <1>6, <1>7, <1>8, <1>9

LEMMA AttestingBetter ==
  ASSUME NEW N, NEW M, NEW R, Better(N, M, R), NEW t
  PROVE  Attesting(N, t) \subseteq Attesting(M, t)
BY DEF Better, Attesting

LEMMA AcceptableBetter ==
  ASSUME NEW N, NEW M, NEW R, Better(N, M, R), NEW x, IssuerOf[x] \notin R,
         \A ca \in R : ~SpeaksFor(N, IssuerOf[x], ca),
         Acceptable("any", N, x)
  PROVE  Acceptable("any", M, x)
<1>1. PICK t : t = IssuerOf[x]
  OBVIOUS
<1>2. Clear(M, x)
  BY AcceptableIs, RefusesBetter DEF Clear
<1>3. CASE t \in N["pinned"]
  BY <1>1, <1>2, <1>3, AcceptableIs DEF Better
<1>4. CASE t \notin N["pinned"]
  <2>1. PICK ca : SpeaksFor(N, t, ca) /\ ca \notin R
    BY <1>1, <1>4, AcceptableIs
  <2>2. \A i \in 1..13 : ~Silences(CaReads[i], M[ListOf(CaReads[i])], t, ca)
    BY <2>1, SilencesBetter DEF SpeaksFor
  <2>3. ca \in Attesting(M, t)
    BY <2>1, AttestingBetter DEF SpeaksFor
  <2>4. ca \in M["pinned"] \cup M["cas"]
    BY <2>1 DEF SpeaksFor, Better
  <2>. QED BY <1>1, <1>2, <2>2, <2>3, <2>4, AcceptableIs DEF SpeaksFor
<1>. QED BY <1>3, <1>4

-----------------------------------------------------------------------------
(* A removal grants nothing.                                               *)

LEMMA ListsSwept ==
  ASSUME NEW list \in Lists
  PROVE  \E k \in 3..13 : list = CascadeOrder[k]
<1>1. list \in {"attestations", "pinned", "cas", "distrusted",
                "archived-tcerts", "certificates", "revoked-tcerts",
                "revoked-keys", "revoked-attestations", "blocked-sdocs",
                "sdoc-statements"}
  BY DEF Lists, TcertLists, StatementLists, OnePerTarget
<1>2. {3, 4, 5, 6, 7, 8, 9, 10, 11, 12, 13} \subseteq 3..13
  OBVIOUS
<1>. QED BY <1>1, <1>2, CascadeOrderIs

PartSwept(D0, r) ==
  [list \in Lists |-> IF Passed(r, list)
                      THEN Swept(list, D0[list], r.tcert, r.removed)
                      ELSE D0[list]]

AllSwept(D0, r) ==
  [list \in Lists |-> Swept(list, D0[list], r.tcert, r.removed)]

LEMMA SweptIs ==
  ASSUME NEW D0, NEW t, NEW R
  PROVE  /\ \A list : Swept(list, D0[list], t, R) \subseteq D0[list]
         /\ \A list \in TcertLists :
              Swept(list, D0[list], t, R) = D0[list] \ R
         /\ Swept("attestations", D0["attestations"], t, R)
              = {a \in D0["attestations"] : a.of \notin R /\ a.by # t}
<1>1. ASSUME NEW list
      PROVE  Swept(list, D0[list], t, R) \subseteq D0[list]
  BY DEF Swept
<1>2. ASSUME NEW list \in TcertLists
      PROVE  Swept(list, D0[list], t, R) = D0[list] \ R
  <2>1. list \notin {"attestations", "revoked-tcerts", "revoked-attestations"}
    BY DEF TcertLists
  <2>. QED BY <2>1 DEF Swept
<1>3. "attestations" \notin TcertLists
  BY DEF TcertLists
<1>4. Swept("attestations", D0["attestations"], t, R)
        = {a \in D0["attestations"] : a.of \notin R /\ a.by # t}
  BY <1>3 DEF Swept
<1>. QED BY <1>1, <1>2, <1>4

LEMMA PartSweptIs ==
  ASSUME NEW r \in CallRecords, InOrder(r), r.tcert # NoTcert, NEW D0,
         NEW k \in 3..13, NEW list \in Lists, list = CascadeOrder[k]
  PROVE  PartSwept(D0, r)[list]
           = IF Len(r.todo) <= 13 - k
             THEN Swept(list, D0[list], r.tcert, r.removed) ELSE D0[list]
<1>1. Passed(r, list) <=> Len(r.todo) <= 13 - k
  BY PassedIs
<1>. QED BY <1>1 DEF PartSwept

\* Wherever a removal has got to, what is accepted was so before it, or is so
\* after it: its trust goes first, its revocations and blocks last.
LEMMA PartSweptAccepts ==
  ASSUME NEW r \in CallRecords, InOrder(r), r.tcert # NoTcert, NEW D0,
         NEW x, Acceptable("any", PartSwept(D0, r), x)
  PROVE  Acceptable("any", D0, x) \/ Acceptable("any", AllSwept(D0, r), x)
<1>1. PICK n \in 1..13 : n = Len(r.todo)
  BY CurrentOfRemoval
<1>2. PICK D, S, R, t : D = PartSwept(D0, r) /\ S = AllSwept(D0, r)
                        /\ R = r.removed /\ t = r.tcert
  OBVIOUS
<1>3. {"attestations", "pinned", "cas", "distrusted", "archived-tcerts",
       "certificates", "revoked-tcerts", "revoked-keys",
       "revoked-attestations", "blocked-sdocs", "sdoc-statements"}
         \subseteq Lists
      /\ {"pinned", "cas", "distrusted", "certificates"} \subseteq TcertLists
      /\ OnePerTarget \subseteq Lists
  BY DEF Lists, TcertLists, StatementLists, OnePerTarget
<1>4. \A list \in Lists :
        /\ D[list] \in {D0[list], Swept(list, D0[list], t, R)}
        /\ S[list] = Swept(list, D0[list], t, R)
        /\ S[list] \subseteq D[list] /\ D[list] \subseteq D0[list]
  <2>1. \A list \in Lists :
          /\ D[list] \in {D0[list], Swept(list, D0[list], t, R)}
          /\ S[list] = Swept(list, D0[list], t, R)
    BY <1>2 DEF PartSwept, AllSwept
  <2>2. \A list : Swept(list, D0[list], t, R) \subseteq D0[list]
    BY SweptIs
  <2>. QED BY <2>1, <2>2
<1>5. \A k \in 3..13 : CascadeOrder[k] \in Lists =>
        D[CascadeOrder[k]] = IF n <= 13 - k
                             THEN Swept(CascadeOrder[k], D0[CascadeOrder[k]],
                                        t, R)
                             ELSE D0[CascadeOrder[k]]
  <2>1. ASSUME NEW k \in 3..13, NEW list, list = CascadeOrder[k], list \in Lists
        PROVE  D[list] = IF n <= 13 - k THEN Swept(list, D0[list], t, R)
                         ELSE D0[list]
    <3>1. PartSwept(D0, r)[list]
            = IF Len(r.todo) <= 13 - k
              THEN Swept(list, D0[list], r.tcert, r.removed) ELSE D0[list]
      BY <2>1, PartSweptIs
    <3>. QED BY <1>1, <1>2, <3>1
  <2>. QED BY <2>1
<1>6. {3, 4, 5, 6, 7, 8, 9, 10, 11, 12, 13} \subseteq 3..13
      /\ 13 - 3 = 10 /\ 13 - 4 = 9 /\ 13 - 5 = 8 /\ 13 - 6 = 7 /\ 13 - 7 = 6
      /\ 13 - 8 = 5 /\ 13 - 9 = 4 /\ 13 - 10 = 3 /\ 13 - 11 = 2 /\ 13 - 12 = 1
  OBVIOUS
<1>7. /\ D["attestations"] = IF n <= 10 THEN S["attestations"]
                             ELSE D0["attestations"]
      /\ D["pinned"] = IF n <= 9 THEN S["pinned"] ELSE D0["pinned"]
      /\ D["cas"] = IF n <= 8 THEN S["cas"] ELSE D0["cas"]
      /\ D["distrusted"] = IF n <= 7 THEN S["distrusted"] ELSE D0["distrusted"]
      /\ D["certificates"] = IF n <= 5 THEN S["certificates"]
                             ELSE D0["certificates"]
      /\ n > 4 => D["revoked-tcerts"] = D0["revoked-tcerts"]
      /\ n > 3 => D["revoked-keys"] = D0["revoked-keys"]
      /\ n > 2 => D["revoked-attestations"] = D0["revoked-attestations"]
      /\ n > 1 => D["blocked-sdocs"] = D0["blocked-sdocs"]
  <2>1. /\ D["attestations"] = IF n <= 10 THEN S["attestations"]
                               ELSE D0["attestations"]
        /\ D["pinned"] = IF n <= 9 THEN S["pinned"] ELSE D0["pinned"]
        /\ D["cas"] = IF n <= 8 THEN S["cas"] ELSE D0["cas"]
    BY <1>3, <1>4, <1>5, <1>6, CascadeOrderIs
  <2>2. /\ D["distrusted"] = IF n <= 7 THEN S["distrusted"]
                             ELSE D0["distrusted"]
        /\ D["certificates"] = IF n <= 5 THEN S["certificates"]
                               ELSE D0["certificates"]
    BY <1>3, <1>4, <1>5, <1>6, CascadeOrderIs
  <2>3. /\ n > 4 => D["revoked-tcerts"] = D0["revoked-tcerts"]
        /\ n > 3 => D["revoked-keys"] = D0["revoked-keys"]
    BY <1>3, <1>5, <1>6, CascadeOrderIs
  <2>4. /\ n > 2 => D["revoked-attestations"] = D0["revoked-attestations"]
        /\ n > 1 => D["blocked-sdocs"] = D0["blocked-sdocs"]
    BY <1>3, <1>5, <1>6, CascadeOrderIs
  <2>. QED BY <2>1, <2>2, <2>3, <2>4
<1>8. OnePerTarget = {"revoked-keys", "blocked-sdocs"}
  BY DEF OnePerTarget
<1>9. CASE n > 7
  <2>1. D["distrusted"] = D0["distrusted"]
    BY <1>7, <1>9
  <2>2. Better(D, D0, {})
    BY <1>3, <1>4, <1>7, <1>8, <1>9, <2>1 DEF Better
  <2>. QED BY <1>2, <2>2, AcceptableBetter
<1>10. CASE n \in 6..7
  <2>7. n <= 7 /\ n <= 8 /\ n <= 9 /\ n <= 10 /\ ~(n <= 5)
        /\ n > 4 /\ n > 3 /\ n > 2 /\ n > 1
    BY <1>10
  <2>8. /\ \A list \in {"pinned", "cas", "distrusted"} :
             D[list] = S[list] /\ S[list] = D0[list] \ R
        /\ D["attestations"] = {a \in D0["attestations"] :
                                  a.of \notin R /\ a.by # t}
    BY <1>3, <1>4, <1>7, <2>7, SweptIs
  <2>1. D["distrusted"] = D0["distrusted"] \ R
    BY <2>8
  <2>2. Better(D, D0, R)
    BY <1>3, <1>4, <1>7, <1>8, <2>1, <2>7 DEF Better
  <2>3. D["pinned"] = D0["pinned"] \ R /\ D["cas"] = D0["cas"] \ R
    BY <2>8
  <2>4. \A a \in D["attestations"] : a.of \notin R
    BY <2>8
  <2>5. \A ca \in R : ~SpeaksFor(D, IssuerOf[x], ca)
    BY <2>3 DEF SpeaksFor
  <2>6. IssuerOf[x] \notin R
    <3>1. ASSUME IssuerOf[x] \in R
          PROVE  FALSE
      <4>1. Attesting(D, IssuerOf[x]) = {}
        BY <2>4, <3>1 DEF Attesting
      <4>. QED BY <1>2, <2>3, <3>1, <4>1, AcceptableIs DEF SpeaksFor
    <3>. QED BY <3>1
  <2>. QED BY <1>2, <2>2, <2>5, <2>6, AcceptableBetter
<1>11. CASE n <= 5
  <2>1. \A list \in {"attestations", "pinned", "cas", "distrusted",
                     "certificates"} : D[list] = S[list]
    BY <1>7, <1>11
  <2>2. \A list \in OnePerTarget : Targets(S[list]) \subseteq Targets(D[list])
    BY <1>3, <1>4 DEF Targets
  <2>3. Better(D, S, {})
    BY <1>3, <1>4, <2>1, <2>2 DEF Better
  <2>. QED BY <1>2, <2>3, AcceptableBetter
<1>. QED BY <1>9, <1>10, <1>11

LEMMA PartSweptNothing ==
  ASSUME NEW r \in CallRecords, InOrder(r), r.tcert # NoTcert,
         NEW D0 \in Disks, Len(r.todo) >= 11
  PROVE  PartSwept(D0, r) = D0
<1>1. ASSUME NEW list \in Lists
      PROVE  ~Passed(r, list)
  <2>1. PICK k \in 3..13 : list = CascadeOrder[k]
    BY ListsSwept
  <2>2. PICK n \in 1..13 : n = Len(r.todo)
    BY CurrentOfRemoval
  <2>3. \A m \in 1..13, j \in 3..13 : m >= 11 => ~(m <= 13 - j)
    OBVIOUS
  <2>. QED BY <2>1, <2>2, <2>3, PassedIs
<1>. QED BY <1>1 DEF PartSwept, Disks

\* The removal r, begun alone when the disk was D0, and still alone: docs are
\* those that were acceptable then and those that will be.
Underway(D0, D, r, docs) ==
  /\ D0 \in Disks
  /\ r.tcert # NoTcert
  /\ D = PartSwept(D0, r)
  /\ \A list \in r.fetched : r.read[list] = D[list]
  /\ Len(r.todo) = 12 => "attestations" \in r.fetched
  /\ Len(r.todo) <= 11 =>
       r.removed = {r.tcert} \cup Orphans(r.tcert, D0["attestations"],
                                          D0["pinned"])
  /\ docs = AcceptableDocs("any", D0)
              \cup AcceptableDocs("any", SweptDisk(D0, r.tcert))

LEMMA UnderwayAccepts ==
  ASSUME NEW r \in CallRecords, InOrder(r), NEW D0, NEW D, NEW docs,
         Underway(D0, D, r, docs)
  PROVE  AcceptableDocs("any", D) \subseteq docs
<1>1. SUFFICES ASSUME NEW x \in Docs, Acceptable("any", D, x)
               PROVE  x \in docs
  BY DEF AcceptableDocs
<1>2. PICK n \in 1..13 : n = Len(r.todo)
  BY CurrentOfRemoval DEF Underway
<1>3. CASE n >= 11
  BY <1>1, <1>2, <1>3, PartSweptNothing DEF Underway, AcceptableDocs
<1>4. CASE n <= 11
  <2>1. AllSwept(D0, r) = SweptDisk(D0, r.tcert)
    BY <1>2, <1>4 DEF Underway, AllSwept, SweptDisk
  <2>. QED BY <1>1, <2>1, PartSweptAccepts DEF Underway, AcceptableDocs
<1>. QED BY <1>2, <1>3, <1>4

LEMMA UnderwayRead ==
  ASSUME NEW r \in CallRecords, InOrder(r), NEW D0, NEW D, NEW docs,
         Underway(D0, D, r, docs), NEW v \in CallRecords, InOrder(v),
         v = AfterRead(r, D[Head(r.todo).list])
  PROVE  Underway(D0, D, v, docs)
<1>1. PICK n \in 1..13 : n = Len(r.todo)
  BY CurrentOfRemoval DEF Underway
<1>2. /\ r.todo # <<>> /\ r.todo \in Seq(Edits) /\ r.tcert # NoTcert
      /\ r.read \in Disks
  BY CurrentOfRemoval DEF Underway, CallRecords
<1>3. PICK l : l = Head(r.todo).list
  OBVIOUS
<1>4. /\ v.read = [r.read EXCEPT ![l] = D[l]]
      /\ v.fetched = r.fetched \cup {l}
  BY <1>2, <1>3, AfterReadIs
<1>5. v.tcert = r.tcert
  BY <1>2, AfterReadIs
<1>6. v.todo = IF Head(r.todo).op = "load" THEN Tail(r.todo) ELSE r.todo
  BY <1>2, AfterReadIs
<1>7. v.removed = IF Head(r.todo).op = "load" /\ l = "pinned"
                  THEN {r.tcert} \cup Orphans(r.tcert, v.read["attestations"],
                                              v.read["pinned"])
                  ELSE r.removed
  BY <1>2, <1>3, AfterReadIs
<1>8. l = CascadeOrder[14 - n] /\ (Head(r.todo).op = "load" <=> n >= 12)
  BY <1>1, <1>2, <1>3, LoadedIs
<1>9. l \in Lists /\ {"attestations", "pinned"} \subseteq Lists
  <2>1. Head(r.todo) \in Edits
    BY <1>2, HeadTail
  <2>. QED BY <1>3, <2>1 DEF Edits, Lists, TcertLists, StatementLists
<1>10. \A list \in v.fetched : v.read[list] = D[list]
  BY <1>2, <1>4, <1>9 DEF Underway, Disks, CallRecords
<1>11. CASE n = 13
  <2>1. l = "attestations" /\ v.todo = Tail(r.todo)
    <3>1. 14 - n = 1 /\ n >= 12
      BY <1>11
    <3>. QED BY <1>6, <1>8, <3>1, CascadeOrderIs
  <2>2. Len(v.todo) = 12 /\ Len(v.todo) >= 11 /\ ~(Len(v.todo) <= 11)
    <3>1. Len(v.todo) = Len(r.todo) - 1
      BY <1>2, <2>1, HeadTail
    <3>2. 13 - 1 = 12 /\ 12 >= 11 /\ ~(12 <= 11)
      OBVIOUS
    <3>3. Len(v.todo) = 12
      BY <1>1, <1>11, <3>1, <3>2
    <3>. QED BY <3>2, <3>3
  <2>3. D = D0
    <3>1. Len(r.todo) >= 11
      BY <1>1, <1>11
    <3>. QED BY <3>1, PartSweptNothing DEF Underway
  <2>4. PartSwept(D0, v) = D0
    <3>1. v.tcert # NoTcert /\ D0 \in Disks
      BY <1>5 DEF Underway
    <3>. QED BY <2>2, <3>1, PartSweptNothing
  <2>. QED BY <1>4, <1>5, <1>10, <2>1, <2>2, <2>3, <2>4 DEF Underway
<1>12. CASE n = 12
  <2>1. l = "pinned" /\ v.todo = Tail(r.todo) /\ Head(r.todo).op = "load"
    <3>1. 14 - n = 2 /\ n >= 12
      BY <1>12
    <3>. QED BY <1>6, <1>8, <3>1, CascadeOrderIs
  <2>2. Len(v.todo) = 11 /\ Len(v.todo) >= 11 /\ Len(v.todo) # 12
    <3>1. Len(v.todo) = Len(r.todo) - 1
      BY <1>2, <2>1, HeadTail
    <3>2. 12 - 1 = 11 /\ 11 >= 11 /\ 11 # 12
      OBVIOUS
    <3>3. Len(v.todo) = 11
      BY <1>1, <1>12, <3>1, <3>2
    <3>. QED BY <3>2, <3>3
  <2>3. D = D0
    <3>1. Len(r.todo) >= 11
      BY <1>1, <1>12
    <3>. QED BY <3>1, PartSweptNothing DEF Underway
  <2>4. PartSwept(D0, v) = D0
    <3>1. v.tcert # NoTcert /\ D0 \in Disks
      BY <1>5 DEF Underway
    <3>. QED BY <2>2, <3>1, PartSweptNothing
  <2>5. "attestations" \in r.fetched
    BY <1>1, <1>12 DEF Underway
  <2>6. v.read["attestations"] = D0["attestations"]
        /\ v.read["pinned"] = D0["pinned"]
    BY <1>4, <1>10, <2>1, <2>3, <2>5
  <2>. QED BY <1>5, <1>7, <1>10, <2>1, <2>2, <2>3, <2>4, <2>6 DEF Underway
<1>13. CASE n <= 11
  <2>1. v.todo = r.todo /\ v.removed = r.removed
    <3>1. ~(n >= 12)
      BY <1>13
    <3>. QED BY <1>6, <1>7, <1>8, <3>1
  <2>2. PartSwept(D0, v) = PartSwept(D0, r)
    BY <1>5, <2>1 DEF PartSwept, Passed
  <2>3. Len(v.todo) # 12 /\ Len(r.todo) <= 11
    <3>1. \A m \in 1..13 : m <= 11 => m # 12
      OBVIOUS
    <3>. QED BY <1>1, <1>13, <2>1, <3>1
  <2>. QED BY <1>5, <1>10, <2>1, <2>2, <2>3 DEF Underway
<1>. QED BY <1>11, <1>12, <1>13

AfterSweep(D, r) ==
  [D EXCEPT ![Head(r.todo).list] =
     Written(Head(r.todo), r, D[Head(r.todo).list])]

LEMMA UnderwayWrite ==
  ASSUME NEW r \in CallRecords, InOrder(r), NEW D0, NEW D, NEW docs,
         Underway(D0, D, r, docs), r.objects = {}, NEW l,
         l = Head(r.todo).list, l \in r.fetched, Head(r.todo).op # "load",
         NEW N, N = AfterSweep(D, r),
         NEW v \in CallRecords, v = AfterWrite(r), InOrder(v)
  PROVE  \/ v = Idle /\ AcceptableDocs("any", N) \subseteq docs
         \/ Underway(D0, N, v, docs)
<1>1. PICK n \in 1..13 : n = Len(r.todo)
  BY CurrentOfRemoval DEF Underway
<1>2. /\ r.todo # <<>> /\ r.todo \in Seq(Edits) /\ r.tcert # NoTcert
      /\ r.read \in Disks
  BY CurrentOfRemoval DEF Underway, CallRecords
<1>3. l = CascadeOrder[14 - n] /\ ~(n >= 12) /\ n <= 11
  BY <1>1, LoadedIs DEF Underway
<1>4. DOMAIN N = Lists /\ N = [list \in Lists |-> N[list]]
  BY DEF Underway, PartSwept, AfterSweep
<1>5. r.removed = {r.tcert} \cup Orphans(r.tcert, D0["attestations"],
                                         D0["pinned"])
  BY <1>1, <1>3 DEF Underway
<1>6. \A list \in Lists : \A k \in 3..13 : list = CascadeOrder[k] =>
        N[list] = IF n - 1 <= 13 - k
                  THEN Swept(list, D0[list], r.tcert, r.removed)
                  ELSE D0[list]
  <2>1. SUFFICES ASSUME NEW list \in Lists, NEW k \in 3..13,
                        list = CascadeOrder[k]
                 PROVE  N[list] = IF n - 1 <= 13 - k
                                  THEN Swept(list, D0[list], r.tcert, r.removed)
                                  ELSE D0[list]
    OBVIOUS
  <2>2. Head(r.todo).op = "sweep"
    BY <1>1, <1>2, <1>3, LoadedIs
  <2>3. 14 - n \in 3..13
    BY <1>3
  <2>4. \A m \in 1..13, j \in 3..13 :
          m - 1 <= 13 - j <=> m <= 13 - j \/ j = 14 - m
    OBVIOUS
  <2>5. \A m \in 1..13 : 14 - m \in 3..13 => ~(m <= 13 - (14 - m))
    OBVIOUS
  <2>6. D[list] = IF n <= 13 - k THEN Swept(list, D0[list], r.tcert, r.removed)
                  ELSE D0[list]
    <3>1. r.tcert # NoTcert /\ D = PartSwept(D0, r)
      BY DEF Underway
    <3>2. Passed(r, CascadeOrder[k]) <=> Len(r.todo) <= 13 - k
      BY <3>1, PassedIs
    <3>3. Passed(r, list) <=> n <= 13 - k
      BY <1>1, <2>1, <3>2
    <3>. QED BY <3>1, <3>3 DEF PartSwept
  <2>7. list = l <=> k = 14 - n
    <3>1. PICK j \in 3..13 : j = 14 - n
      BY <2>3
    <3>. QED BY <1>3, <2>1, <3>1, SweepsOnce
  <2>8. CASE k = 14 - n
    <3>1. D[l] = D0[l]
      BY <1>1, <2>5, <2>6, <2>7, <2>8
    <3>2. r.read[l] = D0[l]
      BY <3>1 DEF Underway
    <3>3. Written(Head(r.todo), r, D[l])
            = Swept(l, D0[l], r.tcert, r.removed)
      BY <2>2, <3>2 DEF Written
    <3>4. D \in [Lists -> {D[x] : x \in Lists}]
      BY DEF Underway, PartSwept
    <3>5. N[l] = Swept(l, D0[l], r.tcert, r.removed)
      BY <2>7, <2>8, <3>3, <3>4 DEF AfterSweep
    <3>. QED BY <1>1, <2>4, <2>7, <2>8, <3>5
  <2>9. CASE k # 14 - n
    <3>1. D \in [Lists -> {D[x] : x \in Lists}]
      BY DEF Underway, PartSwept
    <3>2. N[list] = D[list]
      BY <2>7, <2>9, <3>1 DEF AfterSweep
    <3>3. n - 1 <= 13 - k <=> n <= 13 - k
      BY <2>4, <2>9
    <3>. QED BY <1>1, <2>6, <3>2, <3>3
  <2>. QED BY <2>8, <2>9
<1>7. CASE n = 1
  <2>1. v = Idle
    BY <1>1, <1>2, <1>7, AfterWriteIs
  <2>2. ASSUME NEW list \in Lists
        PROVE  N[list] = Swept(list, D0[list], r.tcert, r.removed)
    <3>1. PICK k \in 3..13 : list = CascadeOrder[k]
      BY ListsSwept
    <3>2. \A j \in 3..13 : 1 - 1 <= 13 - j
      OBVIOUS
    <3>3. N[list] = IF n - 1 <= 13 - k
                    THEN Swept(list, D0[list], r.tcert, r.removed)
                    ELSE D0[list]
      BY <1>6, <3>1
    <3>. QED BY <1>1, <1>7, <3>2, <3>3
  <2>3. N = SweptDisk(D0, r.tcert)
    BY <1>4, <1>5, <2>2 DEF SweptDisk
  <2>. QED BY <2>1, <2>3 DEF Underway
<1>8. CASE n # 1
  <2>1. /\ v.todo = Tail(r.todo)
        /\ v.read = [r.read EXCEPT ![l] = {}]
        /\ v.fetched = r.fetched \ {l}
    BY <1>1, <1>2, <1>8, AfterWriteIs
  <2>2. v.tcert = r.tcert /\ v.removed = r.removed
    BY <1>1, <1>2, <1>8, AfterWriteIs
  <2>3. Len(v.todo) = n - 1
    BY <1>1, <1>2, <2>1, HeadTail
  <2>4. ASSUME NEW list \in Lists
        PROVE  N[list] = PartSwept(D0, v)[list]
    <3>1. PICK k \in 3..13 : list = CascadeOrder[k]
      BY ListsSwept
    <3>2. N[list] = IF n - 1 <= 13 - k
                    THEN Swept(list, D0[list], r.tcert, r.removed)
                    ELSE D0[list]
      BY <1>6, <3>1
    <3>3. PartSwept(D0, v)[list]
            = IF Len(v.todo) <= 13 - k
              THEN Swept(list, D0[list], v.tcert, v.removed) ELSE D0[list]
      <4>1. v.tcert # NoTcert
        BY <1>2, <2>2
      <4>. QED BY <3>1, <4>1, PartSweptIs
    <3>. QED BY <1>1, <2>2, <2>3, <3>2, <3>3
  <2>5. N = PartSwept(D0, v)
    <3>1. PartSwept(D0, v) = [list \in Lists |-> PartSwept(D0, v)[list]]
      BY DEF PartSwept
    <3>. QED BY <1>4, <2>4, <3>1
  <2>6. ASSUME NEW list \in v.fetched
        PROVE  v.read[list] = N[list]
    <3>1. list \in r.fetched /\ list # l
      BY <2>1
    <3>2. list \in Lists
      BY <3>1 DEF CallRecords
    <3>3. /\ r.read \in [Lists -> SUBSET Entries]
          /\ D \in [Lists -> {D[x] : x \in Lists}]
      BY <1>2 DEF Underway, PartSwept, Disks
    <3>4. v.read[list] = r.read[list] /\ N[list] = D[list]
      BY <2>1, <3>1, <3>2, <3>3 DEF AfterSweep
    <3>5. r.read[list] = D[list]
      BY <3>1 DEF Underway
    <3>. QED BY <3>4, <3>5
  <2>7. Len(v.todo) # 12
    <3>1. \A m \in 1..13 : m <= 11 => m - 1 # 12
      OBVIOUS
    <3>. QED BY <1>3, <2>3, <3>1
  <2>8. Underway(D0, N, v, docs)
    BY <1>2, <1>5, <2>2, <2>5, <2>6, <2>7 DEF Underway
  <2>. QED BY <2>8
<1>. QED BY <1>7, <1>8

\* What allowed holds: everything once calls have interleaved; else, where
\* the removal in progress is, or that it has ended, or was stopped.
RemovalSoFar ==
  policy = "any" =>
    \/ allowed = Docs
    \/ /\ \A c \in Callers : ~Active(c)
       /\ AcceptableDocs("any", disk) \subseteq allowed
    \/ /\ ~Active("import")
       /\ \E D0 : Underway(D0, disk, call["user"], allowed)

LEMMA RemovalBegins ==
  ASSUME Typed, RemovalSoFar, NEW c \in Callers, NEW r, NewCall(c, r),
         Begin(c, r)
  PROVE  RemovalSoFar'
<1>1. /\ policy' = policy /\ disk' = disk
      /\ allowed' = IF r.tcert = NoTcert \/ \E o \in Callers : Active(o)
                    THEN Docs
                    ELSE AcceptableDocs(policy, disk)
                           \cup AcceptableDocs(policy, SweptDisk(disk, r.tcert))
      /\ call' = [call EXCEPT ![c] = r]
  BY DEF Begin
<1>2. CASE allowed' = Docs
  BY <1>2 DEF RemovalSoFar
<1>3. CASE r.tcert # NoTcert /\ (\A o \in Callers : ~Active(o))
           /\ policy = "any"
  <2>1. c = "user" /\ Len(r.todo) = 13 /\ r.fetched = {}
        /\ r \in CallRecords /\ InOrder(r)
    BY <1>3, NewCallIs DEF TypedCall
  <2>2. call'["user"] = r /\ call'["import"] = call["import"]
    BY <1>1, <2>1, CallerStep DEF Callers
  <2>3. disk \in Disks
    BY DEF Typed, TypeOK
  <2>4. 13 >= 11 /\ 13 # 12 /\ ~(13 <= 11)
    OBVIOUS
  <2>5. PartSwept(disk, r) = disk
    BY <1>3, <2>1, <2>3, <2>4, PartSweptNothing
  <2>6. Underway(disk, disk, r, allowed')
    BY <1>1, <1>3, <2>1, <2>3, <2>4, <2>5 DEF Underway
  <2>7. ~Active("import")'
    BY <1>3, <2>2 DEF Active, Callers
  <2>. QED BY <1>1, <2>2, <2>6, <2>7 DEF RemovalSoFar
<1>4. CASE policy # "any"
  BY <1>1, <1>4 DEF RemovalSoFar
<1>. QED BY <1>1, <1>2, <1>3, <1>4

LEMMA RemovalReads ==
  ASSUME Typed, Typed', RemovalSoFar, NEW c \in Callers, Read(c)
  PROVE  RemovalSoFar'
<1>1. UNCHANGED <<disk, policy, allowed>>
  BY ReadIs
<1>2. CASE policy # "any" \/ allowed = Docs
  BY <1>1, <1>2 DEF RemovalSoFar
<1>3. CASE policy = "any" /\ allowed # Docs
  <2>1. Active(c)
    BY DEF Read, Active
  <2>2. PICK D0 : Underway(D0, disk, call["user"], allowed)
    BY <1>3, <2>1 DEF RemovalSoFar
  <2>3. ~Active("import") /\ c = "user"
    BY <1>3, <2>1 DEF RemovalSoFar, Callers
  <2>4. PICK r, v : r = call["user"] /\ v = call'["user"]
    OBVIOUS
  <2>5. /\ r \in CallRecords /\ InOrder(r)
        /\ v \in CallRecords /\ InOrder(v)
    BY <2>4 DEF Typed, TypeOK, CallsInOrder, Callers
  <2>6. v = AfterRead(r, disk[Head(r.todo).list])
        /\ call'["import"] = call["import"]
    BY <2>3, <2>4, ReadIs DEF Callers
  <2>7. Underway(D0, disk, v, allowed)
    BY <2>2, <2>4, <2>5, <2>6, UnderwayRead
  <2>8. ~Active("import")'
    BY <2>3, <2>6 DEF Active
  <2>. QED BY <1>1, <2>4, <2>7, <2>8 DEF RemovalSoFar
<1>. QED BY <1>2, <1>3

LEMMA RemovalWrites ==
  ASSUME Typed, Typed', RemovalSoFar, NEW c \in Callers, Write(c)
  PROVE  RemovalSoFar'
<1>1. UNCHANGED <<policy, allowed>>
  BY WriteIs
<1>2. CASE policy # "any" \/ allowed = Docs
  BY <1>1, <1>2 DEF RemovalSoFar
<1>3. CASE policy = "any" /\ allowed # Docs
  <2>1. Active(c)
    BY DEF Write, Active
  <2>2. PICK D0 : Underway(D0, disk, call["user"], allowed)
    BY <1>3, <2>1 DEF RemovalSoFar
  <2>3. ~Active("import") /\ c = "user"
    BY <1>3, <2>1 DEF RemovalSoFar, Callers
  <2>4. PICK r, v : r = call["user"] /\ v = call'["user"]
    OBVIOUS
  <2>5. /\ r \in CallRecords /\ InOrder(r) /\ r.objects = {}
        /\ v \in CallRecords /\ InOrder(v)
    BY <2>4 DEF Typed, TypeOK, CallsInOrder, Callers
  <2>6. v = AfterWrite(r) /\ call'["import"] = call["import"]
    BY <2>3, <2>4, WriteIs DEF Callers
  <2>7. disk' = AfterSweep(disk, r) /\ Head(r.todo).op # "load"
        /\ Head(r.todo).list \in r.fetched
    BY <2>3, <2>4, WriteIs DEF AfterSweep
  <2>8. ~Active("import")'
    BY <2>3, <2>6 DEF Active
  <2>9. \/ v = Idle /\ AcceptableDocs("any", disk') \subseteq allowed
        \/ Underway(D0, disk', v, allowed)
    BY <2>2, <2>4, <2>5, <2>6, <2>7, UnderwayWrite
  <2>10. CASE v = Idle /\ AcceptableDocs("any", disk') \subseteq allowed
    <3>1. ~Active("user")'
      BY <2>4, <2>10, IdleIs DEF Active
    <3>. QED BY <1>1, <2>8, <2>10, <3>1 DEF RemovalSoFar, Callers
  <2>11. CASE Underway(D0, disk', v, allowed)
    BY <1>1, <2>4, <2>8, <2>11 DEF RemovalSoFar
  <2>. QED BY <2>9, <2>10, <2>11
<1>. QED BY <1>2, <1>3

LEMMA RemovalSoFarStep ==
  ASSUME Typed, Typed', RemovalSoFar, [Next]_vars
  PROVE  RemovalSoFar'
<1>1. CASE UNCHANGED vars
  BY <1>1 DEF vars, RemovalSoFar, Active
<1>2. ASSUME NEW o \in call["import"].objects, TakeObject(o)
      PROVE  RemovalSoFar'
  <2>1. UNCHANGED <<policy, allowed>>
    BY <1>2, TakeObjectIs
  <2>2. Active("import")
    BY <1>2 DEF Active
  <2>3. policy # "any" \/ allowed = Docs
    BY <2>2 DEF RemovalSoFar, Callers
  <2>. QED BY <2>1, <2>3 DEF RemovalSoFar
<1>3. ASSUME Stop
      PROVE  RemovalSoFar'
  <2>1. UNCHANGED <<disk, policy, allowed>>
        /\ \A c \in Callers : call'[c] = Idle
    BY <1>3 DEF Stop
  <2>2. \A c \in Callers : ~Active(c)'
    BY <2>1, IdleIs DEF Active
  <2>3. ASSUME NEW D0, Underway(D0, disk, call["user"], allowed)
        PROVE  AcceptableDocs("any", disk) \subseteq allowed
    <3>1. PICK r : r = call["user"]
      OBVIOUS
    <3>2. r \in CallRecords /\ InOrder(r)
      BY <3>1 DEF Typed, TypeOK, CallsInOrder, Callers
    <3>. QED BY <2>3, <3>1, <3>2, UnderwayAccepts
  <2>. QED BY <2>1, <2>2, <2>3 DEF RemovalSoFar
<1>4. ASSUME CheckStep \/ \E x \in Docs : StartCheck(x)
      PROVE  RemovalSoFar'
  BY <1>4, CheckStepIs DEF RemovalSoFar, Active
<1>. QED
  BY <1>1, <1>2, <1>3, <1>4, NextCases, RemovalBegins, RemovalReads,
     RemovalWrites

\* However far a removal has got, and if it is stopped there, no document is
\* acceptable that neither was before it nor is after it.
THEOREM RemovalGrantsNothingHolds == Spec => []RemovalGrantsNothing
<1>1. Init => RemovalSoFar
  BY DEF Init, RemovalSoFar
<1>2. Typed /\ Typed' /\ RemovalSoFar /\ [Next]_vars => RemovalSoFar'
  BY RemovalSoFarStep
<1>3. Typed /\ RemovalSoFar => RemovalGrantsNothing
  <2>1. SUFFICES ASSUME Typed, RemovalSoFar, policy = "any"
                 PROVE  AcceptableDocs("any", disk) \subseteq allowed
    BY DEF RemovalGrantsNothing
  <2>2. ASSUME NEW D0, Underway(D0, disk, call["user"], allowed)
        PROVE  AcceptableDocs("any", disk) \subseteq allowed
    <3>1. PICK r : r = call["user"]
      OBVIOUS
    <3>2. r \in CallRecords /\ InOrder(r)
      BY <2>1, <3>1 DEF Typed, TypeOK, CallsInOrder, Callers
    <3>. QED BY <2>2, <3>1, <3>2, UnderwayAccepts
  <2>. QED BY <2>1, <2>2 DEF RemovalSoFar, AcceptableDocs
<1>. QED BY <1>1, <1>2, <1>3, TypedAlways, PTL DEF Spec

-----------------------------------------------------------------------------
(* A valid verdict had its moment.                                         *)

\* What the verification k has read says no more than is so in M.
Facts(k, M) ==
  LET t == IssuerOf[k.doc]
  IN /\ \A j \in 1..5 : k.at # "core" \/ j < k.next =>
          ~Refuses(CoreReads[j], M[CoreReads[j]], k.doc)
     /\ k.pinned => k.at \in {"attestations", "views"} /\ t \in M["pinned"]
     /\ k.at = "views" =>
          /\ k.speaking \subseteq Attesting(M, t)
          /\ \A ca \in k.speaking : \A j \in 1..13 : j < k.next =>
               ~Silences(CaReads[j], M[ListOf(CaReads[j])], t, ca)
          /\ k.next > 2 => k.speaking \subseteq M["pinned"] \cup M["cas"]
          /\ k.next \in {2, 11} => k.trusted \subseteq M["pinned"]

LEMMA BetterIs ==
  /\ \A N, M : (\A list \in Lists \ {"sdoc-statements", "archived-tcerts"} :
                  N[list] = M[list]) => Better(N, M, {})
  /\ \A N, M, P : Better(N, M, {}) /\ Better(M, P, {}) => Better(N, P, {})
<1>1. {"attestations", "pinned", "cas", "certificates", "distrusted",
       "revoked-tcerts", "revoked-attestations"} \cup OnePerTarget
        \subseteq Lists \ {"sdoc-statements", "archived-tcerts"}
  BY DEF Lists, TcertLists, StatementLists, OnePerTarget
<1>2. ASSUME NEW N, NEW M,
             \A list \in Lists \ {"sdoc-statements", "archived-tcerts"} :
               N[list] = M[list]
      PROVE  Better(N, M, {})
  BY <1>1, <1>2 DEF Better
<1>3. ASSUME NEW N, NEW M, NEW P, Better(N, M, {}), Better(M, P, {})
      PROVE  Better(N, P, {})
  BY <1>3 DEF Better
<1>. QED BY <1>2, <1>3

LEMMA FactsBetter ==
  ASSUME NEW k, NEW M, NEW N, Facts(k, M), Better(M, N, {})
  PROVE  Facts(k, N)
<1>1. PICK t : t = IssuerOf[k.doc]
  OBVIOUS
<1>2. ASSUME NEW j \in 1..5, k.at # "core" \/ j < k.next
      PROVE  ~Refuses(CoreReads[j], N[CoreReads[j]], k.doc)
  <2>1. ~Refuses(CoreReads[j], M[CoreReads[j]], k.doc)
    BY <1>2 DEF Facts
  <2>. QED BY <2>1, RefusesBetter
<1>3. ASSUME k.at = "views", NEW ca \in k.speaking, NEW j \in 1..13,
             j < k.next
      PROVE  ~Silences(CaReads[j], N[ListOf(CaReads[j])], t, ca)
  <2>1. ~Silences(CaReads[j], M[ListOf(CaReads[j])], t, ca)
    BY <1>1, <1>3 DEF Facts
  <2>. QED BY <2>1, SilencesBetter
<1>4. M["pinned"] \subseteq N["pinned"] /\ M["cas"] \subseteq N["cas"]
      /\ Attesting(M, t) \subseteq Attesting(N, t)
  BY AttestingBetter DEF Better
<1>5. k.pinned => k.at \in {"attestations", "views"} /\ t \in N["pinned"]
  BY <1>1, <1>4 DEF Facts
<1>6. ASSUME k.at = "views"
      PROVE  /\ k.speaking \subseteq Attesting(N, t)
             /\ k.next > 2 => k.speaking \subseteq N["pinned"] \cup N["cas"]
             /\ k.next \in {2, 11} => k.trusted \subseteq N["pinned"]
  BY <1>1, <1>4, <1>6 DEF Facts
<1>. QED BY <1>1, <1>2, <1>3, <1>5, <1>6 DEF Facts

\* Once a CA has been looked up again, the reads that are left repeat others.
LEMMA FactsSpeak ==
  ASSUME NEW k \in CheckRecords, NEW M, Facts(k, M), k.at = "views",
         NEW n \in 1..14, n = k.next, n >= 10, NEW ca \in k.speaking
  PROVE  SpeaksFor(M, IssuerOf[k.doc], ca) /\ Clear(M, k.doc)
<1>1. PICK t : t = IssuerOf[k.doc]
  OBVIOUS
<1>2. Clear(M, k.doc)
  BY DEF Facts, Clear
<1>3. \A j \in 1..9 : j \in 1..13 /\ j < n
  OBVIOUS
<1>4. \A j \in 1..9 : ~Silences(CaReads[j], M[ListOf(CaReads[j])], t, ca)
  BY <1>1, <1>3 DEF Facts
<1>5. {1, 2, 3, 4, 5, 6, 7, 8, 9} \subseteq 1..9
      /\ {1, 2, 3, 4, 5} \subseteq 1..5 /\ n > 2
  OBVIOUS
<1>6. ca \in Attesting(M, t) /\ ca \in M["pinned"] \cup M["cas"]
  BY <1>1, <1>5 DEF Facts
<1>7. ASSUME NEW j \in 10..13
      PROVE  ~Silences(CaReads[j], M[ListOf(CaReads[j])], t, ca)
  <2>1. j \in {10, 11, 12, 13}
    OBVIOUS
  <2>2. CASE j \in {10, 11}
    BY <2>2, CaReadsIs DEF Silences
  <2>3. CASE j = 12
    <3>1. CaReads[12] = CaReads[4]
      BY CaReadsIs
    <3>. QED BY <1>4, <1>5, <2>3, <3>1
  <2>4. CASE j = 13
    <3>1. ~Refuses("certificates", M["certificates"], k.doc)
      BY <1>2, <1>5, CoreReadsIs DEF Clear
    <3>2. t \in M["certificates"]
      BY <1>1, <3>1 DEF Refuses
    <3>. QED BY <2>4, <3>2, CaReadsIs DEF Silences, ListOf
  <2>. QED BY <2>1, <2>2, <2>3, <2>4
<1>8. \A j \in 1..13 : j \in 1..9 \/ j \in 10..13
  OBVIOUS
<1>. QED BY <1>1, <1>2, <1>4, <1>6, <1>7, <1>8 DEF SpeaksFor

LEMMA FactsAccept ==
  ASSUME NEW k \in CheckRecords, NEW M, Facts(k, M),
         k.at \in {"attestations", "views"},
         \/ k.pinned
         \/ /\ k.at = "views" /\ k.next \in 1..14 /\ k.next >= 10
            /\ k.speaking # {}
  PROVE  Acceptable("any", M, k.doc)
<1>1. CASE k.pinned
  <2>1. Clear(M, k.doc)
    BY DEF Facts, Clear
  <2>. QED BY <1>1, <2>1, AcceptableIs DEF Facts
<1>2. CASE ~k.pinned
  <2>1. PICK ca \in k.speaking : TRUE
    BY <1>2
  <2>2. PICK n \in 1..14 : n = k.next /\ n >= 10
    BY <1>2
  <2>3. SpeaksFor(M, IssuerOf[k.doc], ca) /\ Clear(M, k.doc)
    BY <1>2, <2>1, <2>2, FactsSpeak
  <2>. QED BY <2>3, AcceptableIs
<1>. QED BY <1>1, <1>2
LEMMA CoreReadKeeps ==
  ASSUME Typed, CheckInOrder, ReadForCore, Checking', NEW M,
         Facts(check, M), Better(disk, M, {})
  PROVE  /\ Facts(check', M) /\ check'.at \in {"core", "distrusted"}
         /\ ~check'.pinned /\ check'.doc = check.doc /\ UNCHANGED seen
         /\ check'.verdict = check.verdict
<1>1. check \in CheckRecords
  BY DEF Typed, TypeOK
<1>2. check.at = "core" /\ check.next \in 1..5
  BY OrderlyIs DEF ReadForCore, Orderly
<1>3. PICK n \in 1..5 : n = check.next
  BY <1>2
<1>4. PICK list : list = CoreReads[n]
  OBVIOUS
<1>5. \A verdict : ~Return(verdict)
  BY DEF Return, Unstarted, Checking
<1>6. /\ ~Refuses(list, disk[list], check.doc)
      /\ check' = [check EXCEPT !.next = @ + 1,
                     !.at = IF check.next = Len(CoreReads)
                            THEN "distrusted" ELSE @]
      /\ UNCHANGED seen
  BY <1>3, <1>4, <1>5 DEF ReadForCore
<1>7. /\ check'.at = IF n = 5 THEN "distrusted" ELSE "core"
      /\ check'.next = n + 1 /\ check'.doc = check.doc
      /\ check'.pinned = check.pinned /\ check'.verdict = check.verdict
  BY <1>1, <1>2, <1>3, <1>6, CoreReadsIs DEF CheckRecords
<1>8. ~check.pinned
  BY <1>2 DEF Facts
<1>9. ASSUME NEW j \in 1..5, check'.at # "core" \/ j < check'.next
      PROVE  ~Refuses(CoreReads[j], M[CoreReads[j]], check.doc)
  <2>1. \A m, i \in 1..5 : (m = 5 \/ i < m + 1) => i < m \/ i = m
    OBVIOUS
  <2>2. j < n \/ j = n
    BY <1>7, <1>9, <2>1
  <2>3. CASE j < n
    BY <1>3, <2>3 DEF Facts
  <2>4. CASE j = n
    BY <1>4, <1>6, <2>4, RefusesBetter
  <2>. QED BY <2>2, <2>3, <2>4
<1>10. Facts(check', M)
  BY <1>7, <1>8, <1>9 DEF Facts
<1>. QED BY <1>6, <1>7, <1>8, <1>10

LEMMA TrustReadsKeep ==
  ASSUME Typed, ReadDistrusted \/ ReadPinned \/ ReadAttestations, NEW M,
         Facts(check, M), Better(disk, M, {})
  PROVE  /\ Facts(check', M)
         /\ check'.at \in {"pinned", "attestations", "views"}
         /\ check'.at = "views" => check'.next = 1
         /\ check'.pinned =>
              \/ check.pinned
              \/ check.at = "pinned" /\ IssuerOf[check.doc] \in disk["pinned"]
         /\ check'.doc = check.doc /\ UNCHANGED seen
         /\ check'.verdict = check.verdict
<1>1. check \in CheckRecords
  BY DEF Typed, TypeOK
<1>2. PICK t : t = IssuerOf[check.doc]
  OBVIOUS
<1>3. check.at # "core"
  BY DEF ReadDistrusted, ReadPinned, ReadAttestations
<1>4. \A j \in 1..5 : ~Refuses(CoreReads[j], M[CoreReads[j]], check.doc)
  BY <1>3 DEF Facts
<1>5. CASE ReadDistrusted
  <2>1. /\ check'.at \in {"pinned", "attestations"}
        /\ check'.doc = check.doc /\ check'.pinned = check.pinned
        /\ check'.verdict = check.verdict /\ check.at = "distrusted"
        /\ UNCHANGED seen
    BY <1>1, <1>5 DEF ReadDistrusted, CheckRecords
  <2>. QED BY <1>4, <2>1 DEF Facts
<1>6. CASE ReadPinned
  <2>1. /\ check'.at = "attestations" /\ check.at = "pinned"
        /\ check'.doc = check.doc /\ (check'.pinned <=> t \in disk["pinned"])
        /\ check'.verdict = check.verdict /\ UNCHANGED seen
    BY <1>1, <1>2, <1>6 DEF ReadPinned, CheckRecords
  <2>2. disk["pinned"] \subseteq M["pinned"]
    BY DEF Better
  <2>. QED BY <1>2, <1>4, <2>1, <2>2 DEF Facts
<1>7. CASE ReadAttestations
  <2>1. /\ check'.at = "views" /\ check.at = "attestations"
        /\ check'.next = 1
        /\ check'.doc = check.doc /\ check'.pinned = check.pinned
        /\ check'.verdict = check.verdict /\ UNCHANGED seen
        /\ check'.speaking = Attesting(disk, t)
    BY <1>1, <1>2, <1>7 DEF ReadAttestations, CheckRecords
  <2>2. Attesting(disk, t) \subseteq Attesting(M, t)
    BY AttestingBetter
  <2>3. ~(1 > 2) /\ 1 \notin {2, 11} /\ \A j \in 1..13 : ~(j < 1)
    OBVIOUS
  <2>4. check.pinned => t \in M["pinned"]
    BY <1>2 DEF Facts
  <2>. QED BY <1>2, <1>4, <2>1, <2>2, <2>3, <2>4 DEF Facts
<1>. QED BY <1>5, <1>6, <1>7

\* One more read of the views.
LEMMA ViewReadIs ==
  ASSUME Typed, CheckInOrder, ReadForViews
  PROVE  LET n == check.next
             read == CaReads[n]
             value == disk[ListOf(read)]
         IN
           /\ n \in 1..13
           /\ check.at = "views" /\ check'.at = "views" /\ check'.next = n + 1
           /\ check'.doc = check.doc /\ check'.pinned = check.pinned
           /\ check'.verdict = check.verdict /\ UNCHANGED seen
           /\ check'.speaking = Heard(read, value, IssuerOf[check.doc],
                                      check.speaking, check.trusted)
           /\ check'.trusted = IF read = "pinned" THEN check.speaking \cap value
                               ELSE {}
<1>1. check \in CheckRecords
  BY DEF Typed, TypeOK
<1>2. check.at = "views" /\ check.next \in 1..14 /\ check.next <= 13
  BY OrderlyIs, CaReadsIs DEF ReadForViews, Orderly
<1>3. \A m \in 1..14 : m <= 13 => m \in 1..13
  OBVIOUS
<1>4. PICK n \in 1..13 : n = check.next
  BY <1>2, <1>3
<1>5. PICK read, value : read = CaReads[n] /\ value = disk[ListOf(read)]
  OBVIOUS
<1>6. /\ check' = [check EXCEPT !.next = @ + 1,
           !.speaking = Heard(read, value, IssuerOf[check.doc], @, check.trusted),
           !.trusted = IF read = "pinned" THEN check.speaking \cap value ELSE {}]
      /\ UNCHANGED seen
  BY <1>4, <1>5 DEF ReadForViews
<1>7. /\ check'.at = "views" /\ check'.next = n + 1
      /\ check'.doc = check.doc /\ check'.pinned = check.pinned
      /\ check'.verdict = check.verdict
      /\ check'.speaking = Heard(read, value, IssuerOf[check.doc],
                                 check.speaking, check.trusted)
      /\ check'.trusted = IF read = "pinned" THEN check.speaking \cap value
                          ELSE {}
  BY <1>1, <1>2, <1>4, <1>6 DEF CheckRecords
<1>. QED BY <1>2, <1>4, <1>5, <1>6, <1>7

LEMMA ViewReadKeeps ==
  ASSUME Typed, CheckInOrder, ReadForViews, NEW M,
         Facts(check, M), Better(disk, M, {})
  PROVE  Facts(check', M)
<1>0. PICK n \in 1..13 : n = check.next
  BY ViewReadIs
<1>1. PICK read, value :
        /\ n = check.next /\ read = CaReads[n]
        /\ value = disk[ListOf(read)]
        /\ check.at = "views" /\ check'.at = "views" /\ check'.next = n + 1
        /\ check'.doc = check.doc /\ check'.pinned = check.pinned
        /\ check'.speaking = Heard(read, value, IssuerOf[check.doc],
                                   check.speaking, check.trusted)
        /\ check'.trusted = IF read = "pinned" THEN check.speaking \cap value
                            ELSE {}
  BY <1>0, ViewReadIs
<1>2. PICK t : t = IssuerOf[check.doc]
  OBVIOUS
<1>3. check'.speaking \subseteq check.speaking
  BY <1>1, HeardTyped
<1>4. /\ \A j \in 1..5 : ~Refuses(CoreReads[j], M[CoreReads[j]], check.doc)
      /\ check.pinned => t \in M["pinned"]
      /\ check.speaking \subseteq Attesting(M, t)
      /\ \A ca \in check.speaking : \A j \in 1..13 : j < n =>
           ~Silences(CaReads[j], M[ListOf(CaReads[j])], t, ca)
      /\ n > 2 => check.speaking \subseteq M["pinned"] \cup M["cas"]
      /\ n \in {2, 11} => check.trusted \subseteq M["pinned"]
  BY <1>1, <1>2 DEF Facts
<1>5. disk["pinned"] \subseteq M["pinned"] /\ disk["cas"] \subseteq M["cas"]
  BY DEF Better
<1>6. ASSUME NEW ca \in check'.speaking, NEW j \in 1..13, j < n + 1
      PROVE  ~Silences(CaReads[j], M[ListOf(CaReads[j])], t, ca)
  <2>1. CASE j < n
    BY <1>3, <1>4, <1>6, <2>1
  <2>2. CASE j = n
    <3>1. CASE read \in {"pinned", "cas"}
      BY <1>1, <2>2, <3>1 DEF Silences
    <3>2. CASE read \notin {"pinned", "cas"}
      <4>1. ~Silences(read, value, t, ca)
        BY <1>1, <1>2, <1>6, <3>2 DEF Heard
      <4>. QED BY <1>1, <2>2, <4>1, SilencesBetter
    <3>. QED BY <3>1, <3>2
  <2>3. j < n \/ j = n
    BY <1>6
  <2>. QED BY <2>1, <2>2, <2>3
<1>7. n + 1 > 2 => check'.speaking \subseteq M["pinned"] \cup M["cas"]
  <2>1. CASE n = 1
    BY <2>1
  <2>2. CASE n = 2
    <3>1. read = "cas" /\ value = disk["cas"]
      BY <1>1, <2>2, CaReadsIs DEF ListOf
    <3>2. check'.speaking = check.speaking \cap (check.trusted \cup value)
      BY <1>1, <3>1 DEF Heard
    <3>. QED BY <1>4, <1>5, <2>2, <3>1, <3>2
  <2>3. CASE n > 2
    BY <1>3, <1>4, <2>3
  <2>. QED BY <2>1, <2>2, <2>3
<1>8. n + 1 \in {2, 11} => check'.trusted \subseteq M["pinned"]
  <2>1. ASSUME n + 1 \in {2, 11}
        PROVE  read = "pinned" /\ value = disk["pinned"]
    <3>1. n = 1 \/ n = 10
      BY <2>1
    <3>. QED BY <1>1, <3>1, CaReadsIs DEF ListOf
  <2>. QED BY <1>1, <1>5, <2>1
<1>9. check'.speaking \subseteq Attesting(M, t)
  BY <1>3, <1>4
<1>10. check'.pinned => t \in M["pinned"]
  BY <1>1, <1>4
<1>. QED BY <1>1, <1>2, <1>4, <1>6, <1>7, <1>8, <1>9, <1>10 DEF Facts
\* Better, list by list.
Kinder(l, V, W) ==
  /\ l \in {"attestations", "pinned", "cas", "certificates"} => V \subseteq W
  /\ l \in {"distrusted", "revoked-tcerts", "revoked-attestations"} =>
       W \subseteq V
  /\ l \in OnePerTarget => Targets(W) \subseteq Targets(V)

LEMMA KinderIs ==
  ASSUME NEW N, NEW M, NEW l,
         \A x \in Lists : x # l => N[x] = M[x],
         Kinder(l, N[l], M[l])
  PROVE  Better(N, M, {})
<1>1. /\ {"attestations", "pinned", "cas", "certificates", "distrusted",
          "revoked-tcerts", "revoked-attestations"} \subseteq Lists
      /\ OnePerTarget \subseteq Lists
  BY DEF Lists, TcertLists, StatementLists, OnePerTarget
<1>2. \A x \in {"attestations", "pinned", "cas", "certificates"} :
        N[x] \subseteq M[x]
  BY <1>1 DEF Kinder
<1>3. M["distrusted"] \subseteq N["distrusted"]
  BY <1>1 DEF Kinder
<1>4. \A x \in {"revoked-tcerts", "revoked-attestations"} : M[x] \subseteq N[x]
  BY <1>1 DEF Kinder
<1>5. \A x \in OnePerTarget : Targets(M[x]) \subseteq Targets(N[x])
  BY <1>1 DEF Kinder
<1>. QED BY <1>2, <1>3, <1>4, <1>5 DEF Better

\* A put makes a list more of what it is, a drop less.
LEMMA EditKinder ==
  ASSUME NEW l, NEW V, NEW e, NEW W, W \in {V, Put(l, V, e), Drop(l, V, e)}
  PROVE  Kinder(l, V, W) \/ Kinder(l, W, V)
<1>1. CASE W = V \/ W = Drop(l, V, e)
  <2>1. W \subseteq V
    BY <1>1 DEF Drop
  <2>2. Targets(W) \subseteq Targets(V)
    BY <2>1 DEF Targets
  <2>3. CASE l \in {"attestations", "pinned", "cas", "certificates"}
    BY <2>1, <2>3 DEF Kinder, OnePerTarget
  <2>4. CASE l \notin {"attestations", "pinned", "cas", "certificates"}
    BY <2>1, <2>2, <2>4 DEF Kinder
  <2>. QED BY <2>3, <2>4
<1>2. CASE W = Put(l, V, e)
  <2>1. l \notin OnePerTarget => V \subseteq W
    BY <1>2 DEF Put
  <2>2. Targets(V) \subseteq Targets(W)
    BY <1>2 DEF Put, Targets
  <2>3. CASE l \in {"attestations", "pinned", "cas", "certificates"}
    BY <2>1, <2>3 DEF Kinder, OnePerTarget
  <2>4. CASE l \notin {"attestations", "pinned", "cas", "certificates"}
    BY <2>1, <2>2, <2>4 DEF Kinder, OnePerTarget
  <2>. QED BY <2>3, <2>4
<1>. QED BY <1>1, <1>2

-----------------------------------------------------------------------------
(* A removal beside a verification.                                        *)

Refusals == {"distrusted", "revoked-tcerts", "revoked-attestations",
             "revoked-keys", "blocked-sdocs"}

\* N is what remains of M when the trust in R is taken away, and the
\* statements of t with it.
Remains(N, M, t, R) ==
  /\ \A list \in {"attestations", "pinned", "cas", "certificates"} :
       N[list] \subseteq M[list]
  /\ \A list \in {"pinned", "cas", "certificates"} :
       M[list] \ R \subseteq N[list]
  /\ \A a \in M["attestations"] :
       a.of \notin R /\ a.by # t => a \in N["attestations"]
  /\ \A list \in Refusals : N[list] = M[list]

LEMMA RemainsBetter ==
  ASSUME NEW N, NEW M, NEW t, NEW R, Remains(N, M, t, R)
  PROVE  Better(N, M, {})
BY DEF Remains, Better, Refusals, OnePerTarget

\* Trust in others than R remains.
LEMMA RemainsClear ==
  ASSUME NEW N, NEW M, NEW t, NEW R, Remains(N, M, t, R), NEW x,
         IssuerOf[x] \in N["certificates"], Clear(M, x)
  PROVE  Clear(N, x)
<1>1. ASSUME NEW i \in 1..5
      PROVE  ~Refuses(CoreReads[i], N[CoreReads[i]], x)
  <2>1. ~Refuses(CoreReads[i], M[CoreReads[i]], x)
    BY DEF Clear
  <2>2. i \in {1, 2, 3, 4, 5}
    OBVIOUS
  <2>3. CASE i = 1
    BY <2>3, CoreReadsIs DEF Refuses
  <2>4. CASE i # 1
    <3>1. CoreReads[i] \in Refusals
      BY <2>2, <2>4, CoreReadsIs DEF Refusals
    <3>. QED BY <2>1, <3>1 DEF Remains
  <2>. QED BY <2>3, <2>4
<1>. QED BY <1>1 DEF Clear

LEMMA RemainsSpeaks ==
  ASSUME NEW N, NEW M, NEW t, NEW R, Remains(N, M, t, R), NEW i,
         i \in N["certificates"], NEW ca, ca \notin R, ca \in Attesting(N, i),
         SpeaksFor(M, i, ca)
  PROVE  SpeaksFor(N, i, ca)
<1>1. ca \in N["pinned"] \cup N["cas"]
  BY DEF SpeaksFor, Remains
<1>2. ASSUME NEW j \in 1..13
      PROVE  ~Silences(CaReads[j], N[ListOf(CaReads[j])], i, ca)
  <2>1. ~Silences(CaReads[j], M[ListOf(CaReads[j])], i, ca)
    BY DEF SpeaksFor
  <2>2. j \in {1, 2, 3, 4, 5, 6, 7, 8, 9, 10, 11, 12, 13}
    OBVIOUS
  <2>3. CASE j \in {1, 2, 10, 11}
    BY <2>3, CaReadsIs DEF Silences
  <2>4. CASE j \in {7, 13}
    BY <2>1, <2>4, CaReadsIs DEF Silences, ListOf, Remains
  <2>5. CASE j \in {3, 4, 5, 6, 8, 9, 12}
    <3>1. ListOf(CaReads[j]) \in Refusals
      BY <2>5, CaReadsIs DEF ListOf, Refusals
    <3>. QED BY <2>1, <3>1 DEF Remains
  <2>. QED BY <2>2, <2>3, <2>4, <2>5
<1>. QED BY <1>1, <1>2 DEF SpeaksFor

LEMMA RemainsAttested ==
  ASSUME NEW N, NEW M, NEW t, NEW R, Remains(N, M, t, R), t \in R, NEW i,
         i \notin R, NEW ca, ca \notin R, ca \in Attesting(M, i)
  PROVE  ca \in Attesting(N, i)
BY DEF Attesting, Remains

\* The sweeps of the lists of trust.
LEMMA TrustSwept ==
  ASSUME NEW D, NEW M, NEW t, NEW R, Remains(D, M, t, R), NEW N, NEW l,
         l \in {"attestations", "pinned", "cas", "archived-tcerts",
                "certificates"},
         \A x \in Lists : x # l => N[x] = D[x],
         N[l] = Swept(l, D[l], t, R)
  PROVE  Remains(N, M, t, R)
<1>1. /\ {"attestations", "pinned", "cas", "certificates"} \subseteq Lists
      /\ Refusals \subseteq Lists
  BY DEF Lists, TcertLists, StatementLists, OnePerTarget, Refusals
<1>2. \A list \in Refusals : N[list] = D[list]
  BY <1>1 DEF Refusals
<1>3. /\ N[l] \subseteq D[l]
      /\ l \in TcertLists => N[l] = D[l] \ R
      /\ l = "attestations" =>
           N[l] = {a \in D[l] : a.of \notin R /\ a.by # t}
  <2>1. N[l] \subseteq D[l]
    BY DEF Swept
  <2>2. l \in TcertLists => N[l] = D[l] \ R
    <3>1. l \in TcertLists =>
            l \notin {"attestations", "revoked-tcerts", "revoked-attestations"}
      BY DEF TcertLists
    <3>. QED BY <3>1 DEF Swept
  <2>3. "attestations" \notin TcertLists
    BY DEF TcertLists
  <2>4. l = "attestations" =>
          N[l] = {a \in D[l] : a.of \notin R /\ a.by # t}
    BY <2>3 DEF Swept
  <2>. QED BY <2>1, <2>2, <2>4
<1>4. {"pinned", "cas", "certificates"} \subseteq TcertLists
  BY DEF TcertLists
<1>5. \A list \in {"pinned", "cas", "certificates"} :
        N[list] \subseteq D[list] /\ D[list] \ R \subseteq N[list]
  BY <1>1, <1>3, <1>4
<1>6. /\ N["attestations"] \subseteq D["attestations"]
      /\ \A a \in D["attestations"] :
           a.of \notin R /\ a.by # t => a \in N["attestations"]
  BY <1>1, <1>3
<1>. QED BY <1>2, <1>5, <1>6 DEF Remains

\* The sweeps of the lists of refusals, in M as on the disk.
LEMMA RefusalsSwept ==
  ASSUME NEW D, NEW M, NEW t, NEW R, Remains(D, M, t, R), NEW N, NEW l,
         l \in {"distrusted", "revoked-tcerts", "revoked-keys",
                "revoked-attestations", "blocked-sdocs", "sdoc-statements"},
         \A x \in Lists : x # l => N[x] = D[x],
         N[l] \subseteq D[l],
         NEW P, P = [x \in Lists |-> IF x = l THEN N[l] ELSE M[x]]
  PROVE  Remains(N, P, t, R) /\ Better(M, P, {})
<1>1. /\ {"attestations", "pinned", "cas", "certificates"} \subseteq Lists
      /\ Refusals \subseteq Lists /\ l \in Lists
      /\ l \notin {"attestations", "pinned", "cas", "certificates"}
  BY DEF Lists, TcertLists, StatementLists, OnePerTarget, Refusals
<1>2. \A x \in Lists : x # l => N[x] = D[x] /\ P[x] = M[x]
  OBVIOUS
<1>3. P[l] = N[l]
  BY <1>1
<1>4. Remains(N, P, t, R)
  <2>1. \A x \in {"attestations", "pinned", "cas", "certificates"} :
          N[x] = D[x] /\ P[x] = M[x]
    BY <1>1, <1>2
  <2>2. \A x \in Refusals : N[x] = P[x]
    BY <1>1, <1>2, <1>3 DEF Remains
  <2>. QED BY <2>1, <2>2 DEF Remains
<1>5. Kinder(l, M[l], P[l])
  <2>1. CASE l = "sdoc-statements"
    BY <2>1 DEF Kinder, OnePerTarget
  <2>2. CASE l # "sdoc-statements"
    <3>1. P[l] \subseteq M[l]
      BY <1>3, <2>2 DEF Remains, Refusals
    <3>. QED BY <1>1, <3>1 DEF Kinder, Targets
  <2>. QED BY <2>1, <2>2
<1>. QED BY <1>2, <1>4, <1>5, KinderIs
-----------------------------------------------------------------------------
(* The state that a verification answers for.                              *)

\* Nobody in R speaks for the TCert, now or once the CAs are looked up again.
Unheard(k, R) ==
  /\ ~k.pinned
  /\ k.at = "views" =>
       /\ k.next = 11 => k.trusted \cap k.speaking \cap R = {}
       /\ k.next \in {12, 13} => k.speaking \cap R = {}
       /\ k.next = 14 => k.speaking = {}

\* M was before the one edit, which made things worse.
Edited(M) ==
  /\ ~Acceptable("any", M, check.doc)
  /\ call["import"].objects = {}
  /\ \A c \in Callers : \A i \in DOMAIN call[c].todo :
       call[c].todo[i].list = "sdoc-statements"

\* M was before a removal that is still taking trust away.
Losing(M) ==
  LET u == call["user"]
  IN /\ ~Acceptable("any", M, check.doc)
     /\ ~Active("import") /\ u.tcert # NoTcert
     /\ Len(u.todo) \in 5..10
     /\ Remains(disk, M, u.tcert, u.removed)
     /\ Len(u.todo) = 5 => disk["certificates"] \cap u.removed = {}

\* A CA outside R that speaks for a TCert in R is still on the disk with its
\* attestation, or M has something against it.
Parted(k, M, R) ==
  LET i == IssuerOf[k.doc]
  IN k.at = "views" /\ i \in R \cap disk["certificates"] =>
       \A ca \in k.speaking \ R :
         ca \in Attesting(disk, i) \/ ~SpeaksFor(M, i, ca)

\* M never was: the removal has lifted the distrust of R, and has yet to
\* delete the certificates.
Lifted(M) ==
  LET u == call["user"]
  IN /\ ~Active("import") /\ u.tcert # NoTcert /\ Len(u.todo) \in 6..7
     /\ u.tcert \in u.removed /\ Remains(disk, M, u.tcert, u.removed)
     /\ \A list \in {"pinned", "cas"} : disk[list] \cap u.removed = {}
     /\ Unheard(check, u.removed) /\ Parted(check, M, u.removed)

\* M never was: the removal has taken the trust in R away, and now takes
\* refusals back.  No CA in R is heard to the end.
Lost(M) ==
  /\ ~Active("import")
  /\ Active("user") => /\ call["user"].tcert # NoTcert
                       /\ Len(call["user"].todo) <= 5
  /\ \E t, R : /\ t \in R /\ Remains(disk, M, t, R)
               /\ \A list \in {"pinned", "cas", "certificates"} :
                    disk[list] \cap R = {}
               /\ Unheard(check, R)

Moment(M) ==
  /\ Facts(check, M)
  /\ Better(disk, M, {})
  /\ \/ M = disk
     \/ seen.beside = 1 /\ (Edited(M) \/ Losing(M) \/ Lifted(M) \/ Lost(M))

\* The cases that ValidAtOneMoment is about, while the document has not been
\* acceptable.
Unaccepted ==
  policy = "any" /\ seen.beside <= 1 /\ ~seen.acceptable

MomentSoFar ==
  Unaccepted => /\ check.verdict # "valid"
                /\ Checking => \E M : Moment(M)

LEMMA MomentBegins ==
  ASSUME Typed, ReadToWrite, OneBeside, MomentSoFar, NEW c \in Callers,
         NEW r, NewCall(c, r), Begin(c, r)
  PROVE  MomentSoFar'
<1>1. SUFFICES ASSUME Unaccepted'
               PROVE  /\ check'.verdict # "valid"
                      /\ Checking' => \E M : Moment(M)'
  BY DEF MomentSoFar
<1>2. /\ UNCHANGED <<disk, check, policy>>
      /\ seen'.acceptable = seen.acceptable
  BY CheckKept
<1>3. seen \in [acceptable: BOOLEAN, beside: 0..2]
  BY DEF Typed, TypeOK
<1>4. Checking' <=> Checking
  BY <1>2 DEF Checking
<1>5. CASE ~Checking
  <2>1. seen'.beside = seen.beside
    BY <1>3, <1>5 DEF Begin
  <2>. QED BY <1>1, <1>2, <1>4, <1>5, <2>1 DEF MomentSoFar, Unaccepted
<1>6. CASE Checking
  <2>1. TypedCall(c, r)
    BY NewCallIs
  <2>2. seen.beside = 0
    BY <1>1, <1>6, <2>1, BeginBeside DEF Unaccepted
  <2>3. Unaccepted
    BY <1>1, <1>2, <2>2 DEF Unaccepted
  <2>4. Moment(disk)
    BY <1>6, <2>2, <2>3 DEF MomentSoFar, Moment
  <2>5. Moment(disk)'
    BY <1>2, <2>4 DEF Moment
  <2>. QED BY <1>2, <2>3, <2>5 DEF MomentSoFar
<1>. QED BY <1>5, <1>6

LEMMA SweepRead ==
  ASSUME NEW r \in CallRecords, InOrder(r), r.tcert # NoTcert,
         Len(r.todo) <= 11, NEW value
  PROVE  /\ AfterRead(r, value).todo = r.todo
         /\ AfterRead(r, value).tcert = r.tcert
         /\ AfterRead(r, value).removed = r.removed
         /\ AfterRead(r, value).objects = r.objects
<1>1. r.todo # <<>>
  BY CurrentOfRemoval
<1>2. Head(r.todo).op # "load"
  <2>1. PICK n \in 1..13 : n = Len(r.todo)
    BY CurrentOfRemoval
  <2>2. ~(n >= 12)
    BY <2>1
  <2>. QED BY <2>1, <2>2, LoadedIs
<1>3. AfterRead(r, value).todo
        = IF Head(r.todo).op = "load" THEN Tail(r.todo) ELSE r.todo
  BY <1>1, AfterReadIs
<1>4. AfterRead(r, value).tcert = r.tcert
      /\ AfterRead(r, value).objects = r.objects
  BY <1>1, AfterReadIs
<1>5. AfterRead(r, value).removed
        = IF Head(r.todo).op = "load" /\ Head(r.todo).list = "pinned"
          THEN {r.tcert} \cup Orphans(r.tcert,
                 AfterRead(r, value).read["attestations"],
                 AfterRead(r, value).read["pinned"])
          ELSE r.removed
  BY <1>1, AfterReadIs
<1>. QED BY <1>2, <1>3, <1>4, <1>5

\* A read of a call.
LEMMA MomentReads ==
  ASSUME Typed, MomentSoFar,
         \/ \E c \in Callers : Read(c)
         \/ \E o \in call["import"].objects : TakeObject(o)
  PROVE  MomentSoFar'
<1>1. UNCHANGED <<disk, check, policy, seen>>
  BY ReadIs, TakeObjectIs
<1>2. SUFFICES ASSUME NEW M, Moment(M)
               PROVE  Moment(M)'
  BY <1>1 DEF MomentSoFar, Unaccepted, Checking
<1>3. Facts(check', M) /\ Better(disk', M, {})
  BY <1>1, <1>2 DEF Moment
<1>4. CASE M = disk
  BY <1>1, <1>3, <1>4 DEF Moment
<1>5. CASE \E o \in call["import"].objects : TakeObject(o)
  <2>1. call["import"].objects # {} /\ Active("import")
    BY <1>5 DEF Active
  <2>. QED BY <1>2, <1>4, <2>1 DEF Moment, Edited, Losing, Lifted, Lost
<1>6. ASSUME NEW c \in Callers, Read(c), M # disk, seen.beside = 1
      PROVE  Moment(M)'
  <2>1. PICK r, v, value : r = call[c] /\ v = call'[c]
                           /\ v = AfterRead(r, value)
    BY <1>6, ReadIs
  <2>2. /\ r \in CallRecords /\ r.todo # <<>> /\ r.todo \in Seq(Edits)
        /\ InOrder(r) /\ Active(c)
    BY <1>6, <2>1, ReadIs DEF TypedCall, Active
  <2>3. \A o \in Callers : o # c => call'[o] = call[o]
    BY <1>6, ReadIs
  <2>4. CASE Edited(M)
    <3>1. v.objects = r.objects
      <4>1. AfterRead(r, value).objects = r.objects
        BY <2>2, AfterReadIs
      <4>. QED BY <2>1, <4>1
    <3>2. v.todo = IF Head(r.todo).op = "load" THEN Tail(r.todo) ELSE r.todo
      <4>1. AfterRead(r, value).todo
              = IF Head(r.todo).op = "load" THEN Tail(r.todo) ELSE r.todo
        BY <2>2, AfterReadIs
      <4>. QED BY <2>1, <4>1
    <3>3. \A i \in DOMAIN r.todo : r.todo[i].list = "sdoc-statements"
      BY <1>6, <2>1, <2>4 DEF Edited
    <3>4. \A i \in DOMAIN v.todo : v.todo[i].list = "sdoc-statements"
      <4>1. CASE v.todo = r.todo
        BY <3>3, <4>1
      <4>2. CASE v.todo = Tail(r.todo)
        <5>1. \A i \in 1..Len(v.todo) :
                v.todo[i] = r.todo[i + 1] /\ i + 1 \in 1..Len(r.todo)
          BY <2>2, <4>2, HeadTail
        <5>2. DOMAIN v.todo = 1..Len(v.todo) /\ DOMAIN r.todo = 1..Len(r.todo)
          BY <2>2, <4>2, HeadTail
        <5>. QED BY <3>3, <5>1, <5>2
      <4>. QED BY <3>2, <4>1, <4>2
    <3>5. call'["import"].objects = {}
      BY <2>1, <2>3, <2>4, <3>1 DEF Edited, Callers
    <3>6. \A o \in Callers : \A i \in DOMAIN call'[o].todo :
            call'[o].todo[i].list = "sdoc-statements"
      BY <2>1, <2>3, <2>4, <3>4 DEF Edited
    <3>7. Edited(M)'
      BY <1>1, <2>4, <3>5, <3>6 DEF Edited
    <3>. QED BY <1>1, <1>3, <1>6, <3>7 DEF Moment
  <2>5. CASE Losing(M)
    <3>1. c = "user"
      BY <2>2, <2>5 DEF Losing, Callers
    <3>2. r.tcert # NoTcert /\ Len(r.todo) <= 11
      <4>1. \A m \in 5..10 : m <= 11
        OBVIOUS
      <4>. QED BY <2>1, <2>5, <3>1, <4>1 DEF Losing
    <3>3. v.todo = r.todo /\ v.tcert = r.tcert /\ v.removed = r.removed
      BY <2>1, <2>2, <3>2, SweepRead
    <3>4. Losing(M)'
      BY <1>1, <2>1, <2>3, <2>5, <3>1, <3>3 DEF Losing, Active, Callers
    <3>. QED BY <1>1, <1>3, <1>6, <3>4 DEF Moment
  <2>6. CASE Lifted(M)
    <3>1. c = "user"
      BY <2>2, <2>6 DEF Lifted, Callers
    <3>2. r.tcert # NoTcert /\ Len(r.todo) <= 11
      <4>1. \A m \in 6..7 : m <= 11
        OBVIOUS
      <4>. QED BY <2>1, <2>6, <3>1, <4>1 DEF Lifted
    <3>3. v.todo = r.todo /\ v.tcert = r.tcert /\ v.removed = r.removed
      BY <2>1, <2>2, <3>2, SweepRead
    <3>4. Lifted(M)'
      BY <1>1, <2>1, <2>3, <2>6, <3>1, <3>3
      DEF Lifted, Active, Callers, Parted
    <3>. QED BY <1>1, <1>3, <1>6, <3>4 DEF Moment
  <2>7. CASE Lost(M)
    <3>1. c = "user"
      BY <2>2, <2>7 DEF Lost, Callers
    <3>2. PICK n \in 1..13 : n = Len(r.todo)
      BY <2>1, <2>2, <2>7, <3>1, CurrentOfRemoval DEF Lost
    <3>3. r.tcert # NoTcert /\ Len(r.todo) <= 11
      BY <2>1, <2>2, <2>7, <3>1, <3>2 DEF Lost
    <3>4. v.todo = r.todo /\ v.tcert = r.tcert /\ v.removed = r.removed
          /\ v.objects = r.objects
      BY <2>1, <2>2, <3>3, SweepRead
    <3>5. Lost(M)'
      BY <1>1, <2>1, <2>3, <2>7, <3>1, <3>4 DEF Lost, Active, Callers
    <3>. QED BY <1>1, <1>3, <1>6, <3>5 DEF Moment
  <2>. QED BY <1>2, <1>6, <2>4, <2>5, <2>6, <2>7 DEF Moment
<1>. QED BY <1>2, <1>4, <1>5, <1>6 DEF Moment

LEMMA MomentStarts ==
  ASSUME Typed, MomentSoFar, Stop \/ \E x \in Docs : StartCheck(x)
  PROVE  MomentSoFar'
<1>1. CASE Stop
  BY <1>1 DEF Stop, Unstarted, MomentSoFar, Checking
<1>2. ASSUME NEW x \in Docs, StartCheck(x)
      PROVE  MomentSoFar'
  <2>1. UNCHANGED disk /\ check' = [Unstarted(x) EXCEPT !.at = "core"]
    BY <1>2 DEF StartCheck
  <2>2. /\ check'.at = "core" /\ check'.next = 1 /\ ~check'.pinned
        /\ check'.verdict = "none"
    BY <2>1 DEF Unstarted
  <2>3. \A j \in 1..5 : ~(j < 1)
    OBVIOUS
  <2>4. Facts(check', disk)
    BY <2>2, <2>3 DEF Facts
  <2>5. Better(disk, disk, {})
    BY BetterIs
  <2>6. Moment(disk)'
    BY <2>1, <2>4, <2>5 DEF Moment
  <2>. QED BY <2>1, <2>2, <2>6 DEF MomentSoFar
<1>. QED BY <1>1, <1>2

\* Under a removal, a verification that has heard no CA in R hears none later,
\* and none that speaks for a TCert in R.
LEMMA UnheardStep ==
  ASSUME Typed, CheckInOrder, CheckStep, Checking', NEW M, Facts(check, M),
         Better(disk, M, {}), NEW t, NEW R, t \in R, Remains(disk, M, t, R),
         \A list \in {"pinned", "cas"} : disk[list] \cap R = {},
         Unheard(check, R), Parted(check, M, R),
         ~Acceptable("any", disk, check.doc)
  PROVE  Unheard(check', R) /\ Parted(check', M, R)
<1>1. PICK i : i = IssuerOf[check.doc]
  OBVIOUS
<1>2. check \in CheckRecords
  BY DEF Typed, TypeOK
<1>3. CASE ReadForCore
  BY <1>3, CoreReadKeeps DEF Unheard, Parted
<1>4. CASE ReadDistrusted \/ ReadPinned \/ ReadAttestations
  <2>1. ASSUME check.at = "pinned", i \in disk["pinned"]
        PROVE  FALSE
    <3>1. i \notin R
      BY <2>1
    <3>2. Clear(M, check.doc)
      BY <2>1 DEF Facts, Clear
    <3>3. ~Refuses("certificates", M["certificates"], check.doc)
      BY <3>2, CoreReadsIs DEF Clear
    <3>4. i \in disk["certificates"]
      BY <1>1, <3>1, <3>3 DEF Refuses, Remains
    <3>5. Clear(disk, check.doc)
      BY <1>1, <3>2, <3>4, RemainsClear
    <3>. QED BY <1>1, <2>1, <3>5, AcceptableIs
  <2>2. 1 # 11 /\ 1 \notin {12, 13} /\ 1 # 14
    OBVIOUS
  <2>3. ~check'.pinned /\ (check'.at = "views" => check'.next = 1)
    BY <1>1, <1>4, <2>1, TrustReadsKeep DEF Unheard
  <2>4. check'.at = "views" => check'.speaking = Attesting(disk, i)
    BY <1>1, <1>2, <1>4
    DEF ReadDistrusted, ReadPinned, ReadAttestations, CheckRecords
  <2>5. check'.doc = check.doc
    BY <1>4, TrustReadsKeep
  <2>6. Parted(check', M, R)
    BY <1>1, <2>4, <2>5 DEF Parted
  <2>. QED BY <2>2, <2>3, <2>6 DEF Unheard
<1>5. CASE ReadForViews
  <2>0. PICK n \in 1..13 : n = check.next
    BY <1>5, ViewReadIs
  <2>1. PICK read, value :
          /\ n = check.next /\ read = CaReads[n]
          /\ value = disk[ListOf(read)] /\ check.at = "views"
          /\ check'.at = "views" /\ check'.next = n + 1
          /\ check'.pinned = check.pinned /\ check'.doc = check.doc
          /\ check'.speaking = Heard(read, value, i, check.speaking,
                                     check.trusted)
          /\ check'.trusted = IF read = "pinned"
                              THEN check.speaking \cap value ELSE {}
    BY <1>1, <1>5, <2>0, ViewReadIs
  <2>2. check'.speaking \subseteq check.speaking
    BY <2>1, HeardTyped
  <2>3. ASSUME n + 1 = 11
        PROVE  check'.trusted \cap check'.speaking \cap R = {}
    <3>1. n = 10
      BY <2>3
    <3>2. read = "pinned" /\ value = disk["pinned"]
      BY <2>1, <3>1, CaReadsIs DEF ListOf
    <3>. QED BY <2>1, <3>2
  <2>4. ASSUME n + 1 = 12
        PROVE  check'.speaking \cap R = {}
    <3>1. n = 11
      BY <2>4
    <3>2. read = "cas" /\ value = disk["cas"]
      BY <2>1, <3>1, CaReadsIs DEF ListOf
    <3>3. check'.speaking = check.speaking \cap (check.trusted \cup value)
      BY <2>1, <3>2 DEF Heard
    <3>4. check.trusted \cap check.speaking \cap R = {}
      BY <2>1, <3>1 DEF Unheard
    <3>5. disk["cas"] \cap R = {}
      OBVIOUS
    <3>. QED BY <3>2, <3>3, <3>4, <3>5
  <2>5. ASSUME n + 1 = 13
        PROVE  check'.speaking \cap R = {}
    <3>1. n = 12
      BY <2>5
    <3>2. check.speaking \cap R = {}
      BY <2>1, <3>1 DEF Unheard
    <3>. QED BY <2>2, <3>2
  <2>6. ASSUME n + 1 = 14, NEW ca \in check'.speaking
        PROVE  FALSE
    <3>1. n = 13
      BY <2>6
    <3>2. n \in 1..14 /\ n >= 10
      BY <3>1
    <3>3. ca \in check.speaking /\ ca \notin R
      BY <2>1, <2>2, <2>6, <3>1 DEF Unheard
    <3>4. SpeaksFor(M, i, ca) /\ Clear(M, check.doc)
      BY <1>1, <1>2, <2>1, <3>2, <3>3, FactsSpeak
    <3>5. read = "certificates-of-target" /\ value = disk["certificates"]
      BY <2>1, <3>1, CaReadsIs DEF ListOf
    <3>6. i \in disk["certificates"]
      BY <2>1, <2>6, <3>5 DEF Heard, Silences
    <3>7. ca \in Attesting(disk, i)
      <4>1. CASE i \in R
        BY <1>1, <2>1, <3>3, <3>4, <3>6, <4>1 DEF Parted
      <4>2. CASE i \notin R
        BY <3>3, <3>4, <4>2, RemainsAttested DEF SpeaksFor
      <4>. QED BY <4>1, <4>2
    <3>8. SpeaksFor(disk, i, ca)
      BY <3>3, <3>4, <3>6, <3>7, RemainsSpeaks
    <3>9. Clear(disk, check.doc)
      BY <1>1, <3>4, <3>6, RemainsClear
    <3>. QED BY <1>1, <3>8, <3>9, AcceptableIs
  <2>7. n + 1 \in {12, 13} => check'.speaking \cap R = {}
    BY <2>4, <2>5
  <2>8. n + 1 = 14 => check'.speaking = {}
    BY <2>6
  <2>9. ~check'.pinned
    BY <2>1 DEF Unheard
  <2>10. Parted(check', M, R)
    BY <2>1, <2>2 DEF Parted
  <2>. QED BY <2>1, <2>3, <2>7, <2>8, <2>9, <2>10 DEF Unheard
<1>6. CASE ResolveVerdict
  <2>1. \A verdict : ~Return(verdict)
    BY DEF Return, Unstarted, Checking
  <2>. QED BY <1>6, <2>1 DEF ResolveVerdict
<1>. QED BY <1>3, <1>4, <1>5, <1>6 DEF CheckStep

\* What is not acceptable in M is not heard of so far.
LEMMA UnheardYet ==
  ASSUME Typed, NEW M, Facts(check, M), ~Acceptable("any", M, check.doc), NEW R
  PROVE  Unheard(check, R)
<1>1. check \in CheckRecords
  BY DEF Typed, TypeOK
<1>2. check.pinned => check.at \in {"attestations", "views"}
  BY DEF Facts
<1>3. ~check.pinned
  BY <1>1, <1>2, FactsAccept
<1>4. 11 >= 10 /\ 12 >= 10 /\ 13 >= 10 /\ 14 >= 10
      /\ {11, 12, 13, 14} \subseteq 1..14
  OBVIOUS
<1>5. ASSUME check.at = "views", check.next \in {11, 12, 13, 14}
      PROVE  check.speaking = {}
  BY <1>1, <1>4, <1>5, FactsAccept
<1>. QED BY <1>3, <1>5 DEF Unheard

\* The verdict is not valid without a state that the document is acceptable in.
LEMMA MomentResolves ==
  ASSUME Typed, CheckInOrder, Unaccepted, MomentSoFar, ResolveVerdict
  PROVE  ~check.pinned /\ check.speaking = {}
<1>1. check \in CheckRecords
  BY DEF Typed, TypeOK
<1>2. check.at = "views" /\ check.next = 14
  <2>1. check.at = "views" /\ check.next \in 1..14 /\ check.next > 13
    BY OrderlyIs, CaReadsIs DEF ResolveVerdict, Orderly
  <2>2. \A m \in 1..14 : m > 13 => m = 14
    OBVIOUS
  <2>. QED BY <2>1, <2>2
<1>3. PICK M : Moment(M)
  BY <1>2 DEF MomentSoFar, Checking
<1>4. 14 \in 1..14 /\ 14 >= 10
  OBVIOUS
<1>5. check.pinned \/ check.speaking # {} => Acceptable("any", M, check.doc)
  BY <1>1, <1>2, <1>3, <1>4, FactsAccept DEF Moment
<1>6. CASE M = disk
  <2>1. ~Acceptable("any", disk, check.doc)
    BY <1>2, OrderlyIs DEF Checking, Unaccepted
  <2>. QED BY <1>5, <1>6, <2>1
<1>7. CASE Edited(M) \/ Losing(M)
  BY <1>5, <1>7 DEF Edited, Losing
<1>8. CASE Lifted(M) \/ Lost(M)
  BY <1>2, <1>8 DEF Lifted, Lost, Unheard
<1>. QED BY <1>3, <1>6, <1>7, <1>8 DEF Moment

LEMMA MomentChecks ==
  ASSUME Typed, CheckInOrder, MomentSoFar, CheckStep
  PROVE  MomentSoFar'
<1>1. UNCHANGED <<disk, call, policy>> /\ check \in CheckRecords
  BY CheckStepIs DEF Typed, TypeOK
<1>2. CASE \E verdict \in {"invalid", "cannotVerify"} : Return(verdict)
  BY <1>2 DEF Return, Unstarted, MomentSoFar, Checking
<1>3. CASE ResolveVerdict
  <2>1. CASE Return("valid")
    <3>1. UNCHANGED seen /\ check'.at = "done"
      BY <2>1 DEF Return, Unstarted
    <3>2. ~Unaccepted
      <4>1. ASSUME Unaccepted
            PROVE  FALSE
        <5>1. ~check.pinned /\ check.speaking = {} /\ policy = "any"
          BY <1>3, <4>1, MomentResolves DEF Unaccepted
        <5>2. ~IssuerVerified(policy, check.attesting, check.speaking)
          BY <5>1 DEF IssuerVerified
        <5>3. Return("invalid")
          BY <1>3, <5>1, <5>2 DEF ResolveVerdict
        <5>. QED BY <2>1, <5>3 DEF Return, Unstarted
      <4>. QED BY <4>1
    <3>3. ~Unaccepted'
      BY <1>1, <3>1, <3>2 DEF Unaccepted
    <3>. QED BY <3>3 DEF MomentSoFar
  <2>. QED BY <1>2, <1>3, <2>1 DEF ResolveVerdict
<1>4. CASE ~ResolveVerdict /\ ~\E verdict \in {"invalid", "cannotVerify"} :
                                 Return(verdict)
  <2>1. Checking /\ Checking'
    <3>1. CASE ReadForCore
      <4>1. check.at = "core"
        BY <3>1 DEF ReadForCore
      <4>2. check'.at \in {"core", "distrusted"}
        <5>1. check' = [check EXCEPT !.next = @ + 1,
                          !.at = IF check.next = Len(CoreReads)
                                 THEN "distrusted" ELSE @]
          BY <1>4, <3>1 DEF ReadForCore
        <5>. QED BY <1>1, <4>1, <5>1 DEF CheckRecords
      <4>. QED BY <4>1, <4>2 DEF Checking
    <3>2. CASE ReadDistrusted \/ ReadPinned \/ ReadAttestations
      BY <1>1, <3>2
      DEF ReadDistrusted, ReadPinned, ReadAttestations, Checking, CheckRecords
    <3>3. CASE ReadForViews
      BY <3>3, ViewReadIs DEF Checking
    <3>. QED BY <1>4, <3>1, <3>2, <3>3 DEF CheckStep
  <2>2. SUFFICES ASSUME Unaccepted'
                 PROVE  check'.verdict # "valid" /\ \E M : Moment(M)'
    BY DEF MomentSoFar
  <2>3. UNCHANGED seen
    <3>1. CASE ReadForCore
      BY <1>4, <3>1 DEF ReadForCore
    <3>2. CASE ~ReadForCore
      BY <1>4, <3>2
      DEF CheckStep, ReadDistrusted, ReadPinned, ReadAttestations, ReadForViews
    <3>. QED BY <3>1, <3>2
  <2>4. Unaccepted
    BY <1>1, <2>2, <2>3 DEF Unaccepted
  <2>5. PICK M : Moment(M)
    BY <2>1, <2>4 DEF MomentSoFar
  <2>6. Facts(check, M) /\ Better(disk, M, {})
    BY <2>5 DEF Moment
  <2>7. Facts(check', M) /\ check'.doc = check.doc
        /\ check'.verdict = check.verdict
    <3>1. CASE ReadForCore
      BY <2>1, <2>6, <3>1, CoreReadKeeps
    <3>2. CASE ReadDistrusted \/ ReadPinned \/ ReadAttestations
      BY <2>6, <3>2, TrustReadsKeep
    <3>3. CASE ReadForViews
      BY <2>6, <3>3, ViewReadKeeps, ViewReadIs
    <3>. QED BY <1>4, <3>1, <3>2, <3>3 DEF CheckStep
  <2>8. ~Acceptable("any", disk, check.doc)
    BY <2>1, <2>4, OrderlyIs DEF Unaccepted
  <2>9. Moment(M)'
    <3>1. CASE M = disk
      BY <1>1, <2>6, <2>7, <3>1 DEF Moment
    <3>2. CASE Edited(M) /\ seen.beside = 1
      <4>1. Edited(M)'
        BY <1>1, <2>7, <3>2 DEF Edited
      <4>. QED BY <1>1, <2>3, <2>6, <2>7, <3>2, <4>1 DEF Moment
    <3>3. CASE Losing(M) /\ seen.beside = 1
      <4>1. Losing(M)'
        BY <1>1, <2>7, <3>3 DEF Losing, Active
      <4>. QED BY <1>1, <2>3, <2>6, <2>7, <3>3, <4>1 DEF Moment
    <3>4. CASE Lost(M) /\ seen.beside = 1
      <4>1. PICK t, R : /\ t \in R /\ Remains(disk, M, t, R)
                        /\ \A list \in {"pinned", "cas", "certificates"} :
                             disk[list] \cap R = {}
                        /\ Unheard(check, R)
        BY <3>4 DEF Lost
      <4>2. Parted(check, M, R)
        BY <4>1 DEF Parted
      <4>3. Unheard(check', R)
        BY <2>1, <2>6, <2>8, <4>1, <4>2, UnheardStep
      <4>4. Lost(M)'
        BY <1>1, <3>4, <4>1, <4>3 DEF Lost, Active
      <4>. QED BY <1>1, <2>3, <2>6, <2>7, <3>4, <4>4 DEF Moment
    <3>5. CASE Lifted(M) /\ seen.beside = 1
      <4>1. PICK t, R : t = call["user"].tcert /\ R = call["user"].removed
        OBVIOUS
      <4>2. /\ t \in R /\ Remains(disk, M, t, R)
            /\ \A list \in {"pinned", "cas"} : disk[list] \cap R = {}
            /\ Unheard(check, R) /\ Parted(check, M, R)
        BY <3>5, <4>1 DEF Lifted
      <4>3. Unheard(check', R) /\ Parted(check', M, R)
        BY <2>1, <2>6, <2>8, <4>2, UnheardStep
      <4>4. Lifted(M)'
        BY <1>1, <3>5, <4>1, <4>3 DEF Lifted, Active, Parted
      <4>. QED BY <1>1, <2>3, <2>6, <2>7, <3>5, <4>4 DEF Moment
    <3>. QED BY <2>5, <3>1, <3>2, <3>3, <3>4, <3>5 DEF Moment
  <2>. QED BY <2>1, <2>4, <2>7, <2>9 DEF MomentSoFar
<1>. QED BY <1>2, <1>3, <1>4
-----------------------------------------------------------------------------
(* What a write does to the state that a verification answers for.         *)

\* The call that writes is the only one, and has read what the disk holds.
LEMMA WriteBeside ==
  ASSUME Typed, OneBeside, Checking, seen.beside <= 1, NEW c \in Callers,
         Write(c)
  PROVE  /\ seen.beside = 1 /\ call[c].objects = {}
         /\ \A o \in Callers : o # c => ~Active(o)
         /\ call[c].read[Current(c).list] = disk[Current(c).list]
<1>1. Active(c) /\ call[c].todo # <<>> /\ Current(c).list \in call[c].fetched
  BY DEF Write, Active
<1>2. seen.beside = 1 /\ ~Outdated(c)
      /\ (\A o \in Callers : o # c => ~Active(o))
  BY <1>1 DEF OneBeside, Callers
<1>3. call[c].objects = {}
  BY <1>1 DEF OneBeside, Callers, Typed, CallsInOrder
<1>. QED BY <1>1, <1>2, <1>3 DEF Outdated

\* The lists of a removal, by how many it has before it.
LEMMA SweepLists ==
  ASSUME NEW n \in 1..11, NEW l, l = CascadeOrder[14 - n]
  PROVE  /\ n >= 6 /\ n # 8 => l \in {"attestations", "pinned", "cas",
                                       "archived-tcerts", "certificates"}
         /\ n = 8 => l = "distrusted"
         /\ n = 7 => l = "archived-tcerts"
         /\ n = 6 => l = "certificates"
         /\ n <= 5 => l \in {"revoked-tcerts", "revoked-keys",
                             "revoked-attestations", "blocked-sdocs",
                             "sdoc-statements"}
<1>1. n \in {1, 2, 3, 4, 5} \/ n \in {6, 7, 8, 9, 10, 11}
  OBVIOUS
<1>2. CASE n \in {1, 2, 3, 4, 5}
  <2>1. ~(n >= 6) /\ n \notin {6, 7, 8} /\ 14 - n \in {13, 12, 11, 10, 9}
    BY <1>2
  <2>. QED BY <2>1, CascadeOrderIs
<1>3. CASE n \in {6, 7, 8, 9, 10, 11}
  <2>1. /\ ~(n <= 5) /\ (n # 8 => 14 - n \in {8, 7, 5, 4, 3})
        /\ (n = 8 => 14 - n = 6) /\ (n = 7 => 14 - n = 7)
        /\ (n = 6 => 14 - n = 8)
    BY <1>3
  <2>. QED BY <2>1, CascadeOrderIs
<1>. QED BY <1>1, <1>2, <1>3

\* A write of a removal.
LEMMA SweepWrite ==
  ASSUME Typed, NEW c \in Callers, Write(c), call[c].tcert # NoTcert,
         call[c].read[Current(c).list] = disk[Current(c).list],
         NEW r, NEW v, NEW l, r = call[c], v = call'[c], l = Current(c).list
  PROVE  /\ c = "user" /\ InOrder(r) /\ r \in CallRecords
         /\ Current(c).op = "sweep"
         /\ disk'[l] = Swept(l, disk[l], r.tcert, r.removed)
         /\ \E n \in 1..11 :
              /\ n = Len(r.todo) /\ l = CascadeOrder[14 - n]
              /\ n = 1 => v = Idle
              /\ n # 1 => v.tcert = r.tcert /\ v.removed = r.removed
                          /\ Len(v.todo) = n - 1
<1>1. /\ r \in CallRecords /\ InOrder(r) /\ c = "user" /\ r.objects = {}
  <2>1. TypedCall(c, r)
    BY TypedCalls
  <2>. QED BY <2>1 DEF TypedCall, Callers
<1>2. /\ Current(c) = Head(r.todo) /\ Head(r.todo).op # "load"
      /\ disk'[l] = Written(Head(r.todo), r, disk[l])
      /\ v = AfterWrite(r)
  BY WriteIs DEF Current
<1>3. PICK n \in 1..13 : n = Len(r.todo)
  BY <1>1, CurrentOfRemoval
<1>4. l = CascadeOrder[14 - n] /\ ~(n >= 12) /\ Head(r.todo).op = "sweep"
  BY <1>1, <1>2, <1>3, LoadedIs
<1>5. n \in 1..11
  BY <1>4
<1>6. disk'[l] = Swept(l, disk[l], r.tcert, r.removed)
  BY <1>2, <1>4 DEF Written
<1>7. r.todo # <<>> /\ r.todo \in Seq(Edits)
  BY <1>1, CurrentOfRemoval
<1>8. n = 1 => v = Idle
  BY <1>1, <1>2, <1>3, <1>7, AfterWriteIs
<1>9. ASSUME n # 1
      PROVE  v.tcert = r.tcert /\ v.removed = r.removed /\ Len(v.todo) = n - 1
  <2>1. AfterWrite(r).tcert = r.tcert /\ AfterWrite(r).removed = r.removed
    BY <1>1, <1>3, <1>7, <1>9, AfterWriteIs
  <2>2. AfterWrite(r).todo = Tail(r.todo)
    BY <1>1, <1>3, <1>7, <1>9, AfterWriteIs
  <2>3. Len(Tail(r.todo)) = Len(r.todo) - 1
    BY <1>7, HeadTail
  <2>. QED BY <1>2, <1>3, <2>1, <2>2, <2>3
<1>. QED BY <1>1, <1>2, <1>3, <1>4, <1>5, <1>6, <1>8, <1>9

\* A write that is the last, or has only statements of documents after it.
LEMMA EditsLeft ==
  ASSUME Typed, NEW c \in Callers, Write(c), call[c].objects = {},
         \A o \in Callers : o # c =>
           /\ call[o].objects = {}
           /\ \A i \in DOMAIN call[o].todo :
                call[o].todo[i].list = "sdoc-statements",
         \A i \in 1..Len(call[c].todo) :
           i > 1 => call[c].todo[i].list = "sdoc-statements"
  PROVE  /\ call'["import"].objects = {}
         /\ \A o \in Callers : \A i \in DOMAIN call'[o].todo :
              call'[o].todo[i].list = "sdoc-statements"
<1>1. PICK r, v : r = call[c] /\ v = call'[c]
  OBVIOUS
<1>2. /\ v = AfterWrite(r) /\ \A o \in Callers : o # c => call'[o] = call[o]
      /\ r \in CallRecords /\ r.todo # <<>> /\ r.todo \in Seq(Edits)
  BY <1>1, WriteIs
<1>3. CASE v = Idle
  <2>1. v.todo = <<>> /\ v.objects = {}
    BY <1>3, IdleIs
  <2>2. call'["import"].objects = {}
    BY <1>1, <1>2, <2>1 DEF Callers
  <2>3. ASSUME NEW o \in Callers, NEW i \in DOMAIN call'[o].todo
        PROVE  call'[o].todo[i].list = "sdoc-statements"
    <3>1. CASE o = c
      BY <1>1, <2>1, <2>3, <3>1
    <3>2. CASE o # c
      BY <1>2, <2>3, <3>2
    <3>. QED BY <3>1, <3>2
  <2>. QED BY <2>2, <2>3
<1>4. CASE v # Idle
  <2>1. ~(Len(r.todo) = 1 /\ r.objects = {})
    BY <1>2, <1>4, AfterWriteIs
  <2>2. AfterWrite(r).todo = Tail(r.todo) /\ AfterWrite(r).objects = r.objects
    BY <1>2, <2>1, AfterWriteIs
  <2>3. /\ DOMAIN v.todo = 1..Len(v.todo) /\ Len(v.todo) \in Nat
        /\ Len(v.todo) = Len(r.todo) - 1 /\ Len(r.todo) \in Nat
        /\ \A i \in 1..Len(v.todo) : v.todo[i] = r.todo[i + 1]
    BY <1>2, <2>2, HeadTail
  <2>4. \A m, k \in Nat : m = k - 1 =>
          \A i \in 1..m : i + 1 \in 1..k /\ i + 1 > 1
    OBVIOUS
  <2>5. \A i \in DOMAIN v.todo : v.todo[i].list = "sdoc-statements"
    BY <1>1, <2>3, <2>4
  <2>. QED BY <1>1, <1>2, <2>2, <2>5 DEF Callers
<1>. QED BY <1>3, <1>4
\* The write of a call other than a removal, the document being acceptable in
\* no state so far.
LEMMA MomentEdits ==
  ASSUME Typed, OneBeside, CheckInOrder, Checking, Unaccepted,
         NEW c \in Callers, Write(c), call[c].tcert = NoTcert,
         Facts(check, disk)
  PROVE  \E M : Moment(M)'
<1>1. PICK r, l, e : r = call[c] /\ l = Current(c).list /\ e = Current(c)
  OBVIOUS
<1>2. /\ UNCHANGED <<check, policy>> /\ seen'.beside = seen.beside
  BY CheckKept
<1>3. /\ seen.beside = 1 /\ r.objects = {}
      /\ \A o \in Callers : o # c => ~Active(o)
      /\ r.read[l] = disk[l]
  BY <1>1, WriteBeside DEF Unaccepted
<1>4. /\ r \in CallRecords /\ TypedCall(c, r) /\ r.todo # <<>>
      /\ r.todo \in Seq(Edits) /\ e = r.todo[1] /\ e.op # "load"
      /\ disk'[l] = Written(e, r, disk[l])
      /\ \A list \in Lists : list # l => disk'[list] = disk[list]
  BY <1>1, WriteIs DEF Current
<1>5. e.op \in {"put", "drop"}
        /\ \A i \in 1..Len(r.todo) : i > 1 => r.todo[i].list = "sdoc-statements"
  <2>1. 1 \in 1..Len(r.todo)
    BY <1>4, HeadTail
  <2>. QED BY <1>1, <1>4, <2>1 DEF TypedCall, InOrder
<1>6. disk'[l] \in {disk[l], Put(l, disk[l], e.entry),
                    Drop(l, disk[l], e.entry)}
  BY <1>1, <1>3, <1>4, <1>5 DEF Written
<1>7. Kinder(l, disk[l], disk'[l]) \/ Kinder(l, disk'[l], disk[l])
  BY <1>6, EditKinder
<1>8. CASE Kinder(l, disk[l], disk'[l])
  <2>1. Better(disk, disk', {})
    BY <1>4, <1>8, KinderIs
  <2>2. Facts(check', disk') /\ Better(disk', disk', {})
    BY <1>2, <2>1, FactsBetter, BetterIs
  <2>3. PICK N : N = disk'
    OBVIOUS
  <2>4. Moment(N)'
    BY <2>2, <2>3 DEF Moment
  <2>. QED BY <2>4
<1>9. CASE Kinder(l, disk'[l], disk[l])
  <2>1. Better(disk', disk, {})
    BY <1>4, <1>9, KinderIs
  <2>2. \A o \in Callers : o # c =>
          call[o].objects = {} /\ call[o].todo = <<>>
    BY <1>3 DEF Active
  <2>3. \A o \in Callers : o # c =>
          /\ call[o].objects = {}
          /\ \A i \in DOMAIN call[o].todo :
               call[o].todo[i].list = "sdoc-statements"
    BY <2>2
  <2>4. /\ call'["import"].objects = {}
        /\ \A o \in Callers : \A i \in DOMAIN call'[o].todo :
             call'[o].todo[i].list = "sdoc-statements"
    BY <1>1, <1>3, <1>5, <2>3, EditsLeft
  <2>5. ~Acceptable("any", disk, check.doc)
    BY OrderlyIs DEF Unaccepted
  <2>6. PICK M : M = disk
    OBVIOUS
  <2>7. Edited(M)'
    BY <1>2, <2>4, <2>5, <2>6 DEF Edited
  <2>8. Moment(M)'
    BY <1>2, <1>3, <2>1, <2>6, <2>7 DEF Moment
  <2>. QED BY <2>8
<1>. QED BY <1>7, <1>8, <1>9

\* The last edit, after the one that made things worse.
LEMMA MomentEdited ==
  ASSUME Typed, OneBeside, Checking, Unaccepted, NEW c \in Callers, Write(c),
         NEW M, Facts(check, M), Better(disk, M, {}), Edited(M)
  PROVE  Moment(M)'
<1>1. PICK r, l : r = call[c] /\ l = Current(c).list
  OBVIOUS
<1>2. /\ UNCHANGED <<check, policy>> /\ seen'.beside = seen.beside
  BY CheckKept
<1>3. seen.beside = 1 /\ r.objects = {}
      /\ \A o \in Callers : o # c => ~Active(o)
  BY <1>1, WriteBeside DEF Unaccepted
<1>4. /\ r.todo # <<>> /\ r.todo \in Seq(Edits) /\ l = r.todo[1].list
      /\ \A list \in Lists : list # l => disk'[list] = disk[list]
  BY <1>1, WriteIs DEF Current
<1>5. DOMAIN r.todo = 1..Len(r.todo) /\ 1 \in 1..Len(r.todo)
  BY <1>4, HeadTail
<1>6. l = "sdoc-statements"
  BY <1>1, <1>4, <1>5 DEF Edited
<1>7. Better(disk', M, {})
  <2>1. Better(disk', disk, {})
    BY <1>4, <1>6, BetterIs
  <2>. QED BY <2>1, BetterIs
<1>8. /\ \A o \in Callers : o # c =>
           /\ call[o].objects = {}
           /\ \A i \in DOMAIN call[o].todo :
                call[o].todo[i].list = "sdoc-statements"
      /\ \A i \in 1..Len(r.todo) : i > 1 => r.todo[i].list = "sdoc-statements"
  BY <1>1, <1>3, <1>5 DEF Edited, Active
<1>9. /\ call'["import"].objects = {}
      /\ \A o \in Callers : \A i \in DOMAIN call'[o].todo :
           call'[o].todo[i].list = "sdoc-statements"
  BY <1>1, <1>3, <1>8, EditsLeft
<1>10. Edited(M)'
  BY <1>2, <1>9 DEF Edited
<1>. QED BY <1>2, <1>3, <1>7, <1>10 DEF Moment
\* A removal takes trust away.
LEMMA MomentTrust ==
  ASSUME Typed, OneBeside, Checking, Unaccepted, Unaccepted',
         NEW c \in Callers, Write(c), call[c].tcert # NoTcert,
         Len(call[c].todo) \in (6..11) \ {8}, NEW M, Facts(check, M),
         ~Acceptable("any", M, check.doc),
         Remains(disk, M, call[c].tcert, call[c].removed)
  PROVE  Moment(M)'
<1>1. PICK r, v, l : r = call[c] /\ v = call'[c] /\ l = Current(c).list
  OBVIOUS
<1>2. UNCHANGED <<check, policy>> /\ seen'.beside = seen.beside
  BY CheckKept
<1>3. seen.beside = 1 /\ (\A o \in Callers : o # c => ~Active(o))
      /\ r.read[l] = disk[l]
  BY <1>1, WriteBeside DEF Unaccepted
<1>4. /\ c = "user" /\ Current(c).op = "sweep"
      /\ disk'[l] = Swept(l, disk[l], r.tcert, r.removed)
      /\ \E n \in 1..11 :
           /\ n = Len(r.todo) /\ l = CascadeOrder[14 - n]
           /\ n # 1 => v.tcert = r.tcert /\ v.removed = r.removed
                       /\ Len(v.todo) = n - 1
  BY <1>1, <1>3, SweepWrite
<1>5. PICK n \in 1..11 :
        /\ n = Len(r.todo) /\ l = CascadeOrder[14 - n]
        /\ n # 1 => v.tcert = r.tcert /\ v.removed = r.removed
                    /\ Len(v.todo) = n - 1
  BY <1>4
<1>6. n >= 6 /\ n \notin {1, 8} /\ n - 1 \in 5..10 /\ (n - 1 = 5 => n = 6)
  <2>1. \A m \in 6..11 : m >= 6 /\ m # 1 /\ m - 1 \in 5..10
                           /\ (m - 1 = 5 => m = 6)
    OBVIOUS
  <2>. QED BY <1>1, <1>5, <2>1
<1>7. /\ l \in {"attestations", "pinned", "cas", "archived-tcerts",
                "certificates"}
      /\ n = 6 => l = "certificates"
  BY <1>5, <1>6, SweepLists
<1>8. \A list \in Lists : list # l => disk'[list] = disk[list]
  BY <1>1, WriteIs DEF Current
<1>9. Remains(disk', M, r.tcert, r.removed)
  BY <1>1, <1>4, <1>7, <1>8, TrustSwept
<1>10. call'["import"] = call["import"] /\ ~Active("import")
  BY <1>1, <1>3, <1>4, WriteIs DEF Callers
<1>11. n = 6 => disk'["certificates"] \cap r.removed = {}
  <2>1. ASSUME n = 6
        PROVE  disk'[l] = disk[l] \ r.removed
    <3>1. l = "certificates"
      BY <1>7, <2>1
    <3>. QED BY <1>4, <3>1 DEF Swept, TcertLists
  <2>. QED BY <1>7, <2>1
<1>12. /\ call'["user"].tcert = r.tcert /\ call'["user"].removed = r.removed
       /\ Len(call'["user"].todo) = n - 1
  BY <1>1, <1>4, <1>5, <1>6
<1>13. Losing(M)'
  BY <1>1, <1>2, <1>6, <1>9, <1>10, <1>11, <1>12 DEF Losing, Active
<1>14. Better(disk', M, {})
  BY <1>9, RemainsBetter
<1>. QED BY <1>2, <1>3, <1>13, <1>14 DEF Moment

\* A removal lifts the distrust of those it removes.
LEMMA MomentLifts ==
  ASSUME Typed, RemovedStaysOut, OneBeside, Checking, Unaccepted,
         NEW c \in Callers, Write(c), call[c].tcert # NoTcert,
         Len(call[c].todo) = 8, NEW M, Facts(check, M),
         ~Acceptable("any", M, check.doc),
         Remains(disk, M, call[c].tcert, call[c].removed)
  PROVE  \E P : Moment(P)'
<1>1. PICK r, v, l, t, R : /\ r = call[c] /\ v = call'[c]
                           /\ l = Current(c).list
                           /\ t = r.tcert /\ R = r.removed
  OBVIOUS
<1>2. /\ UNCHANGED <<check, policy>> /\ seen'.beside = seen.beside
  BY CheckKept
<1>3. seen.beside = 1 /\ (\A o \in Callers : o # c => ~Active(o))
      /\ r.read[l] = disk[l]
  BY <1>1, WriteBeside DEF Unaccepted
<1>4. /\ c = "user" /\ InOrder(r) /\ r \in CallRecords
      /\ disk'[l] = Swept(l, disk[l], t, R)
      /\ \E n \in 1..11 :
           /\ n = Len(r.todo) /\ l = CascadeOrder[14 - n]
           /\ n # 1 => v.tcert = r.tcert /\ v.removed = r.removed
                       /\ Len(v.todo) = n - 1
  BY <1>1, <1>3, SweepWrite
<1>5. l = "distrusted" /\ v.tcert = t /\ v.removed = R /\ Len(v.todo) = 7
  <2>1. PICK n \in 1..11 :
          /\ n = Len(r.todo) /\ l = CascadeOrder[14 - n]
          /\ n # 1 => v.tcert = r.tcert /\ v.removed = r.removed
                      /\ Len(v.todo) = n - 1
    BY <1>4
  <2>2. n = 8 /\ 8 # 1 /\ 8 - 1 = 7
    BY <1>1, <2>1
  <2>. QED BY <1>1, <2>1, <2>2, SweepLists
<1>6. \A list \in Lists : list # l => disk'[list] = disk[list]
  BY <1>1, WriteIs DEF Current
<1>7. disk'[l] = disk[l] \ R /\ disk'[l] \subseteq disk[l]
  BY <1>4, <1>5 DEF Swept, TcertLists
<1>8. PICK P : P = [x \in Lists |-> IF x = l THEN disk'[l] ELSE M[x]]
  OBVIOUS
<1>9. Remains(disk', P, t, R) /\ Better(M, P, {})
  <2>1. Remains(disk, M, t, R)
    BY <1>1
  <2>2. l \in {"distrusted", "revoked-tcerts", "revoked-keys",
               "revoked-attestations", "blocked-sdocs", "sdoc-statements"}
    BY <1>5
  <2>3. disk'[l] \subseteq disk[l]
    BY <1>7
  <2>. QED BY <1>6, <1>8, <2>1, <2>2, <2>3, RefusalsSwept
<1>10. Facts(check', P) /\ Better(disk', P, {})
  BY <1>2, <1>9, FactsBetter, RemainsBetter
<1>11. t \in R /\ disk'["pinned"] \cap R = {} /\ disk'["cas"] \cap R = {}
  <2>1. StaysOut(disk, r)
    BY <1>1, <1>4 DEF RemovedStaysOut
  <2>2. Len(r.todo) <= 11 /\ Len(r.todo) <= 9 /\ Len(r.todo) <= 8
    <3>1. Len(r.todo) = 8
      BY <1>1
    <3>. QED BY <3>1
  <2>3. t \in R /\ disk["pinned"] \cap R = {} /\ disk["cas"] \cap R = {}
    <3>1. /\ Len(r.todo) <= 11 => r.tcert \in r.removed
          /\ Len(r.todo) <= 9 => disk["pinned"] \cap r.removed = {}
          /\ Len(r.todo) <= 8 => disk["cas"] \cap r.removed = {}
      <4>1. r.tcert # NoTcert
        BY <1>1
      <4>. QED BY <1>4, <2>1, <4>1, StaysOutIs
    <3>. QED BY <1>1, <2>2, <3>1
  <2>4. {"pinned", "cas"} \subseteq Lists
    BY DEF Lists, TcertLists
  <2>. QED BY <1>5, <1>6, <2>3, <2>4
<1>12. Unheard(check, R)
  BY UnheardYet
<1>13. ASSUME check.at = "views", NEW ca, ca \notin R,
              SpeaksFor(P, IssuerOf[check.doc], ca)
       PROVE  FALSE
  <2>1. PICK i : i = IssuerOf[check.doc]
    OBVIOUS
  <2>2. Clear(M, check.doc)
    BY <1>13 DEF Facts, Clear
  <2>3. Better(P, M, R)
    <3>1. /\ {"attestations", "pinned", "cas", "certificates", "distrusted",
              "revoked-tcerts", "revoked-attestations"} \subseteq Lists
          /\ OnePerTarget \subseteq Lists /\ "distrusted" \notin OnePerTarget
      BY DEF Lists, TcertLists, StatementLists, OnePerTarget
    <3>2. M["distrusted"] \subseteq P["distrusted"] \cup R
      BY <1>1, <1>5, <1>7, <1>8, <3>1 DEF Remains, Refusals
    <3>3. \A list \in Lists : list # "distrusted" => P[list] = M[list]
      BY <1>5, <1>8
    <3>. QED BY <3>1, <3>2, <3>3 DEF Better
  <2>4. \A j \in 1..13 : ~Silences(CaReads[j], M[ListOf(CaReads[j])], i, ca)
    BY <1>13, <2>1, <2>3, SilencesBetter DEF SpeaksFor
  <2>5. ca \in Attesting(M, i)
    BY <1>13, <2>1, <2>3, AttestingBetter DEF SpeaksFor
  <2>6. ca \in M["pinned"] \cup M["cas"]
    BY <1>13, <2>3 DEF SpeaksFor, Better
  <2>. QED BY <2>1, <2>2, <2>4, <2>5, <2>6, AcceptableIs DEF SpeaksFor
<1>14. Parted(check, P, R)'
  BY <1>2, <1>13 DEF Parted
<1>15. call'["import"] = call["import"] /\ ~Active("import")
  BY <1>1, <1>3, <1>4, WriteIs DEF Callers
<1>16. Lifted(P)'
  BY <1>1, <1>2, <1>4, <1>5, <1>9, <1>11, <1>12, <1>14, <1>15
  DEF Lifted, Active
<1>. QED BY <1>2, <1>3, <1>10, <1>16 DEF Moment

\* After that, it takes the rest of the trust away.
LEMMA MomentLifted ==
  ASSUME Typed, OneBeside, Checking, Unaccepted, NEW c \in Callers, Write(c),
         NEW M, Facts(check, M), Lifted(M)
  PROVE  Moment(M)'
<1>1. PICK r, v, l, t, R : /\ r = call[c] /\ v = call'[c]
                           /\ l = Current(c).list
                           /\ t = r.tcert /\ R = r.removed
  OBVIOUS
<1>2. /\ UNCHANGED <<check, policy>> /\ seen'.beside = seen.beside
  BY CheckKept
<1>3. seen.beside = 1 /\ (\A o \in Callers : o # c => ~Active(o))
      /\ r.read[l] = disk[l] /\ c = "user"
  <2>1. Active(c)
    BY DEF Write, Active
  <2>. QED BY <1>1, <2>1, WriteBeside DEF Unaccepted, Lifted, Callers
<1>4. /\ t # NoTcert /\ t \in R /\ Remains(disk, M, t, R)
      /\ \A list \in {"pinned", "cas"} : disk[list] \cap R = {}
      /\ Unheard(check, R) /\ Parted(check, M, R) /\ Len(r.todo) \in 6..7
  BY <1>1, <1>3 DEF Lifted
<1>5. /\ disk'[l] = Swept(l, disk[l], t, R)
      /\ \E n \in 1..11 :
           /\ n = Len(r.todo) /\ l = CascadeOrder[14 - n]
           /\ n # 1 => v.tcert = r.tcert /\ v.removed = r.removed
                       /\ Len(v.todo) = n - 1
  BY <1>1, <1>3, <1>4, SweepWrite
<1>6. PICK n \in 1..11 :
        /\ n = Len(r.todo) /\ l = CascadeOrder[14 - n]
        /\ n # 1 => v.tcert = r.tcert /\ v.removed = r.removed
                    /\ Len(v.todo) = n - 1
  BY <1>5
<1>7. n \in {6, 7} /\ n # 1
  <2>1. \A m \in 6..7 : m \in {6, 7} /\ m # 1
    OBVIOUS
  <2>. QED BY <1>4, <1>6, <2>1
<1>8. /\ n = 7 => l = "archived-tcerts"
      /\ n = 6 => l = "certificates"
  BY <1>6, SweepLists
<1>9. \A list \in Lists : list # l => disk'[list] = disk[list]
  BY <1>1, WriteIs DEF Current
<1>10. Remains(disk', M, t, R)
  BY <1>4, <1>5, <1>7, <1>8, <1>9, TrustSwept
<1>11. /\ {"pinned", "cas", "certificates", "attestations"} \subseteq Lists
       /\ "archived-tcerts" \notin {"pinned", "cas", "certificates",
                                    "attestations"}
  BY DEF Lists, TcertLists, StatementLists
<1>12. \A list \in {"pinned", "cas"} : disk'[list] \cap R = {}
  BY <1>4, <1>7, <1>8, <1>9, <1>11
<1>13. call'["import"] = call["import"] /\ ~Active("import")
  BY <1>1, <1>3, WriteIs DEF Callers
<1>14. v.tcert = t /\ v.removed = R /\ Len(v.todo) = n - 1
  BY <1>1, <1>6, <1>7
<1>15. Better(disk', M, {})
  BY <1>10, RemainsBetter
<1>16. CASE n = 7
  <2>1. /\ disk'["certificates"] = disk["certificates"]
        /\ disk'["attestations"] = disk["attestations"]
    BY <1>8, <1>9, <1>11, <1>16
  <2>2. Parted(check, M, R)'
    BY <1>2, <1>4, <2>1 DEF Parted, Attesting
  <2>3. Len(v.todo) \in 6..7
    BY <1>14, <1>16
  <2>4. Lifted(M)'
    BY <1>1, <1>2, <1>3, <1>4, <1>10, <1>12, <1>13, <1>14, <2>2, <2>3
    DEF Lifted, Active
  <2>. QED BY <1>2, <1>3, <1>15, <2>4 DEF Moment, Lifted
<1>17. CASE n = 6
  <2>1. disk'["certificates"] \cap R = {}
    <3>1. l \in TcertLists
      BY <1>8, <1>17 DEF TcertLists
    <3>. QED BY <1>5, <1>8, <1>17, <3>1 DEF Swept
  <2>2. Len(v.todo) = 5 /\ 5 <= 5
    BY <1>14, <1>17
  <2>3. Lost(M)'
    BY <1>1, <1>2, <1>3, <1>4, <1>10, <1>12, <1>13, <1>14, <2>1, <2>2
    DEF Lost, Active
  <2>. QED BY <1>2, <1>3, <1>15, <2>3 DEF Moment
<1>. QED BY <1>7, <1>16, <1>17

\* A removal takes refusals back, from a state met as it is.
LEMMA MomentRefusals ==
  ASSUME Typed, OneBeside, Checking, Unaccepted, NEW c \in Callers, Write(c),
         call[c].tcert # NoTcert, Len(call[c].todo) <= 5, Facts(check, disk)
  PROVE  \E M : Moment(M)'
<1>1. PICK r, l : r = call[c] /\ l = Current(c).list
  OBVIOUS
<1>2. UNCHANGED <<check, policy>>
  BY CheckKept
<1>3. r.read[l] = disk[l]
  BY <1>1, WriteBeside DEF Unaccepted
<1>4. /\ disk'[l] = Swept(l, disk[l], r.tcert, r.removed)
      /\ \E n \in 1..11 : n = Len(r.todo) /\ l = CascadeOrder[14 - n]
  BY <1>1, <1>3, SweepWrite
<1>5. PICK n \in 1..11 : n = Len(r.todo) /\ l = CascadeOrder[14 - n]
  BY <1>4
<1>6. l \in {"revoked-tcerts", "revoked-keys", "revoked-attestations",
             "blocked-sdocs", "sdoc-statements"}
  BY <1>1, <1>5, SweepLists
<1>7. \A list \in Lists : list # l => disk'[list] = disk[list]
  BY <1>1, WriteIs DEF Current
<1>8. disk'[l] \subseteq disk[l]
  BY <1>4 DEF Swept
<1>9. Kinder(l, disk[l], disk'[l])
  BY <1>6, <1>8 DEF Kinder, Targets
<1>10. Better(disk, disk', {})
  BY <1>7, <1>9, KinderIs
<1>11. PICK N : N = disk'
  OBVIOUS
<1>12. Facts(check', N) /\ Better(disk', N, {})
  BY <1>2, <1>10, <1>11, FactsBetter, BetterIs
<1>13. Moment(N)'
  BY <1>11, <1>12 DEF Moment
<1>. QED BY <1>13

\* A removal takes refusals back that a verification has met, from those whose
\* trust it has taken away.
LEMMA MomentLost ==
  ASSUME Typed, OneBeside, Checking, Unaccepted, NEW c \in Callers, Write(c),
         call[c].tcert # NoTcert, Len(call[c].todo) <= 5, NEW M,
         Facts(check, M), NEW t, NEW R, t \in R, Remains(disk, M, t, R),
         \A list \in {"pinned", "cas", "certificates"} : disk[list] \cap R = {},
         Unheard(check, R)
  PROVE  \E P : Moment(P)'
<1>1. PICK r, v, l : r = call[c] /\ v = call'[c] /\ l = Current(c).list
  OBVIOUS
<1>2. /\ UNCHANGED <<check, policy>> /\ seen'.beside = seen.beside
  BY CheckKept
<1>3. seen.beside = 1 /\ (\A o \in Callers : o # c => ~Active(o))
      /\ r.read[l] = disk[l] /\ r.objects = {}
  BY <1>1, WriteBeside DEF Unaccepted
<1>4. /\ c = "user" /\ Current(c).op = "sweep"
      /\ disk'[l] = Swept(l, disk[l], r.tcert, r.removed)
      /\ \E n \in 1..11 :
           /\ n = Len(r.todo) /\ l = CascadeOrder[14 - n]
           /\ n = 1 => v = Idle
           /\ n # 1 => v.tcert = r.tcert /\ v.removed = r.removed
                       /\ Len(v.todo) = n - 1
  BY <1>1, <1>3, SweepWrite
<1>5. PICK n \in 1..11 :
        /\ n = Len(r.todo) /\ l = CascadeOrder[14 - n]
        /\ n = 1 => v = Idle
        /\ n # 1 => v.tcert = r.tcert /\ Len(v.todo) = n - 1
  BY <1>4
<1>6. l \in {"revoked-tcerts", "revoked-keys", "revoked-attestations",
             "blocked-sdocs", "sdoc-statements"}
  BY <1>1, <1>5, SweepLists
<1>7. \A list \in Lists : list # l => disk'[list] = disk[list]
  BY <1>1, WriteIs DEF Current
<1>8. disk'[l] \subseteq disk[l]
  BY <1>4 DEF Swept
<1>9. PICK P : P = [x \in Lists |-> IF x = l THEN disk'[l] ELSE M[x]]
  OBVIOUS
<1>10. Remains(disk', P, t, R) /\ Better(M, P, {})
  BY <1>6, <1>7, <1>8, <1>9, RefusalsSwept
<1>11. Facts(check', P) /\ Better(disk', P, {})
  BY <1>2, <1>10, FactsBetter, RemainsBetter
<1>12. \A list \in {"pinned", "cas", "certificates"} : disk'[list] \cap R = {}
  <2>1. {"pinned", "cas", "certificates"} \subseteq Lists
        /\ l \notin {"pinned", "cas", "certificates"}
    BY <1>6 DEF Lists, TcertLists
  <2>. QED BY <1>7, <2>1
<1>13. call'["import"] = call["import"] /\ ~Active("import")
  BY <1>1, <1>3, <1>4, WriteIs DEF Callers
<1>14. Active("user")' =>
         call'["user"].tcert # NoTcert /\ Len(call'["user"].todo) <= 5
  <2>1. CASE n = 1
    BY <1>1, <1>4, <1>5, <2>1, IdleIs DEF Active
  <2>2. CASE n # 1
    <3>1. n - 1 <= 5
      BY <1>1, <1>5
    <3>. QED BY <1>1, <1>4, <1>5, <2>2, <3>1
  <2>. QED BY <2>1, <2>2
<1>15. Lost(P)'
  BY <1>2, <1>10, <1>12, <1>13, <1>14 DEF Lost, Active
<1>16. Moment(P)'
  BY <1>2, <1>3, <1>11, <1>15 DEF Moment
<1>. QED BY <1>16

LEMMA MomentWrites ==
  ASSUME Typed, RemovedStaysOut, OneBeside, CheckInOrder, MomentSoFar,
         NEW c \in Callers, Write(c)
  PROVE  MomentSoFar'
<1>1. SUFFICES ASSUME Unaccepted'
               PROVE  /\ check'.verdict # "valid"
                      /\ Checking' => \E M : Moment(M)'
  BY DEF MomentSoFar
<1>2. /\ UNCHANGED <<check, policy>> /\ seen'.beside = seen.beside
      /\ Unaccepted
  BY <1>1, CheckKept DEF Unaccepted
<1>3. SUFFICES ASSUME Checking
               PROVE  \E M : Moment(M)'
  BY <1>2 DEF MomentSoFar, Checking
<1>4. PICK M : Moment(M)
  BY <1>2, <1>3 DEF MomentSoFar
<1>5. Facts(check, M) /\ Better(disk, M, {})
  BY <1>4 DEF Moment
<1>6. ~Acceptable("any", disk, check.doc)
  BY <1>2, <1>3, OrderlyIs DEF Unaccepted
<1>7. Active(c)
  BY DEF Write, Active
<1>8. PICK r, t, R : r = call[c] /\ t = r.tcert /\ R = r.removed
  OBVIOUS
<1>9. t # NoTcert => /\ c = "user" /\ InOrder(r) /\ r \in CallRecords
                     /\ Len(r.todo) \in 1..11
  <2>1. call[c].read[Current(c).list] = disk[Current(c).list]
    BY <1>2, <1>3, WriteBeside DEF Unaccepted
  <2>. QED BY <1>8, <2>1, SweepWrite
<1>10. \A m \in 1..11 : m <= 5 \/ m = 8 \/ m \in (6..11) \ {8}
  OBVIOUS
<1>11. CASE M = disk
  <2>1. CASE t = NoTcert
    BY <1>2, <1>3, <1>5, <1>8, <1>11, <2>1, MomentEdits
  <2>2. CASE t # NoTcert /\ Len(r.todo) <= 5
    BY <1>2, <1>3, <1>5, <1>8, <1>11, <2>2, MomentRefusals
  <2>3. Remains(disk, M, t, R)
    BY <1>11 DEF Remains
  <2>4. CASE t # NoTcert /\ Len(r.todo) = 8
    BY <1>2, <1>3, <1>5, <1>6, <1>8, <1>11, <2>3, <2>4, MomentLifts
  <2>5. CASE t # NoTcert /\ Len(r.todo) \in (6..11) \ {8}
    <3>1. Moment(M)'
      BY <1>1, <1>2, <1>3, <1>5, <1>6, <1>8, <1>11, <2>3, <2>5, MomentTrust
    <3>. QED BY <3>1
  <2>. QED BY <1>9, <1>10, <2>1, <2>2, <2>4, <2>5
<1>12. CASE Edited(M)
  <2>1. Moment(M)'
    BY <1>2, <1>3, <1>5, <1>12, MomentEdited
  <2>. QED BY <2>1
<1>13. CASE Losing(M)
  <2>1. c = "user" /\ t # NoTcert /\ Remains(disk, M, t, R)
        /\ ~Acceptable("any", M, check.doc)
    BY <1>7, <1>8, <1>13 DEF Losing, Callers
  <2>2. CASE Len(r.todo) \in (6..11) \ {8}
    <3>1. Moment(M)'
      BY <1>1, <1>2, <1>3, <1>5, <1>8, <2>1, <2>2, MomentTrust
    <3>. QED BY <3>1
  <2>4. CASE Len(r.todo) = 8
    BY <1>2, <1>3, <1>5, <1>8, <2>1, <2>4, MomentLifts
  <2>3. CASE Len(r.todo) <= 5
    <3>1. Len(r.todo) = 5
      <4>1. \A m \in 5..10 : m <= 5 => m = 5
        OBVIOUS
      <4>. QED BY <1>8, <1>13, <2>1, <2>3, <4>1 DEF Losing
    <3>2. disk["certificates"] \cap R = {}
      BY <1>8, <1>13, <2>1, <3>1 DEF Losing
    <3>3. t \in R /\ disk["pinned"] \cap R = {} /\ disk["cas"] \cap R = {}
      <4>1. StaysOut(disk, r)
        BY <1>8, <2>1 DEF RemovedStaysOut
      <4>2. 5 <= 11 /\ 5 <= 9 /\ 5 <= 8
        OBVIOUS
      <4>. QED BY <1>8, <1>9, <2>1, <3>1, <4>1, <4>2, StaysOutIs
    <3>4. Unheard(check, R)
      BY <1>5, <2>1, UnheardYet
    <3>. QED BY <1>2, <1>3, <1>5, <1>8, <2>1, <2>3, <3>2, <3>3, <3>4,
                MomentLost
  <2>. QED BY <1>9, <1>10, <2>1, <2>2, <2>3, <2>4
<1>14. CASE Lifted(M)
  <2>1. Moment(M)'
    BY <1>2, <1>3, <1>5, <1>14, MomentLifted
  <2>. QED BY <2>1
<1>15. CASE Lost(M)
  <2>1. c = "user" /\ t # NoTcert /\ Len(r.todo) <= 5
    BY <1>7, <1>8, <1>15 DEF Lost, Callers
  <2>2. PICK t0, R0 : /\ t0 \in R0 /\ Remains(disk, M, t0, R0)
                      /\ \A list \in {"pinned", "cas", "certificates"} :
                           disk[list] \cap R0 = {}
                      /\ Unheard(check, R0)
    BY <1>15 DEF Lost
  <2>. QED BY <1>2, <1>3, <1>5, <1>8, <2>1, <2>2, MomentLost
<1>. QED BY <1>4, <1>11, <1>12, <1>13, <1>14, <1>15 DEF Moment

LEMMA MomentSoFarStep ==
  ASSUME Typed, MobileInvariant, MomentSoFar, [Next]_vars
  PROVE  MomentSoFar'
<1>1. ReadToWrite /\ RemovedStaysOut /\ OneBeside /\ CheckInOrder
  BY DEF MobileInvariant
<1>2. CASE UNCHANGED vars
  BY <1>2 DEF vars, MomentSoFar, Unaccepted, Checking, Moment, Edited, Losing,
              Lifted, Parted, Lost, Active
<1>3. ASSUME NEW c \in Callers, NEW r, NewCall(c, r), Begin(c, r)
      PROVE  MomentSoFar'
  BY <1>1, <1>3, MomentBegins
<1>4. CASE CheckStep
  BY <1>1, <1>4, MomentChecks
<1>5. ASSUME NEW c \in Callers, Write(c)
      PROVE  MomentSoFar'
  BY <1>1, <1>5, MomentWrites
<1>. QED BY <1>2, <1>3, <1>4, <1>5, NextCases, MomentReads, MomentStarts

\* A valid verdict, with one other call beside the verification, has a moment
\* at which the document was acceptable.
THEOREM ValidAtOneMomentHolds == Spec => []ValidAtOneMoment
<1>1. Init => MomentSoFar
  BY DEF Init, Unstarted, MomentSoFar, Checking
<1>2. Typed /\ MobileInvariant /\ MomentSoFar /\ [Next]_vars => MomentSoFar'
  BY MomentSoFarStep
<1>3. Typed /\ MomentSoFar => ValidAtOneMoment
  BY DEF MomentSoFar, Unaccepted, ValidAtOneMoment
<1>. QED
  BY <1>1, <1>2, <1>3, TypedAlways, MobileInvariantHolds, PTL DEF Spec
=============================================================================
