-------------------------- MODULE AttachmentsProofs --------------------------
(***************************************************************************)
(* The attachment service, for any contents, fields and number of parallel *)
(* uploads: what it serves is whole, what it has accepted it serves, and   *)
(* it implements ContentStore.                                             *)
(***************************************************************************)
EXTENDS Attachments, TLAPS

LEMMA InitInv ==
  ASSUME AttachmentAssumption, Init
  PROVE  Inv
<1> USE DEF AttachmentAssumption, Init
<1>1. Idle \in RequestType /\ Idle.pc = "idle" /\ Idle.tcertRow = FALSE
  BY DEF Idle, RequestType
<1>2. \A c \in Contents : rows[c] = NoRow \/ rows[c].file = NoFile
  OBVIOUS
<1>3. rows \in [Contents -> RowType \cup {NoRow}]
  BY DEF RowType
<1>4. \A c \in LegacyRows : rows[c] # NoRow
  <2>1. [file |-> NoFile, type |-> LegacyType] \in
          [file : Files \cup {NoFile}, type : Types]
    OBVIOUS
  <2>. QED BY <2>1
<1>5. KeysHold
  BY <1>4 DEF KeysHold
<1>6. refs \in SUBSET (Fields \X Contents)
  OBVIOUS
<1>7. TypeOK
  BY <1>1, <1>3, <1>5, <1>6 DEF TypeOK
<1>8. FileInvariant /\ RowIsWhole /\ AcceptedIsServed
  BY <1>1, <1>2 DEF FileInvariant, RowIsWhole, AcceptedIsServed, HasFile
<1>. QED BY <1>7, <1>8 DEF Inv

(* The steps of an upload keep the requests well typed.                    *)
LEMMA StepRequests ==
  ASSUME AttachmentAssumption, TypeOK, Next
  PROVE  req' \in [Requests -> RequestType]
<1> USE DEF AttachmentAssumption, TypeOK
<1>0. Idle \in RequestType
  BY DEF Idle, RequestType
<1>1. ASSUME NEW r \in Requests, NEW field \in Fields, NEW c \in Contents,
             NEW up \in Types, Begin(r, field, c, up)
      PROVE  req' \in [Requests -> RequestType]
  <2>1. ContentType(field, up) \in Types
    BY DEF ContentType
  <2>2. [Idle EXCEPT !.pc = "find", !.field = field, !.content = c,
                     !.type = ContentType(field, up), !.tcertRow = TRUE]
          \in RequestType
    BY <2>1 DEF Idle, RequestType
  <2>. QED BY <1>1, <2>2 DEF Begin
<1>2. ASSUME NEW r \in Requests, Find(r) \/ SaveRow(r)
      PROVE  req' \in [Requests -> RequestType]
  BY <1>2 DEF Find, SaveRow, RequestType
<1>3. ASSUME NEW r \in Requests, NEW f \in Files, SaveFile(r, f)
      PROVE  req' \in [Requests -> RequestType]
  BY <1>3 DEF SaveFile, RequestType
<1>4. ASSUME NEW r \in Requests, Reference(r) \/ Fail(r)
      PROVE  req' \in [Requests -> RequestType]
  BY <1>0, <1>4 DEF Reference, Fail
<1>5. ASSUME NEW t \in Tcerts, DeleteTcert(t)
      PROVE  req' \in [Requests -> RequestType]
  <2>1. ASSUME NEW q \in RequestType
        PROVE  [q EXCEPT !.tcertRow = FALSE] \in RequestType
    BY DEF RequestType
  <2>. QED BY <1>5, <2>1 DEF DeleteTcert
<1>. QED BY <1>1, <1>2, <1>3, <1>4, <1>5
         DEF Next, DeleteBlob, DeleteReference, Register, Forbid

(* What an upload stores in the row of its content; no row loses its file. *)
LEMMA RowShape ==
  ASSUME AttachmentAssumption, Inv, NEW r \in Requests, SaveRow(r)
  PROVE  /\ req[r].content \in Contents
         /\ req[r].file \in Files
         /\ [file |-> req[r].file, type |-> req[r].type] \in RowType
         /\ [file |-> req[r].file, type |-> req[r].type] # NoRow
         /\ \A c \in Contents : HasFile(c) \/ c = req[r].content =>
              rows'[c] # NoRow /\ rows'[c].file # NoFile
<1>1. req[r].content \in Contents /\ req[r].file \in Files
  BY DEF SaveRow, Inv, FileInvariant
<1>2. [file |-> req[r].file, type |-> req[r].type] \in RowType
  BY <1>1 DEF Inv, TypeOK, RequestType, RowType
<1>3. [file |-> req[r].file, type |-> req[r].type] # NoRow
  BY <1>2 DEF AttachmentAssumption, RowType
<1>4. rows' = [rows EXCEPT ![req[r].content] =
                 [file |-> req[r].file, type |-> req[r].type]]
  BY DEF SaveRow
<1>5. rows \in [Contents -> RowType \cup {NoRow}] /\ req[r].file # NoFile
  BY <1>1 DEF Inv, TypeOK, AttachmentAssumption
<1>6. ASSUME NEW c \in Contents, HasFile(c) \/ c = req[r].content
      PROVE  rows'[c] # NoRow /\ rows'[c].file # NoFile
  BY <1>1, <1>3, <1>4, <1>5, <1>6 DEF HasFile
<1>. QED BY <1>1, <1>2, <1>3, <1>6

(* Each step keeps the tables and the files well typed, and the foreign    *)
(* keys.                                                                   *)
LEMMA StepTyped ==
  ASSUME AttachmentAssumption, Inv, Next
  PROVE  TypeOK'
<1> USE DEF Inv, TypeOK, KeysHold
<1>0. req' \in [Requests -> RequestType]
  BY StepRequests
<1>1. ASSUME NEW r \in Requests, NEW field \in Fields, NEW c \in Contents,
             NEW up \in Types, Begin(r, field, c, up)
      PROVE  TypeOK'
  BY <1>0, <1>1 DEF Begin
<1>2. ASSUME NEW r \in Requests, Find(r) \/ Fail(r)
      PROVE  TypeOK'
  BY <1>0, <1>2 DEF Find, Fail
<1>3. ASSUME NEW r \in Requests, NEW f \in Files, SaveFile(r, f)
      PROVE  TypeOK'
  <2>1. [content |-> req[r].content, type |-> req[r].type] \in Stored
    BY <1>3 DEF SaveFile, FileInvariant, RequestType, Stored
  <2>. QED BY <1>0, <1>3, <2>1 DEF SaveFile
<1>4. ASSUME NEW r \in Requests, SaveRow(r)
      PROVE  TypeOK'
  BY <1>0, <1>4, RowShape DEF SaveRow
<1>5. ASSUME NEW r \in Requests, Reference(r)
      PROVE  TypeOK'
  <2>1. /\ req[r].field \in Fields /\ req[r].content \in Contents
        /\ TcertOf[req[r].field] \in registered
    BY <1>5 DEF Reference, FileInvariant
  <2>. QED BY <1>0, <1>5, <2>1 DEF Reference
<1>6. ASSUME NEW c \in Contents, DeleteBlob(c)
      PROVE  TypeOK'
  BY <1>0, <1>6 DEF DeleteBlob, Administer, RefsOfContent, AttachmentAssumption
<1>7. ASSUME NEW ref \in refs, DeleteReference(ref)
      PROVE  TypeOK'
  BY <1>0, <1>7 DEF DeleteReference, Administer, AttachmentAssumption
<1>8. ASSUME NEW t \in Tcerts, DeleteTcert(t)
      PROVE  TypeOK'
  <2>1. ASSUME NEW ref \in refs'
        PROVE  ref \in refs /\ TcertOf[ref[1]] # t
    BY <1>8, <2>1 DEF DeleteTcert, RefsOfTcert
  <2>. QED BY <1>0, <1>8, <2>1
           DEF DeleteTcert, Administer, AttachmentAssumption
<1>9. ASSUME NEW t \in Tcerts, Register(t) \/ Forbid(t)
      PROVE  TypeOK'
  BY <1>0, <1>9 DEF Register, Forbid, Administer, AttachmentAssumption
<1>. QED BY <1>1, <1>2, <1>3, <1>4, <1>5, <1>6, <1>7, <1>8, <1>9 DEF Next

(* A step that leaves the rows, the files and the requests alone, or only  *)
(* ends requests, leaves the invariants on files alone.                    *)
LEMMA FilesUntouched ==
  ASSUME AttachmentAssumption, Inv, UNCHANGED <<rows, files>>,
         accepted' \subseteq accepted, accepted' \subseteq refs'
  PROVE  RowIsWhole' /\ AcceptedIsServed'
BY DEF Inv, TypeOK, RowIsWhole, AcceptedIsServed, HasFile

(* A row is never left without the file it names, nor with one that holds  *)
(* another content.                                                        *)
LEMMA StepRows ==
  ASSUME AttachmentAssumption, Inv, Next
  PROVE  RowIsWhole' /\ AcceptedIsServed'
<1> USE DEF Inv, TypeOK
<1>1. ASSUME NEW r \in Requests, NEW f \in Files, SaveFile(r, f)
      PROVE  RowIsWhole' /\ AcceptedIsServed'
  <2>1. \A g \in Files : files[g].content \in Contents => files'[g] = files[g]
    BY <1>1 DEF SaveFile, Unwritten, AttachmentAssumption
  <2>2. ASSUME NEW c \in Contents, HasFile(c)'
        PROVE  files'[rows'[c].file] = [content |-> c, type |-> rows'[c].type]
    <3>1. rows' = rows /\ HasFile(c)
      BY <1>1, <2>2 DEF SaveFile, HasFile
    <3>2. rows[c].file \in Files
      BY <3>1 DEF HasFile, RowType
    <3>3. files[rows[c].file] = [content |-> c, type |-> rows[c].type]
      BY <3>1 DEF RowIsWhole
    <3>. QED BY <2>1, <3>1, <3>2, <3>3
  <2>. QED BY <1>1, <2>2 DEF SaveFile, RowIsWhole, AcceptedIsServed, HasFile
<1>2. ASSUME NEW r \in Requests, SaveRow(r)
      PROVE  RowIsWhole' /\ AcceptedIsServed'
  <2> DEFINE c == req[r].content
             row == [file |-> req[r].file, type |-> req[r].type]
  <2>1. c \in Contents /\ row.file \in Files /\ row # NoRow
    BY <1>2, RowShape
  <2>2. rows'[c] = row /\ \A d \in Contents : d # c => rows'[d] = rows[d]
    BY <1>2, <2>1 DEF SaveRow
  <2>3. files[row.file] = [content |-> c, type |-> row.type]
    BY <1>2 DEF SaveRow, FileInvariant
  <2>4. files' = files /\ refs' = refs /\ accepted' = accepted
    BY <1>2 DEF SaveRow
  <2> HIDE DEF c, row
  <2>5. RowIsWhole'
    BY <2>2, <2>3, <2>4 DEF RowIsWhole, HasFile
  <2>6. \A ref \in accepted : ref[2] \in Contents /\ HasFile(ref[2])
    BY DEF AcceptedIsServed
  <2>7. AcceptedIsServed'
    BY <1>2, <2>4, <2>6, RowShape DEF AcceptedIsServed, HasFile
  <2>. QED BY <2>5, <2>7
<1>3. ASSUME NEW r \in Requests, Reference(r)
      PROVE  RowIsWhole' /\ AcceptedIsServed'
  <2>1. HasFile(req[r].content)
    BY <1>3 DEF Reference, FileInvariant
  <2>. QED BY <1>3, <2>1 DEF Reference, RowIsWhole, AcceptedIsServed, HasFile
<1>4. ASSUME NEW c \in Contents, DeleteBlob(c)
      PROVE  RowIsWhole' /\ AcceptedIsServed'
  <2>1. \A d \in Contents : rows'[d] = IF d = c THEN NoRow ELSE rows[d]
    BY <1>4 DEF DeleteBlob
  <2>2. \A ref \in accepted' : ref \in accepted /\ ref \in refs'
                               /\ ref[2] # c /\ ref[2] \in Contents
    BY <1>4 DEF DeleteBlob, RefsOfContent
  <2>3. AcceptedIsServed'
    BY <2>1, <2>2 DEF AcceptedIsServed, HasFile
  <2>4. RowIsWhole'
    BY <1>4, <2>1 DEF DeleteBlob, RowIsWhole, HasFile
  <2>. QED BY <2>3, <2>4
<1>5. ASSUME NEW ref \in refs, DeleteReference(ref)
      PROVE  RowIsWhole' /\ AcceptedIsServed'
  BY <1>5, FilesUntouched DEF DeleteReference
<1>6. ASSUME NEW t \in Tcerts, DeleteTcert(t)
      PROVE  RowIsWhole' /\ AcceptedIsServed'
  BY <1>6, FilesUntouched DEF DeleteTcert
<1>7. ASSUME UNCHANGED <<rows, files, refs, accepted>>
      PROVE  RowIsWhole' /\ AcceptedIsServed'
  BY <1>7, FilesUntouched
<1>. QED BY <1>1, <1>2, <1>3, <1>4, <1>5, <1>6, <1>7
         DEF Next, Begin, Find, Fail, Register, Forbid

\* FileInvariant, of one request.
FilesOf(r) ==
  /\ req[r].pc = "row" =>
       /\ req[r].file \in Files
       /\ files[req[r].file] = [content |-> req[r].content,
                                type |-> req[r].type]
  /\ req[r].pc # "idle" => req[r].field \in Fields /\ req[r].content \in Contents
  /\ req[r].tcertRow =>
       req[r].field \in Fields /\ TcertOf[req[r].field] \in registered
  /\ req[r].pc = "link" =>
       HasFile(req[r].content) \/ rows[req[r].content] = NoRow

(* The file of a request stays what the request has written, and the row   *)
(* it has found or written keeps a file.                                   *)
LEMMA StepRequestFiles ==
  ASSUME AttachmentAssumption, Inv, Next
  PROVE  FileInvariant'
<1> USE DEF Inv, TypeOK
<1>0. SUFFICES ASSUME NEW q \in Requests
               PROVE  FilesOf(q)'
  BY DEF FileInvariant, FilesOf
<1>00. FilesOf(q)
  BY DEF FileInvariant, FilesOf
<1>000. Idle.pc = "idle" /\ Idle.tcertRow = FALSE
  BY DEF Idle
<1>1. ASSUME NEW r \in Requests, NEW field \in Fields, NEW c \in Contents,
             NEW up \in Types, Begin(r, field, c, up)
      PROVE  FilesOf(q)'
  <2>1. CASE q = r
    <3>1. /\ req'[r].pc = "find" /\ req'[r].field = field
          /\ req'[r].content = c
      BY <1>1 DEF Begin, Idle
    <3>. QED BY <1>1, <2>1, <3>1 DEF Begin, FilesOf
  <2>2. CASE q # r
    BY <1>00, <1>1, <2>2 DEF Begin, FilesOf, HasFile
  <2>. QED BY <2>1, <2>2
<1>2. ASSUME NEW r \in Requests, Find(r)
      PROVE  FilesOf(q)'
  <2>1. CASE q = r
    <3>1. /\ req'[r].field = req[r].field /\ req'[r].content = req[r].content
          /\ req'[r].tcertRow = req[r].tcertRow
          /\ req'[r].pc = IF HasFile(req[r].content) THEN "link" ELSE "save"
      BY <1>2 DEF Find, RequestType
    <3>. QED BY <1>00, <1>2, <2>1, <3>1 DEF Find, FilesOf, HasFile
  <2>2. CASE q # r
    BY <1>00, <1>2, <2>2 DEF Find, FilesOf, HasFile
  <2>. QED BY <2>1, <2>2
<1>3. ASSUME NEW r \in Requests, NEW f \in Files, SaveFile(r, f)
      PROVE  FilesOf(q)'
  <2>1. CASE q = r
    BY <1>00, <1>3, <2>1 DEF SaveFile, FilesOf, RequestType
  <2>2. CASE q # r
    <3>1. /\ req'[q] = req[q] /\ rows' = rows /\ registered' = registered
          /\ \A g \in Files : g # f => files'[g] = files[g]
      BY <1>3, <2>2 DEF SaveFile
    <3>2. req[q].pc = "row" => req[q].file # f
      BY <1>00, <1>3 DEF SaveFile, FilesOf, Unwritten, AttachmentAssumption
    <3>. QED BY <1>00, <3>1, <3>2 DEF FilesOf, HasFile
  <2>. QED BY <2>1, <2>2
<1>4. ASSUME NEW r \in Requests, SaveRow(r)
      PROVE  FilesOf(q)'
  <2>1. \A c \in Contents : HasFile(c) \/ c = req[r].content =>
          rows'[c] # NoRow /\ rows'[c].file # NoFile
    BY <1>4, RowShape
  <2>2. \A c \in Contents : c # req[r].content => rows'[c] = rows[c]
    BY <1>4 DEF SaveRow
  <2>3. CASE q = r
    <3>1. /\ req'[r].field = req[r].field /\ req'[r].content = req[r].content
          /\ req'[r].tcertRow = req[r].tcertRow /\ req'[r].pc = "link"
      BY <1>4 DEF SaveRow, RequestType
    <3>. QED BY <1>00, <1>4, <2>1, <2>3, <3>1 DEF SaveRow, FilesOf, HasFile
  <2>4. CASE q # r
    <3>1. req'[q] = req[q] /\ files' = files /\ registered' = registered
      BY <1>4, <2>4 DEF SaveRow
    <3>. QED BY <1>00, <2>1, <2>2, <3>1 DEF FilesOf, HasFile
  <2>. QED BY <2>3, <2>4
<1>5. ASSUME NEW r \in Requests, Reference(r) \/ Fail(r)
      PROVE  FilesOf(q)'
  BY <1>00, <1>000, <1>5 DEF Reference, Fail, FilesOf, HasFile
<1>6. ASSUME NEW c \in Contents, DeleteBlob(c)
      PROVE  FilesOf(q)'
  BY <1>00, <1>6 DEF DeleteBlob, FilesOf, HasFile
<1>7. ASSUME NEW t \in Tcerts, DeleteTcert(t)
      PROVE  FilesOf(q)'
  <2>1. CASE req[q].field \in {f \in Fields : TcertOf[f] = t}
    <3>1. req'[q] = [req[q] EXCEPT !.tcertRow = FALSE]
      BY <1>7, <2>1 DEF DeleteTcert
    <3>2. /\ req'[q].pc = req[q].pc /\ req'[q].file = req[q].file
          /\ req'[q].content = req[q].content /\ req'[q].type = req[q].type
          /\ req'[q].field = req[q].field /\ req'[q].tcertRow = FALSE
      BY <3>1 DEF RequestType
    <3>. QED BY <1>00, <1>7, <3>2 DEF DeleteTcert, FilesOf, HasFile
  <2>2. CASE req[q].field \notin {f \in Fields : TcertOf[f] = t}
    <3>1. req'[q] = req[q]
      BY <1>7, <2>2 DEF DeleteTcert
    <3>. QED BY <1>00, <1>7, <2>2, <3>1 DEF DeleteTcert, FilesOf, HasFile
  <2>. QED BY <2>1, <2>2
<1>8. ASSUME NEW t \in Tcerts, Register(t) \/ Forbid(t)
      PROVE  FilesOf(q)'
  BY <1>00, <1>8 DEF Register, Forbid, FilesOf, HasFile
<1>9. ASSUME NEW ref \in refs, DeleteReference(ref)
      PROVE  FilesOf(q)'
  BY <1>00, <1>9 DEF DeleteReference, FilesOf, HasFile
<1>. QED BY <1>1, <1>2, <1>3, <1>4, <1>5, <1>6, <1>7, <1>8, <1>9 DEF Next

THEOREM InvHolds ==
  ASSUME AttachmentAssumption
  PROVE  Spec => []Inv
<1>1. Init => Inv
  BY InitInv
<1>2. Inv /\ [Next]_vars => Inv'
  <2>1. CASE UNCHANGED vars
    BY <2>1 DEF vars, Inv, TypeOK, KeysHold, FileInvariant, RowIsWhole,
                AcceptedIsServed, HasFile
  <2>2. ASSUME Inv, Next
        PROVE  Inv'
    BY <2>2, StepTyped, StepRows, StepRequestFiles DEF Inv
  <2>. QED BY <2>1, <2>2
<1>. QED BY <1>1, <1>2, PTL DEF Spec

(* The tables, the requests and the history stay well typed, and no        *)
(* reference names a row that is gone.                                     *)
THEOREM AttachmentsTyped ==
  ASSUME AttachmentAssumption
  PROVE  Spec => []TypeOK
<1>1. Inv => TypeOK
  BY DEF Inv
<1>. QED BY <1>1, InvHolds, PTL

(* What AttachmentDetail serves under an id is the content of that id,     *)
(* under the type it was uploaded with.                                    *)
THEOREM RowsWhole ==
  ASSUME AttachmentAssumption
  PROVE  Spec => []RowIsWhole
<1>1. Inv => RowIsWhole
  BY DEF Inv
<1>. QED BY <1>1, InvHolds, PTL

(* An upload that was answered with 201 can be downloaded until the        *)
(* administrator deletes it.                                               *)
THEOREM AcceptedServed ==
  ASSUME AttachmentAssumption
  PROVE  Spec => []AcceptedIsServed
<1>1. Inv => AcceptedIsServed
  BY DEF Inv
<1>. QED BY <1>1, InvHolds, PTL

(* The four operations of ContentStore are its steps.                      *)
LEMMA StoreNext ==
  /\ \A c \in Contents : Store!Put(c) \/ Store!Withdraw(c) => Store!Next
  /\ \A f \in Fields, c \in Contents : Store!Link(f, c) => Store!Next
  /\ \A links \in SUBSET (Fields \X Contents) : Store!Unlink(links) => Store!Next
BY Zenon DEF Store!Next

(* Every step is a step of ContentStore or leaves what it shows alone.     *)
LEMMA StepImplements ==
  ASSUME AttachmentAssumption, Inv, Next
  PROVE  \/ Store!Next
         \/ UNCHANGED <<ServedContents, ServedLinks, admin>>
<1> USE DEF ServedContents, ServedLinks
<1>1. ASSUME UNCHANGED <<rows, refs, admin>>
      PROVE  UNCHANGED <<ServedContents, ServedLinks, admin>>
  BY <1>1 DEF HasFile
<1>2. ASSUME NEW r \in Requests, SaveRow(r)
      PROVE  Store!Next
  <2>0. PICK c \in Contents : c = req[r].content
    BY <1>2, RowShape
  <2>1. rows'[c] # NoRow /\ rows'[c].file # NoFile
    BY <1>2, <2>0, RowShape
  <2>2. \A d \in Contents : d # c => rows'[d] = rows[d]
    BY <1>2, <2>0 DEF SaveRow
  <2>3. ServedContents' = ServedContents \cup {c}
    BY <2>1, <2>2 DEF HasFile
  <2>4. refs' = refs /\ admin' = admin
    BY <1>2 DEF SaveRow
  <2>5. \A ref \in refs : ref \in Fields \X Contents
    BY DEF Inv, TypeOK
  <2> DEFINE waiting == {ref \in refs : ref[2] = c}
  <2>6. waiting \in SUBSET (Fields \X {c})
    BY <2>5
  <2>7. ServedLinks' = ServedLinks \cup waiting
    BY <2>3, <2>4
  <2>8. Store!Put(c)
    BY <2>3, <2>4, <2>6, <2>7 DEF Store!Put
  <2>. QED BY <2>8, StoreNext
<1>3. ASSUME NEW r \in Requests, Reference(r)
      PROVE  Store!Next
  <2>0. req[r].content \in Contents /\ req[r].field \in Fields
    BY <1>3 DEF Reference, Inv, FileInvariant
  <2>00. PICK f \in Fields, c \in Contents :
           f = req[r].field /\ c = req[r].content
    BY <2>0
  <2>1. HasFile(c)
    BY <1>3, <2>00 DEF Reference, Inv, FileInvariant
  <2>2. /\ rows' = rows /\ admin' = admin
        /\ refs' = refs \cup {<<f, c>>}
    BY <1>3, <2>00 DEF Reference
  <2>3. ServedContents' = ServedContents /\ c \in ServedContents
    BY <2>1, <2>2 DEF HasFile
  <2>4. ServedLinks' = ServedLinks \cup {<<f, c>>}
    BY <2>2, <2>3
  <2>5. Store!Link(f, c)
    BY <2>2, <2>3, <2>4 DEF Store!Link
  <2>. QED BY <2>5, StoreNext
<1>4. ASSUME NEW c \in Contents, DeleteBlob(c)
      PROVE  Store!Next
  <2>1. \A d \in Contents : rows'[d] = IF d = c THEN NoRow ELSE rows[d]
    BY <1>4 DEF DeleteBlob, Inv, TypeOK
  <2>2. ServedContents' = ServedContents \ {c}
    BY <2>1 DEF HasFile
  <2>3. refs' = refs \ (Fields \X {c}) /\ admin' = admin + 1
    BY <1>4 DEF DeleteBlob, RefsOfContent, Administer
  <2>4. \A ref \in refs : ref \in Fields \X Contents
    BY DEF Inv, TypeOK
  <2>5. ServedLinks' = ServedLinks \ (Fields \X {c})
    BY <2>2, <2>3, <2>4
  <2>6. Store!Withdraw(c)
    BY <2>2, <2>3, <2>5 DEF Store!Withdraw
  <2>. QED BY <2>6, StoreNext
<1>5. ASSUME NEW links \in SUBSET (Fields \X Contents),
             rows' = rows, refs' = refs \ links, admin' = admin + 1
      PROVE  Store!Next
  <2>1. ServedContents' = ServedContents
    BY <1>5 DEF HasFile
  <2>2. ServedLinks' = ServedLinks \ links
    BY <1>5, <2>1
  <2>3. Store!Unlink(links)
    BY <1>5, <2>1, <2>2 DEF Store!Unlink
  <2>. QED BY <2>3, StoreNext
<1>6. ASSUME NEW ref \in refs, DeleteReference(ref)
      PROVE  Store!Next
  <2>1. {ref} \in SUBSET (Fields \X Contents)
    BY DEF Inv, TypeOK
  <2>. QED BY <1>5, <1>6, <2>1 DEF DeleteReference, Administer
<1>7. ASSUME NEW t \in Tcerts, DeleteTcert(t)
      PROVE  Store!Next
  <2>1. RefsOfTcert(t) \in SUBSET (Fields \X Contents)
    BY DEF RefsOfTcert
  <2>. QED BY <1>5, <1>7, <2>1 DEF DeleteTcert, Administer
<1>8. ASSUME NEW t \in Tcerts, Register(t) \/ Forbid(t)
      PROVE  Store!Next
  <2>1. rows' = rows /\ refs' = refs \ {} /\ admin' = admin + 1
    BY <1>8 DEF Register, Forbid, Administer
  <2>. QED BY <1>5, <2>1
<1>. QED BY <1>1, <1>2, <1>3, <1>4, <1>6, <1>7, <1>8
         DEF Next, Begin, Find, SaveFile, Fail

(* The attachment service implements ContentStore: what is served is       *)
(* served until the administrator withdraws it, and links never dangle.    *)
THEOREM AttachmentsImplementStore ==
  ASSUME AttachmentAssumption
  PROVE  Spec => ImplementsContentStore
<1>1. Init => Store!Init
  <2>1. ASSUME Init
        PROVE  ServedContents = {} /\ ServedLinks = {} /\ admin = 0
    BY <2>1 DEF Init, ServedContents, ServedLinks, HasFile
  <2>. QED BY <2>1 DEF Store!Init
<1>2. Inv /\ [Next]_vars =>
        [Store!Next]_<<ServedContents, ServedLinks, admin>>
  <2>1. CASE UNCHANGED vars
    BY <2>1 DEF vars, ServedContents, ServedLinks, HasFile
  <2>. QED BY <2>1, StepImplements
<1>. QED BY <1>1, <1>2, InvHolds, PTL
         DEF Spec, ImplementsContentStore, Store!Spec
=============================================================================
