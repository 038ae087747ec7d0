----------------------------- MODULE Attachments -----------------------------
(***************************************************************************)
(* The attachment service of the distribution server (AttachmentUpload and *)
(* the administrator's deletions).  A file is uploaded for a field of a    *)
(* registered TCert; the row of a content names the stored file, and each  *)
(* field that uses it has a reference.  Requests run in parallel, each     *)
(* query and each file write a step of its own, and may fail anywhere.     *)
(*                                                                         *)
(* Hashes are ideal: a content is its own id, so the answer `attachment ID *)
(* collision' is never given.  Tokens are those of Server.                 *)
(***************************************************************************)
EXTENDS Naturals

CONSTANTS
  Contents, Fields, Tcerts, Types, Files, Requests,
  Blank,          \* fields of references without a name, in no schema
  TcertOf,        \* [Fields -> Tcerts]: the TCert that the field belongs to
  Declared,       \* [Fields -> Types]: contentType of the field
  Covers,         \* [Types -> SUBSET Types]: what a wildcard type stands for
  LegacyRows,     \* contents with a row that an older version left
  LegacyType,     \* its content type
  LegacyRefs,     \* the references made for those rows, under no field name
  NoFile, NoRow, NoContent, NoField,
  MaxAdmin        \* bound: operations of the administrator

ASSUME AttachmentAssumption ==
  /\ TcertOf \in [Fields -> Tcerts]
  /\ Declared \in [Fields -> Types]
  /\ Covers \in [Types -> SUBSET Types]
  /\ LegacyRows \subseteq Contents
  /\ LegacyType \in Types
  /\ Blank \subseteq Fields
  /\ LegacyRefs \subseteq Blank \X LegacyRows
  /\ NoFile \notin Files
  /\ NoContent \notin Contents
  /\ NoField \notin Fields
  /\ NoRow \notin [file: Files \cup {NoFile}, type: Types]
  /\ MaxAdmin \in Nat

VARIABLES
  rows,        \* [Contents -> AttachmentBlob row, or NoRow]
  refs,        \* <<field, content>> of the AttachmentReference rows
  files,       \* [Files -> what the storage holds under the name]
  registered,  \* TCerts with a row
  allowed,     \* TCerts with allow_attachment_upload
  req,         \* [Requests -> the state of the upload being handled]
  accepted,    \* references that were answered 201 (history)
  admin        \* operations of the administrator (bound only)

vars == <<rows, refs, files, registered, allowed, req, accepted, admin>>

RowType == [file: Files \cup {NoFile}, type: Types]

Stored == [content: Contents, type: Types]
Unwritten == [content |-> NoContent, type |-> LegacyType]

RequestType == [pc: {"idle", "find", "save", "row", "link"},
                field: Fields \cup {NoField},
                content: Contents \cup {NoContent}, type: Types,
                found: BOOLEAN, file: Files \cup {NoFile}, tcertRow: BOOLEAN]

\* `found': there was a row; `tcertRow': the row of the TCert is still there.
Idle == [pc |-> "idle", field |-> NoField, content |-> NoContent,
         type |-> LegacyType, found |-> FALSE, file |-> NoFile,
         tcertRow |-> FALSE]

\* Migration 0011 drops the contents that were in the table: what it leaves
\* has a row and no file.  Migration 0012 makes references for those rows.
Init ==
  /\ rows = [c \in Contents |->
               IF c \in LegacyRows THEN [file |-> NoFile, type |-> LegacyType]
               ELSE NoRow]
  /\ refs = LegacyRefs
  /\ files = [f \in Files |-> Unwritten]
  /\ registered = Tcerts
  /\ allowed = Tcerts
  /\ req = [r \in Requests |-> Idle]
  /\ accepted = {}
  /\ admin = 0

\* The rows that CASCADE removes with a content or with a TCert.
RefsOfContent(c) == Fields \X {c}
RefsOfTcert(t) == {f \in Fields : TcertOf[f] = t} \X Contents

-----------------------------------------------------------------------------
(* AttachmentUpload.post                                                   *)

\* A wildcard type gives way to the type of the upload that it covers.
ContentType(field, uploaded) ==
  IF uploaded \in Covers[Declared[field]] THEN uploaded ELSE Declared[field]

\* The TCert is loaded and permits uploads, the token is valid, its schema
\* has the field, the file is not too large: otherwise nothing happens.
Begin(r, field, c, uploaded) ==
  /\ req[r].pc = "idle"
  /\ field \notin Blank
  /\ TcertOf[field] \in registered \cap allowed
  /\ req' = [req EXCEPT ![r] =
               [Idle EXCEPT !.pc = "find", !.field = field, !.content = c,
                            !.type = ContentType(field, uploaded),
                            !.tcertRow = TRUE]]
  /\ UNCHANGED <<rows, refs, files, registered, allowed, accepted, admin>>

HasFile(c) == rows[c] # NoRow /\ rows[c].file # NoFile

\* Mutant: a row is taken for a complete upload.
FindRow(r) ==
  /\ req[r].pc = "find"
  /\ req' = [req EXCEPT ![r].pc = IF rows[req[r].content] # NoRow THEN "link"
                                  ELSE "save",
                        ![r].found = rows[req[r].content] # NoRow]
  /\ UNCHANGED <<rows, refs, files, registered, allowed, accepted, admin>>

Find(r) ==
  /\ req[r].pc = "find"
  /\ req' = [req EXCEPT ![r].pc = IF HasFile(req[r].content) THEN "link"
                                  ELSE "save",
                        ![r].found = rows[req[r].content] # NoRow]
  /\ UNCHANGED <<rows, refs, files, registered, allowed, accepted, admin>>

\* The storage picks a name that is free.
SaveFile(r, f) ==
  /\ req[r].pc = "save"
  /\ files[f] = Unwritten
  /\ files' = [files EXCEPT ![f] = [content |-> req[r].content,
                                    type |-> req[r].type]]
  /\ req' = [req EXCEPT ![r].file = f, ![r].pc = "row"]
  /\ UNCHANGED <<rows, refs, registered, allowed, accepted, admin>>

\* Mutant: the repair leaves the type as it is.
SaveRowFile(r) ==
  LET q == req[r]
      c == q.content
  IN /\ q.pc = "row"
     /\ q.found => rows[c] # NoRow
     /\ rows' = [rows EXCEPT ![c] =
                   IF rows[c] # NoRow THEN [rows[c] EXCEPT !.file = q.file]
                   ELSE [file |-> q.file, type |-> q.type]]
     /\ req' = [req EXCEPT ![r].pc = "link"]
     /\ UNCHANGED <<refs, files, registered, allowed, accepted, admin>>

\* A new row overwrites the one that another request has made since; a repair
\* (update_fields) fails when its row is gone.
SaveRow(r) ==
  LET q == req[r]
      c == q.content
  IN /\ q.pc = "row"
     /\ q.found => rows[c] # NoRow
     /\ rows' = [rows EXCEPT ![c] = [file |-> q.file, type |-> q.type]]
     /\ req' = [req EXCEPT ![r].pc = "link"]
     /\ UNCHANGED <<refs, files, registered, allowed, accepted, admin>>

\* get_or_create of the reference, and the answer 201.  The database refuses
\* it when the TCert that was loaded or the row of the content is gone.
Reference(r) ==
  LET q == req[r]
      ref == <<q.field, q.content>>
  IN /\ q.pc = "link"
     /\ q.tcertRow
     /\ rows[q.content] # NoRow
     /\ refs' = refs \cup {ref}
     /\ accepted' = accepted \cup {ref}
     /\ req' = [req EXCEPT ![r] = Idle]
     /\ UNCHANGED <<rows, files, registered, allowed, admin>>

\* Mutant: a request that fails removes the row it was working on.
FailRemoving(r) ==
  /\ req[r].pc # "idle"
  /\ rows' = [rows EXCEPT ![req[r].content] = NoRow]
  /\ refs' = refs \ RefsOfContent(req[r].content)
  /\ accepted' = accepted \ RefsOfContent(req[r].content)
  /\ req' = [req EXCEPT ![r] = Idle]
  /\ UNCHANGED <<files, registered, allowed, admin>>

\* A failure of the storage or the database, or a worker that dies.
Fail(r) ==
  /\ req[r].pc # "idle"
  /\ req' = [req EXCEPT ![r] = Idle]
  /\ UNCHANGED <<rows, refs, files, registered, allowed, accepted, admin>>

-----------------------------------------------------------------------------
(* The administrator.                                                      *)

Administer == admin < MaxAdmin /\ admin' = admin + 1

\* Mutant: the references stay.
DeleteBlobOnly(c) ==
  /\ Administer
  /\ rows[c] # NoRow
  /\ rows' = [rows EXCEPT ![c] = NoRow]
  /\ UNCHANGED <<refs, files, registered, allowed, req, accepted>>

\* CASCADE takes the references; the stored file stays.
DeleteBlob(c) ==
  /\ Administer
  /\ rows[c] # NoRow
  /\ rows' = [rows EXCEPT ![c] = NoRow]
  /\ refs' = refs \ RefsOfContent(c)
  /\ accepted' = accepted \ RefsOfContent(c)
  /\ UNCHANGED <<files, registered, allowed, req>>

DeleteReference(ref) ==
  /\ Administer
  /\ ref \in refs
  /\ refs' = refs \ {ref}
  /\ accepted' = accepted \ {ref}
  /\ UNCHANGED <<rows, files, registered, allowed, req>>

DeleteTcert(t) ==
  /\ Administer
  /\ t \in registered
  /\ registered' = registered \ {t}
  /\ refs' = refs \ RefsOfTcert(t)
  /\ accepted' = accepted \ RefsOfTcert(t)
  /\ req' = [r \in Requests |->
               IF req[r].field \in {f \in Fields : TcertOf[f] = t}
               THEN [req[r] EXCEPT !.tcertRow = FALSE] ELSE req[r]]
  /\ UNCHANGED <<rows, files, allowed>>

\* A row that is made anew has every service.
Register(t) ==
  /\ Administer
  /\ t \notin registered
  /\ registered' = registered \cup {t}
  /\ allowed' = allowed \cup {t}
  /\ UNCHANGED <<rows, refs, files, req, accepted>>

Forbid(t) ==
  /\ Administer
  /\ t \in registered \cap allowed
  /\ allowed' = allowed \ {t}
  /\ UNCHANGED <<rows, refs, files, registered, req, accepted>>

Next ==
  \/ \E r \in Requests, field \in Fields, c \in Contents, up \in Types :
       Begin(r, field, c, up)
  \/ \E r \in Requests : Find(r)
  \/ \E r \in Requests, f \in Files : SaveFile(r, f)
  \/ \E r \in Requests : SaveRow(r)
  \/ \E r \in Requests : Reference(r)
  \/ \E r \in Requests : Fail(r)
  \/ \E c \in Contents : DeleteBlob(c)
  \/ \E ref \in refs : DeleteReference(ref)
  \/ \E t \in Tcerts : DeleteTcert(t)
  \/ \E t \in Tcerts : Register(t)
  \/ \E t \in Tcerts : Forbid(t)

Spec == Init /\ [][Next]_vars

-----------------------------------------------------------------------------

\* Foreign keys name rows.
KeysHold ==
  \A ref \in refs : rows[ref[2]] # NoRow /\ TcertOf[ref[1]] \in registered

TypeOK ==
  /\ rows \in [Contents -> RowType \cup {NoRow}]
  /\ refs \in SUBSET (Fields \X Contents)
  /\ files \in [Files -> Stored \cup {Unwritten}]
  /\ registered \in SUBSET Tcerts
  /\ allowed \in SUBSET Tcerts
  /\ req \in [Requests -> RequestType]
  /\ accepted \in SUBSET refs
  /\ admin \in 0..MaxAdmin
  /\ KeysHold

\* What AttachmentDetail serves under an id is the content of that id, under
\* the type it was uploaded with: whichever of two parallel uploads writes
\* the row last, and whatever stopped half-way (views.py:542-557).
RowIsWhole ==
  \A c \in Contents : HasFile(c) =>
    files[rows[c].file] = [content |-> c, type |-> rows[c].type]

\* A reference that was answered with 201 can be downloaded until the
\* administrator deletes it: no upload that runs beside it, finishes after it
\* or stops half-way takes its file away, and a row without a file is never
\* taken for an upload (views.py:548-551).
AcceptedIsServed == \A ref \in accepted : ref \in refs /\ HasFile(ref[2])

-----------------------------------------------------------------------------
(* The promise.                                                            *)

ServedContents == {c \in Contents : HasFile(c)}
ServedLinks == {ref \in refs : ref[2] \in ServedContents}

Store == INSTANCE ContentStore WITH served <- ServedContents,
                                    linked <- ServedLinks,
                                    orders <- admin

\* The service is a ContentStore: a content is served from the moment its row
\* names its file until the administrator deletes it, and a field links to
\* nothing that is not served (views.py:534-562).
ImplementsContentStore == Store!Spec

\* Files on their way into a row belong to the request that wrote them.
FileInvariant ==
  \A r \in Requests :
    /\ req[r].pc = "row" =>
         /\ req[r].file \in Files
         /\ files[req[r].file] = [content |-> req[r].content,
                                  type |-> req[r].type]
    /\ req[r].pc # "idle" => req[r].field \in Fields /\ req[r].content \in Contents
    /\ req[r].tcertRow =>
         req[r].field \in Fields /\ TcertOf[req[r].field] \in registered
    /\ req[r].pc = "link" =>
         HasFile(req[r].content) \/ rows[req[r].content] = NoRow

Inv == TypeOK /\ FileInvariant /\ RowIsWhole /\ AcceptedIsServed
=============================================================================
