---------------------------- MODULE MCAttachments ----------------------------
(***************************************************************************)
(* Two uploads at once, for a field of a TCert that takes any image and a   *)
(* field of it that takes any data; one content has a row of an older      *)
(* version, with a reference.                                              *)
(***************************************************************************)
EXTENDS Attachments, TLC

CONSTANTS t1, photo, scan, blank, new, old, data, image, png, f1, f2, r1, r2

Workers == {r1, r2}
Names == {f1, f2}
Symmetry == Permutations(Workers) \cup Permutations(Names)

OldRefs == {<<blank, old>>}

FieldTcert == photo :> t1 @@ scan :> t1 @@ blank :> t1
FieldType == photo :> image @@ scan :> data @@ blank :> data
TypeCovers == image :> {png} @@ data :> {} @@ png :> {}
=============================================================================
