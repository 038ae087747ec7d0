---------------------------- MODULE MCUploadQueue ----------------------------
(***************************************************************************)
(* Instances of UploadQueue: a statement for two endpoints and an          *)
(* attachment for the first, beside flushes of the timer and of a user.    *)
(***************************************************************************)
EXTENDS UploadQueue, TLC

CONSTANTS stmt, att, s1, s2, ca1, ca2, a1, a2, b1, tick1, tick2, user

MCEntriesOf == stmt :> {a1, a2} @@ att :> {b1}
MCEndpointOf == a1 :> s1 @@ a2 :> s2 @@ b1 :> s1
MCCaOf == a1 :> ca1 @@ a2 :> ca1 @@ b1 :> NoCa
=============================================================================
