------------------------------ MODULE MCServer ------------------------------
(***************************************************************************)
(* An instance of Server: a CA `ca', a TCert `t1' whose issuer has signed  *)
(* two bodies for its number (createTcert takes the lowest number that is  *)
(* unused, so one that was removed is made again), the same issuer's next  *)
(* TCert `t2', and a body under the id of `t1' that its key did not sign.  *)
(***************************************************************************)
EXTENDS Server, TLC

CONSTANTS ka, ki, ca, t1, t2, bodyA, body1, body1new, body2, forged, r1, r2, n1

Workers == {r1, r2}
Symmetry == Permutations(Workers)

IssuerKeyOf == ca :> ka @@ t1 :> ki @@ t2 :> ki
IssuerNumber == ca :> 1 @@ t1 :> 1 @@ t2 :> 2
IssuerTcertOf == bodyA :> ca @@ body1 :> t1 @@ body1new :> t1 @@ body2 :> t2
                   @@ forged :> t1
IssuerCerts == ca :> bodyA @@ t1 :> body1 @@ t2 :> body2

Attest(k, t, b) == [action |-> "attest", signer |-> k, target |-> t,
                    body |-> b]
Other(a, k, t) == [action |-> a, signer |-> k, target |-> t, body |-> NoBody]

IssuerStatements == {Attest(ka, t1, body1), Attest(ka, t1, body1new),
                     Attest(ka, t1, body2), Attest(ka, t1, forged),
                     Other("revokeTcert", ki, t1)}
=============================================================================
