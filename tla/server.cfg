SPECIFICATION Spec
CONSTANTS
  ka = ka  ki = ki  ca = ca  t1 = t1  t2 = t2
  bodyA = bodyA  body1 = body1  body1new = body1new  body2 = body2
  forged = forged
  r1 = r1  r2 = r2  n1 = n1
  NoTcert = NoTcert  NoBody = NoBody  NoKey = NoKey
  NoStatement = NoStatement  NoNonce = NoNonce
  Keys = {ka, ki}
  Tcerts = {ca, t1, t2}
  Bodies = {bodyA, body1, body1new, body2, forged}
  KeyOf <- IssuerKeyOf
  Number <- IssuerNumber
  TcertOf <- IssuerTcertOf
  Genuine = {bodyA, body1, body1new, body2}
  Statements <- IssuerStatements
  Nonces = {n1}
  Requests <- Workers
  LoadedCerts <- IssuerCerts
  LoadedCas = {ca}
  Switched = {"attestation"}
  Favoured = {ki}
  MaxAdmin = 2
SYMMETRY Symmetry
INVARIANT TypeOK
INVARIANT RedeemedOnce
INVARIANT HostedWasEarned
INVARIANT EnrolmentsAreWhole
INVARIANT BodiesAreVouchedFor
PROPERTY StoredWasPermitted
