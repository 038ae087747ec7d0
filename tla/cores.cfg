SPECIFICATION Spec
CONSTANTS
  ti = ti  tc = tc  tx = tx  ki = ki  kc = kc
  plain = plain  brief = brief  forged = forged  d1 = d1  d2 = d2
  NoContent = NoContent  Unbound = Unbound  NoTcert = NoTcert
  Keys <- MCKeys
  Tcerts <- MCTcerts
  KeyOf <- MCKeyOf
  Contents <- MCContents
  Forged = {forged}
  Schemaless = {}
  NotBefore <- MCNotBefore
  NotAfter <- MCNotAfter
  MaxAge <- MCMaxAge
  Sdocs = {d1, d2}
  IssuerOf <- MCIssuerOf
  IssuedAt <- MCIssuedAt
  Malformed = {}
  OwnKeys = {kc}
  Times <- OneTime
  Clock <- FourClocks
  Wire <- MCWire
  LoadedCerts <- MCLoadedCerts
  LoadedPinned <- NoTcerts
  LoadedCas <- MCLoadedCas
  LoadedAtts <- MCLoadedAtts
  MaxOps = 5
CHECK_DEADLOCK FALSE
INVARIANT TrustIsNeverNarrower
INVARIANT AuthorityAgrees
INVARIANT JudgementsAgree
