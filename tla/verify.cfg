SPECIFICATION FairSpec
CONSTANTS
  ti = ti  tc = tc  ki = ki  kc = kc
  plain = plain  sealing = sealing  forged = forged
  d1 = d1  d2 = d2  d3 = d3  v1 = v1
  NoContent = NoContent  Unbound = Unbound  NoTcert = NoTcert
  Keys <- MCKeys
  Tcerts <- MCTcerts
  KeyOf <- MCKeyOf
  Verifications <- MCVerifications
  Contents <- MCContents
  Forged = {forged}
  Schemaless = {}
  Bound = {sealing}
  NotBefore <- MCNotBefore
  NotAfter <- MCNotAfter
  MaxAge <- MCMaxAge
  IssuerOf <- MCIssuerOf
  IssuedAt <- MCIssuedAt
  LoadedCerts <- MCLoadedCerts
  LoadedPinned <- NoTcerts
  LoadedCas <- MCLoadedCas
  LoadedAtts <- MCLoadedAtts
  Sdocs = {d1, d3}
  Sealed = {}
  Malformed = {d3}
  Tampered = {}
  OwnKeys = {kc}
  Times <- OneTime
  Clock <- TwoClocks
  Wire <- CaWire
  MaxOps = 3
INVARIANT TypeOK
INVARIANT RevokedKeyNeverAccepted
INVARIANT RevokedCaCarriesNoTrust
INVARIANT StandingRefusalHolds
INVARIANT AcceptedWasTrusted
INVARIANT BlockEscapesOnlyByRevocation
INVARIANT LocalStatementsAuthorised
PROPERTY RevocationsOnlyGrow
PROPERTY VerificationTerminates
