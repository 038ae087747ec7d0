SPECIFICATION Spec
CONSTANTS
  ca = ca  cb = cb  ti = ti  ka = ka  kb = kb  kt = kt  d = d
  NoTcert = NoTcert
  Tcerts = {ca, cb, ti}
  SigningKeys = {ka, kb, kt}
  Docs = {d}
  KeyOf <- CaKeyOf
  IssuerOf <- DocIssuer
  Offers <- Offered
  Stored <- SampleStored
  MaxCalls = 3
INVARIANT TypeOK
INVARIANT RemovalGrantsNothing
INVARIANT ValidAtOneMoment
CHECK_DEADLOCK FALSE
