SPECIFICATION Spec
CONSTANTS
  boss = boss  u = u  ku = ku  ta = ta  tb = tb  da = da
  r1 = r1  r2 = r2
  NoUser = NoUser  NoKey = NoKey  NoTcert = NoTcert  NoDoc = NoDoc
  Users = {boss, u}
  Admins = {boss}
  ApiKeys = {ku}
  OwnerOf <- KeyOwner
  ScopeOf <- KeyScope
  UserScopeOf <- UserScope
  Tcerts = {ta, tb}
  Cas = {ta}
  Schemaless = {}
  Endpoint = {ta, tb}
  LoadedTcerts = {ta}
  LoadedApiKeys = {ku}
  Docs = {da}
  IssuerOf <- DocIssuer
  Requests <- Workers
  MaxRequests = 4
SYMMETRY Symmetry
INVARIANT TypeOK
INVARIANT AnsweredIsRecorded
INVARIANT RecordNamesItsSigner
CHECK_DEADLOCK FALSE
