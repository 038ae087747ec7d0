SPECIFICATION FairSpec
CONSTANTS
  stmt = stmt  att = att  s1 = s1  s2 = s2  ca1 = ca1  ca2 = ca2
  a1 = a1  a2 = a2  b1 = b1  tick1 = tick1  tick2 = tick2  user = user
  NoCa = NoCa  Every = Every  NoEntry = NoEntry
  Submissions = {stmt, att}
  Entries = {a1, a2, b1}
  EntriesOf <- MCEntriesOf
  Endpoints = {s1, s2}
  Cas = {ca1, ca2}
  EndpointOf <- MCEndpointOf
  CaOf <- MCCaOf
  Attachments = {b1}
  TimerFlushes = {tick1}
  UserFlushes = {user}
  Accepted = {a1, b1}
  MaxFaults = 3
INVARIANT TypeOK
INVARIANT QueuedIsKept
PROPERTY QueuedIsDelivered
