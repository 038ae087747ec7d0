SPECIFICATION VaultSpec
CONSTANTS
  k1 = k1  k2 = k2  k3 = k3  p1 = p1  p2 = p2
  Keys = {k1, k2, k3}
  Passwords = {p1, p2}
  NoKey = NoKey
  NoPassword = NoPassword
SYMMETRY MCSymmetry
INVARIANT VaultTypeOK
INVARIANT UnlockedOpensAll
INVARIANT KeysStayUsable
