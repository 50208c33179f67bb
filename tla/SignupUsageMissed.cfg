CONSTANTS
  Txs = {x1, x2}
  Users = {u1}
  Creators = {c1}
  Brands = {b1, b2}
  Demos = {}
  None = None
  MaxEntries = 4
SPECIFICATION Spec
INVARIANT VerifiedMembersAreCharged
