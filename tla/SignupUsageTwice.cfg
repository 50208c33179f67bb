CONSTANTS
  Txs = {x1, x2}
  Users = {u1}
  Creators = {c1, c2}
  Brands = {b1}
  Demos = {}
  None = None
  MaxEntries = 6
SPECIFICATION Spec
INVARIANT PersonIsChargedOnce
