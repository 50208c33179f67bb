\* One brand, two registrations at the same time.
CONSTANTS
  Owners = {o1, o2}
  Workers = {w1}
  Orders = {i1}
  Keys = {k1, k2}
  None = None
SPECIFICATION Spec
INVARIANT OneKeyIssued
