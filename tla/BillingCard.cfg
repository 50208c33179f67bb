\* Two requests of the owner and two workers at a time, two keys: one that is
\* revoked and one that is registered after it.
CONSTANTS
  Owners = {o1, o2}
  Workers = {w1, w2}
  Orders = {i1}
  Keys = {k1, k2}
  None = None
SPECIFICATION FairSpec
INVARIANTS ChargesUseTheActiveCard LateChargeNeedsTheCard
PROPERTIES DroppedKeyIsDeleted OwnerIsServed
