CONSTANTS
  Batches = {b1, b2}
  Emails = {e1}
  Replies = {}
  Senders = {s1}
  Plan <- Flat
  Window = 1
  MaxDay = 1
  None = None
SPECIFICATION Spec
INVARIANT NoRepeatWithinWindow
SYMMETRY Symmetry
