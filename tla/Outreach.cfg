CONSTANTS
  Batches = {b1, b2}
  Emails = {e1}
  Replies = {m1}
  Senders = {s1, s2}
  Plan <- Ramp
  Window = 1
  MaxDay = 1
  None = None
SPECIFICATION Spec
INVARIANTS MailIsToldOnce OnlyOldBatchesRepeat OptOutIsHonoured
  CancelledIsNotSent DailyLimit
SYMMETRY Symmetry
