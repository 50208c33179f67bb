\* Three transactions and four rows, each may append more than once; two languages and
\* two runners with a retry; three mails or replies, a page of one mail and two faults.  A
\* message that is settled does not move on.
CONSTANTS
  Txs = {x1, x2, x3}
  Events = {a}
  MaxEntries = 4
  Locales = {en, ko}
  Runners = {w1, w2}
  MaxAttempts = 3
  MaxRetries = 1
  MaxTime = 3
  PageSize = 1
  MaxFaults = 2
SPECIFICATION Spec
CHECK_DEADLOCK FALSE
INVARIANTS ServicesTyped Verified ThreadTellsNewest
PROPERTIES TranslationIsKept EverythingSettles
