\* Three sign-ups, one of them under audit, three months, two closers.  Three ids
\* suffice: every invoice bills a sign-up of its own.
CONSTANTS
  Usages = {u1, u2, u3}
  Flagged = {u3}
  Closers = {c1, c2}
  Ids = {i1, i2, i3}
  Prices = {0, 1, 2}
  Policy = 1
  MaxMonth = 2
  None = None
SPECIFICATION FairSpec
INVARIANTS AmountMatches HeldUsageIsNotBilled MonthIsOver
  SupplementsAreNumbered
PROPERTIES InvoicesAreFinal EveryUsageIsBilled
