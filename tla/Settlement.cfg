\* One invoice, two workers, two transactions (two windows, or a window and a card
\* charge), two API requests at a time beside the reconcile tick.
CONSTANTS
  Invoices = {i1}
  Tids = {t1, t2}
  Workers = {w1, w2}
  None = None
  MaxJobs = 2
SPECIFICATION FairSpec
INVARIANTS OneCapture CapturedIsTraceable
  CancelledStaysInReview LoggedOnce PaidAttemptWasConfirmed
PROPERTIES ImplementsLifecycle ProcessingWithTidIsResolved
