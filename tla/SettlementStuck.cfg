CONSTANTS
  Invoices = {i1}
  Tids = {t1, t2}
  Workers = {w1}
  None = None
  MaxJobs = 1
SPECIFICATION FairSpec
PROPERTY ProcessingIsResolved
