\* One invoice, one owner's request, one worker, one transaction, two keys, one
\* API request at a time.
CONSTANTS
  Invoices = {i1}
  Tids = {t1}
  Workers = {w1}
  Owners = {o1}
  Keys = {k1, k2}
  None = None
  MaxJobs = 1
SPECIFICATION BillingSpec
INVARIANTS ClaimsNeedConsent ChargesAreOnRecord
PROPERTIES NoCaptureAfterRevocation KeepsComponents
SYMMETRY Symmetry
