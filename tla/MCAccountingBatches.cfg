\* Two invoices, two batches; up to two transactions are open at once.
CONSTANTS
  Invoices = {i1, i2}
  Txns = {t1, t2}
  None = None
  ApiStatuses = {"qualified"}
  MaxBatches = 2
  MaxItems = 2
  MaxJobs = 1
  MaxOverlaps = 1
SPECIFICATION Spec
INVARIANTS
  TypeOK
  MembershipAgrees
  SerialBooksBalance
PROPERTIES
  SentWhole
CHECK_DEADLOCK FALSE
SYMMETRY Symmetry
