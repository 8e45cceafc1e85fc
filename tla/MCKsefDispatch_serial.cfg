\* One request at a time, two invoices in one poll batch, both modes.
CONSTANTS
  Invoices = {i1, i2}
  Requests = {t1}
  Workers = {w1}
  Versions = {v1, v2}
  None = None
  Modes = {"mock", "live"}
  MaxAttempts = 2
  MaxSubmissions = 2
  MaxAborts = 1
SPECIFICATION Spec
INVARIANTS
  SentIsOnFile
PROPERTIES
  StatusMovesForward
CHECK_DEADLOCK FALSE
SYMMETRY InvoiceSymmetry
