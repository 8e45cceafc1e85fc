\* README.md:514 under two overlapping requests.
CONSTANTS
  Invoices = {i1}
  Requests = {t1, t2}
  Workers = {w1}
  Versions = {v1}
  None = None
  Modes = {"live"}
  MaxAttempts = 2
  MaxSubmissions = 2
  MaxAborts = 1
SPECIFICATION Spec
PROPERTIES
  StatusMovesForward
CHECK_DEADLOCK FALSE
SYMMETRY Symmetry
