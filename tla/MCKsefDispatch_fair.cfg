\* Liveness: two overlapping requests, one worker, live mode.
CONSTANTS
  Invoices = {i1}
  Requests = {t1, t2}
  Workers = {w1}
  Versions = {v1}
  None = None
  Modes = {"live"}
  MaxAttempts = 3
  MaxSubmissions = 1
  MaxAborts = 1
SPECIFICATION FairSpec
PROPERTIES
  PollingEnds
  RequestsEnd
CHECK_DEADLOCK FALSE
