\* README.md:140: polling until KSeF has decided.
CONSTANTS
  Invoices = {i1}
  Requests = {t1}
  Workers = {w1}
  Versions = {v1}
  None = None
  Modes = {"live"}
  MaxAttempts = 3
  MaxSubmissions = 1
  MaxAborts = 0
SPECIFICATION FairSpec
PROPERTIES
  PolledUntilDecided
CHECK_DEADLOCK FALSE
