\* Two overlapping requests on one invoice, one worker, both modes.
CONSTANTS
  Invoices = {i1}
  Requests = {t1, t2}
  Workers = {w1}
  Versions = {v1, v2}
  None = None
  Modes = {"mock", "live"}
  MaxAttempts = 2
  MaxSubmissions = 2
  MaxAborts = 1
SPECIFICATION Spec
PROPERTY ImplementsLifecycle
INVARIANTS
  TypeOK
  SendsAreExclusive
  SentIsPolled
  VerdictIsKsefs
  DoneJobDelivered
  QueuedCanBeRetried
CHECK_DEADLOCK FALSE
SYMMETRY Symmetry
