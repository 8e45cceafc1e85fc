\* One transaction at a time: is a batch that has a job ever sent?
CONSTANTS
  Invoices = {i1}
  Txns = {t1}
  None = None
  ApiStatuses = {}
  MaxBatches = 2
  MaxItems = 2
  MaxJobs = 1
  MaxOverlaps = 0
SPECIFICATION FairSpec
PROPERTIES
  WaitingBatchIsSent
CHECK_DEADLOCK FALSE
