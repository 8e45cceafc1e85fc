\* Two processes, two poll jobs and one job of another type.
CONSTANTS
  Jobs = {j1, p1, p2}
  PollJobs = {p1, p2}
  Workers = {w1, w2}
  NoJob = NoJob
  MaxAttempts = 2
  MaxAborts = 1
SPECIFICATION FairSpec
INVARIANTS
  TypeOK
  ClaimsAreExclusive
  NobodyForgotten
  WorkIsBounded
PROPERTIES
  ImplementsLifecycle
  JobsEnd
CHECK_DEADLOCK FALSE
