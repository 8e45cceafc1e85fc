\* Two requests or processes in each component.
CONSTANTS
  Visits = {v1, v2}
  NoNonce = NoNonce
  MaxNonces = 3
  MaxClock = 2
  MaxChanges = 1
  Payloads <- MCPayloads
  Codes = {"23", "8", "4", "zw", "0 WDT"}
  One = 20
  Grosz = 20
  Point = 4
  Place = 4
  MaxLines = 2
  Mailers = {request, job}
  JobMailer = job
  MaxLogs = 3
  MaxBookings = 2
  Issues = {1, 2}
  Columns = {todo, done}
  Off = Off
  Checkers = {c1, c2}
  PageSize = 1
  MessageLines = 1
  MaxMoves = 2
  MaxMishaps = 1
  Requests = {r1, r2}
  TickThread = tick
  NoKey = NoKey
  MaxRotations = 1
SPECIFICATION SideSpec
SYMMETRY MCAlike
INVARIANTS
  TypesOK
  Lockout
  CodeUsedOnce
  LinesRounded
  HeaderMatchesSummary
  DocumentBalances
  CopyKeepsAmounts
  DeliveryIsRecordedTruly
  ReadersAreUpToDate
  GapsAreRaced
  RefusalsHaveACause
PROPERTIES
  NonceNeverReturns
CHECK_DEADLOCK FALSE
