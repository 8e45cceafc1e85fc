\* Two importers, one of them the scheduler's; three documents.
CONSTANTS
  sound = sound
  bad = bad
  twin = twin
  n1 = n1
  n2 = n2
  s1 = s1
  s2 = s2
  p1 = p1
  p2 = p2
  p3 = p3
  q1 = q1
  q2 = q2
  q3 = q3
  Docs = {sound, bad, twin}
  Numbers = {n1, n2}
  Sellers = {s1, s2}
  NumberOf <- MCNumberOf
  SellerOf <- MCSellerOf
  Unreadable = {}
  BadLines = {bad}
  Ranges = {{sound, bad}, {sound, twin}}
  Parties = {p1, p2, p3, q1, q2, q3}
  PartySeller <- MCPartySeller
  Importers = {request, job}
  JobImporters = {job}
  NoDoc = NoDoc
  NoParty = NoParty
  MaxFetches = 2
  MaxAdded = 1
  MaxDeaths = 1
SPECIFICATION ImportFairSpec
INVARIANTS
  ImportTypeOK
  AcceptedIsWhole
  ReportedIsOnFile
  LeftoversHaveACause
  OnePartyPerSeller
  PartyKept
PROPERTIES
  ImportsEnd
CHECK_DEADLOCK FALSE
