SPECIFICATION FairSpec
CONSTANTS
  Grain = 1
  MaxNumeric = 4
  Event = {1, 2}
  Postings <- LateSplit
  Row <- CashRows
  LedgerOf <- MCLedgerOf
  DayOf <- MCDayOf
  Publisher = {p1, p2}
  Consumer = {c1, c2}
  NoOwner = NoOwner
  Gone = Gone
  ClaimLimit = 2
  FetchBatch = 2
  MaxFaults <- TwoFaultsOrEvents
INVARIANTS
  TypeOK
  NothingLost
  PublishedOnce
PROPERTIES
  ProcessedForGood
  EventuallyProjected
