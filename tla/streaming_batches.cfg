SPECIFICATION Spec
CONSTANTS
  Grain = 1
  MaxNumeric = 4
  Event = {1, 2}
  Postings <- AllPostings
  Row <- MCRow
  LedgerOf <- MCLedgerOf
  DayOf <- MCDayOf
  Publisher = {p1}
  Consumer = {c1, c2}
  NoOwner = NoOwner
  Gone = Gone
  ClaimLimit = 2
  FetchBatch = 2
  MaxFaults <- OneFault
INVARIANTS
  AggregatesMatchInbox
  NothingLost
  CursorsAreCounted
SYMMETRY Symmetry
