SPECIFICATION FairSpec
CHECK_DEADLOCK FALSE
CONSTANTS
  Grain = 1
  MaxNumeric = 10
  AccountId <- Ids
  Ledger <- TwoLedgers
  Clearing <- TheClearing
  LedgerOf <- TheLedgerOf
  TypeOf <- TheTypeOf
  Key = {"k1", "k2"}
  NoKey = ""
  Postings <- ThePostings
  Transfers <- TheTransfers
  Pass = {p1, p2}
  Limit = 1
  MaxAttempts = 2
  MaxTransactions = 4
INVARIANTS
  TypeOK
  StatementsAgree
  EventsMatchSagas
  AnswersAgree
PROPERTIES
  TransfersAreSagas
  TransfersSettle
