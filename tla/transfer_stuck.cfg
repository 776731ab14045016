SPECIFICATION FairSpec
CONSTANTS
  Grain = 1
  MaxNumeric = 4
  Client = {c1}
  Worker = {w1}
  Free = Free
  AccountId <- MCAccountId
  Clearing <- MCClearing
  LedgerOf <- MCLedgerOf
  TypeOf <- MCTypeOf
  Opening <- MCOpening
  InitialAccounts = {2, 3}
  InitialSagas <- NoSagas
  Key = {"k", "m", "old"}
  UuidKey = {}
  Calls <- LargeCalls
  BatchLimit = 2
  MaxFaults = 0
PROPERTIES
  TransfersSettle
