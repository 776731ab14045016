SPECIFICATION Spec
CONSTANTS
  Grain = 1
  MaxNumeric = 1000
  Client = {c1, c2}
  Worker = {w1}
  Free = Free
  AccountId <- MCAccountId
  Clearing <- MCClearing
  LedgerOf <- MCLedgerOf
  TypeOf <- MCTypeOf
  Opening <- MCOpening
  InitialAccounts = {2, 3}
  InitialSagas <- NoSagas
  Key = {"k", "m", "old"}
  UuidKey = {"k"}
  Calls <- RepeatedCalls
  BatchLimit = 2
  MaxFaults = 0
PROPERTIES
  DuplicateFindsSaga
