SPECIFICATION Spec
CONSTANTS
  Grain = 1
  MaxNumeric = 1000
  Session = {s1}
  Free = Free
  AccountId <- MCAccountId
  Malformed = {9}
  LedgerOf <- MCLedgerOf
  NameOf <- MCNameOf
  TypeOf <- MCTypeOf
  DefaultLedger = "nil"
  InitialAccounts = {1, 2, 3, 4, 5}
  Key = {"k"}
  NoKey = NoKey
  Calls <- SpanningCalls
  MaxPostingBatchSize = 2
  MaxSerializationRetries = 1
  MaxFaults = 0
INVARIANTS
  LedgersBalance
