SPECIFICATION FairSpec
CONSTANTS
  Grain = 1
  MaxNumeric = 1000
  Session = {s1, s2}
  Free = Free
  AccountId <- MCAccountId
  Malformed = {9}
  LedgerOf <- MCLedgerOf
  NameOf <- MCNameOf
  TypeOf <- MCTypeOf
  DefaultLedger = "nil"
  InitialAccounts = {1, 2, 3}
  Key = {"k"}
  NoKey = NoKey
  Calls <- ContendingCalls
  MaxPostingBatchSize = 2
  MaxSerializationRetries = 1
  MaxFaults = 2
INVARIANTS
  TypeOK
PROPERTIES
  CallsReturn
