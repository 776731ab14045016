SPECIFICATION Spec
CONSTANTS
  Grain = 1
  MaxNumeric = 3
  Session = {s1, s2, s3}
  Free = Free
  AccountId <- MCAccountId
  Malformed = {9}
  LedgerOf <- MCLedgerOf
  NameOf <- MCNameOf
  TypeOf <- MCTypeOf
  DefaultLedger = "nil"
  InitialAccounts = {1, 2, 4, 5}
  Key = {"k"}
  NoKey = NoKey
  Calls <- MixedCalls
  MaxPostingBatchSize = 2
  MaxSerializationRetries = 1
  MaxFaults = 1
INVARIANTS
  NoOverdraft
  KeysNameTransactions
  AnswersTruthful
  PostingsAnnounced
  WaitingFollowsLockOrder
PROPERTIES
  HistoryKept
  CallsAreAtomic
SYMMETRY Symmetry
