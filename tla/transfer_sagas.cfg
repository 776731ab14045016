SPECIFICATION FairSpec
CONSTANTS
  Grain = 1
  MaxNumeric = 4
  Client = {c1, c2}
  Worker = {w1, w2}
  Free = Free
  AccountId <- MCAccountId
  Clearing <- MCClearing
  LedgerOf <- MCLedgerOf
  TypeOf <- MCTypeOf
  Opening <- MCOpening
  InitialAccounts = {1, 2, 3}
  InitialSagas <- OldSagas
  Key = {"k", "m", "old"}
  UuidKey = {}
  Calls <- MixedCalls
  BatchLimit = 2
  MaxFaults = 1
INVARIANTS
  TypeOK
  SagasPaidOnce
  BalancesMatchLegs
  AnswersTruthful
PROPERTIES
  TransfersAreSagas
  TransfersSettleWithRoom
  CallsReturn
