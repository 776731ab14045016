SPECIFICATION FairSpec
CONSTANTS
  saga = saga
  txn = txn
  Nothing = Nothing
  Item <- TwoItems
  Key <- FourKeys
  TransferKey <- TheTransferKeys
  Canonical <- TheCanonical
  Names <- TheNames
  Waiter = {h1, h2}
  Worker = {w1, w2}
INVARIANTS
  TypeOK
  SubscriptionsAreCalls
  NoLostWakeup
  AnswersCurrent
PROPERTIES
  WaitsReturn
