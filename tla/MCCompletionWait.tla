-------------------------- MODULE MCCompletionWait --------------------------
(***************************************************************************)
(* An instance of CompletionWait for TLC: a saga under two spellings of    *)
(* its UUID, a transaction under its UUID, and a UUID nobody has.          *)
(***************************************************************************)
EXTENDS CompletionWait

CONSTANTS saga, txn

TwoItems == {saga, txn}
FourKeys == {"saga uuid", "SAGA UUID", "txn uuid", "unknown uuid"}
TheTransferKeys == {"saga uuid", "SAGA UUID"}
TheCanonical == [i \in TwoItems |-> IF i = saga THEN "saga uuid" ELSE "txn uuid"]
TheNames ==
  [k \in FourKeys |-> CASE k \in TheTransferKeys -> saga
                        [] k = "txn uuid" -> txn
                        [] OTHER -> Nothing]
=============================================================================
