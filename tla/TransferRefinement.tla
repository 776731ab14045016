------------------------- MODULE TransferRefinement -------------------------
(***************************************************************************)
(* Transfer implements SagaSpec: what is in transit is what the clearing   *)
(* accounts of all ledgers hold together.                                  *)
(***************************************************************************)
EXTENDS Transfer

Sagas == INSTANCE SagaSpec WITH
  Account <- AccountId \ ClearingIds,
  Amount  <- {Round(r.amount) : r \in Calls},
  funds   <- [a \in AccountId \ ClearingIds |-> balance[a]],
  transit <- SumFunction([a \in ClearingIds |-> balance[a] - Opening[a]]),
  sagas   <- [i \in DOMAIN sagas |->
                [key |-> sagas[i].key, source |-> sagas[i].source,
                 destination |-> sagas[i].destination, amount |-> sagas[i].amount,
                 status |-> sagas[i].status]]

\* Every committed transaction of CreateTransfer, of the credit workers and of
\* the compensation worker is one step of a transfer: no interleaving, failure
\* or repetition moves money twice, from an unfunded source, or to a place the
\* saga's status does not tell.
TransfersAreSagas == Sagas!Spec
=============================================================================
