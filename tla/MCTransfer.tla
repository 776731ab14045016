---------------------------- MODULE MCTransfer ----------------------------
(***************************************************************************)
(* Instances of Transfer for TLC.  Ledger 1 has account 2 and clearing     *)
(* account 1, ledger 2 has account 3 and clearing account 4, so the UUID   *)
(* order puts one clearing account before and one after the account it     *)
(* serves.  All are assets.                                                *)
(***************************************************************************)
EXTENDS TransferRefinement

MCAccountId == 1..4
MCClearing == <<1, 4>>
MCLedgerOf == <<1, 1, 2, 2>>
MCTypeOf == <<"asset", "asset", "asset", "asset">>
MCOpening == <<0, 3, 1, 0>>

Move(key, source, destination, amount) ==
  [key |-> key, source |-> source, destination |-> destination, amount |-> amount,
   sourceLedger |-> MCLedgerOf[source], destinationLedger |-> MCLedgerOf[destination]]

\* A saga whose destination credit an earlier release gave up on.
FailedSaga ==
  [key |-> "old", source |-> 2, destination |-> 3, amount |-> 1,
   status |-> "failed", credit |-> "processed", refund |-> "pending"]

NoSagas == <<>>
OldSagas == <<FailedSaga>>

\* Retries and reuse of a key, transfers in both directions, two that share
\* both clearing accounts, competition for the one unit in account 3, and
\* requests that are refused.
MixedCalls ==
  {Move("k", 2, 3, 1), Move("k", 3, 2, 1), Move("m", 2, 3, 1), Move("m", 3, 2, 1),
   Move("m", 2, 2, 1),
   [Move("m", 2, 3, 1) EXCEPT !.sourceLedger = 2, !.destinationLedger = 1]}

RepeatedCalls == {Move("k", 2, 3, 1)}
\* Leaves no room for account 3 in NUMERIC when MaxNumeric is 4.
LargeCalls == {Move("k", 2, 3, 3)}
=============================================================================
