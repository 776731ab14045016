------------------------------ MODULE MCMemory ------------------------------
(***************************************************************************)
(* An instance of MemoryStore for TLC: two ledgers, three accounts, a      *)
(* funding under a key that is also sent with another amount, and          *)
(* transfers there and back.                                               *)
(***************************************************************************)
EXTENDS MemoryStore

TwoLedgers == {"home", "abroad"}
Ids == {"cash", "equity", "cash abroad", "clearing", "clearing abroad"}
TheLedgerOf == [a \in Ids |-> IF a \in {"cash abroad", "clearing abroad"} THEN "abroad" ELSE "home"]
TheTypeOf == [a \in Ids |-> IF a = "equity" THEN "equity" ELSE "asset"]
TheClearing == [l \in TwoLedgers |-> IF l = "home" THEN "clearing" ELSE "clearing abroad"]

\* cash is named twice; the order of the entries differs in the second.
Fund(x) == <<Debit("cash", x), Credit("equity", x + 1), Debit("cash", 1)>>
FundAgain(x) == <<Credit("equity", x + 1), Debit("cash", 1), Debit("cash", x)>>

ThePostings ==
  {[header |-> "k1", body |-> NoKey, entries |-> Fund(1)],
   [header |-> "k1", body |-> "k2", entries |-> FundAgain(1)],
   [header |-> NoKey, body |-> "k1", entries |-> Fund(2)]}

There(header, body, x) ==
  [header |-> header, body |-> body, source |-> "cash", sourceLedger |-> "home",
   destination |-> "cash abroad", destinationLedger |-> "abroad", amount |-> x]
Back(x) ==
  [header |-> "k2", body |-> NoKey, source |-> "cash abroad", sourceLedger |-> "abroad",
   destination |-> "cash", destinationLedger |-> "home", amount |-> x]

\* Both transfers out are open at once after Fund(2).  Back needs the arrival of
\* the first one, and finds its key taken by the second.
TheTransfers == {There("k2", "k1", 1), There("k2", NoKey, 2), Back(1)}
=============================================================================
