------------------------------ MODULE SagaSpec ------------------------------
(***************************************************************************)
(* What a cross-ledger transfer promises: money leaves a source account    *)
(* that can afford it, is in transit, and then either reaches the          *)
(* destination or returns to the source, once and in full.  No clearing    *)
(* accounts, events, workers or locks: transit is one amount.              *)
(*                                                                         *)
(* Both stores implement this specification: Transfer (PostgreSQL) and     *)
(* MemoryStore.                                                            *)
(***************************************************************************)
EXTENDS LedgerRules

CONSTANTS
  Account,          \* the accounts clients name
  LedgerOf, TypeOf,
  Key,
  Amount            \* amounts a transfer may move

VARIABLES
  funds,    \* stored balance of every account in Account
  transit,  \* what has left a source and not arrived anywhere
  sagas     \* the transfers, in the order in which they were accepted

vars == <<funds, transit, sagas>>

NewSaga == [key : Key, source : Account, destination : Account,
            amount : Amount, status : {"pending"}]

AmountOf(S) == SumFunction([i \in S |-> sagas[i].amount])
Unsettled == {i \in DOMAIN sagas : sagas[i].status \in {"pending", "failed"}}

Init ==
  /\ funds \in [Account -> Int]
  /\ transit = AmountOf(Unsettled)

SetStatus(S, status) ==
  sagas' = [i \in DOMAIN sagas |->
              IF i \in S THEN [sagas[i] EXCEPT !.status = status] ELSE sagas[i]]

\* A transfer between two ledgers is accepted under a fresh key.
Begin ==
  /\ \E new \in NewSaga :
       /\ new.amount > 0
       /\ LedgerOf[new.source] # LedgerOf[new.destination]
       /\ \A i \in DOMAIN sagas : sagas[i].key # new.key
       /\ DisplayedBalance(TypeOf[new.source], funds[new.source] - new.amount) >= 0
       /\ sagas' = Append(sagas, new)
       /\ funds' = [funds EXCEPT ![new.source] = @ - new.amount]
       /\ transit' = transit + new.amount

\* Pending transfers arrive, several at a time.
Arrive ==
  /\ \E S \in (SUBSET {i \in DOMAIN sagas : sagas[i].status = "pending"}) \ {{}} :
       /\ SetStatus(S, "completed")
       /\ funds' = [a \in Account |-> funds[a] + AmountOf({i \in S : sagas[i].destination = a})]
       /\ transit' = transit - AmountOf(S)

\* A pending transfer is given up; its money is still in transit.
GiveUp ==
  /\ \E i \in DOMAIN sagas : sagas[i].status = "pending" /\ SetStatus({i}, "failed")
  /\ UNCHANGED <<funds, transit>>

\* A transfer that was given up is paid back.
PayBack ==
  /\ \E i \in DOMAIN sagas :
       /\ sagas[i].status = "failed"
       /\ SetStatus({i}, "compensated")
       /\ funds' = [funds EXCEPT ![sagas[i].source] = @ + sagas[i].amount]
       /\ transit' = transit - sagas[i].amount

\* An ordinary posting moves money between accounts of one ledger.
Post ==
  /\ funds' \in [Account -> Int]
  /\ \A l \in {LedgerOf[a] : a \in Account} :
       LET accounts == {a \in Account : LedgerOf[a] = l}
       IN  SumFunctionOnSet(funds', accounts) = SumFunctionOnSet(funds, accounts)
  /\ UNCHANGED <<transit, sagas>>

Next == Begin \/ Arrive \/ GiveUp \/ PayBack \/ Post

Spec == Init /\ [][Next]_vars
=============================================================================
