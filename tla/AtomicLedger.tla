---------------------------- MODULE AtomicLedger ----------------------------
(***************************************************************************)
(* What the ledger promises its clients, with no database underneath: each *)
(* call takes effect in one indivisible step, on the balances of that      *)
(* moment, somewhere between its start and its answer.  Amounts are exact. *)
(*                                                                         *)
(* Posting is shown to implement this specification: its locks, statements *)
(* and retries are invisible, apart from calls that fail without effect.   *)
(***************************************************************************)
EXTENDS LedgerRules

CONSTANTS Session, AccountId, LedgerOf, NameOf, TypeOf, InitialAccounts,
          Key, NoKey, MaxPostingBatchSize

VARIABLES
  created,  \* the chart of accounts
  balance,  \* debits minus credits per account
  txns,     \* the journal
  call,     \* what each session asks for: [batch, key, postings]
  missing,  \* accounts a running call may miss: they did not exist when it was made
  outcome   \* what each session was told, one result per posting

vars == <<created, balance, txns, call, missing, outcome>>

Posting(s, i) == call[s].postings[i]
Indices(s) == DOMAIN call[s].postings

Told(s, status, txn) == [i \in Indices(s) |-> [status |-> status, txn |-> txn]]

Init ==
  /\ created = InitialAccounts
  /\ balance = [a \in AccountId |-> 0]
  /\ txns = <<>>
  /\ missing = [s \in Session |-> {}]
  /\ outcome = [s \in Session |-> Told(s, "open", 0)]

Waiting(s) == outcome[s] = Told(s, "open", 0)

Tell(s, results) ==
  /\ outcome' = [outcome EXCEPT ![s] = results]
  /\ missing' = [missing EXCEPT ![s] = {}]
  /\ UNCHANGED <<created, call>>

-----------------------------------------------------------------------------
\* A posting the ledger must take when the balances are b.
Eligible(entries, b) ==
  /\ ValidateTransaction(entries)
  /\ AccountsOf(entries) \subseteq created
  /\ \A a1, a2 \in AccountsOf(entries) : LedgerOf[a1] = LedgerOf[a2]
  /\ \A a \in AccountsOf(entries) :
       DisplayedBalance(TypeOf[a], b[a] + Change(entries, a)) >= 0

\* An account created after the call was made may be missed by it.
MayBeMissed(s, entries) == AccountsOf(entries) \cap missing[s] # {}

\* The balances once the postings S of session s have been applied.
After(s, S) ==
  [a \in AccountId |-> balance[a] + SumFunction([i \in S |-> Change(Posting(s, i), a)])]

\* S is what a call posts: going through its postings in order, those that
\* are eligible on the balances their predecessors in S leave.
Posts(s, S) ==
  \A i \in Indices(s) :
    LET before == After(s, {j \in S : j < i}) IN
    /\ i \in S => Eligible(Posting(s, i), before)
    /\ i \notin S => ~Eligible(Posting(s, i), before) \/ MayBeMissed(s, Posting(s, i))

Rank(S, i) == Cardinality({j \in S : j <= i})

Row(s, i) ==
  [ledger  |-> CHOOSE l \in {LedgerOf[a] : a \in AccountsOf(Posting(s, i))} : TRUE,
   entries |-> Posting(s, i),
   key     |-> call[s].key]

Rows(s, S) == [n \in 1..Cardinality(S) |-> Row(s, CHOOSE i \in S : Rank(S, i) = n)]

Served(s, S) ==
  [i \in Indices(s) |-> IF i \in S THEN [status |-> "posted", txn |-> Len(txns) + Rank(S, i)]
                        ELSE [status |-> "rejected", txn |-> 0]]

\* The transaction already posted under the call's key.
Bound(s) == {n \in DOMAIN txns : call[s].key # NoKey /\ txns[n].key = call[s].key}

-----------------------------------------------------------------------------
CreateAccount(a) ==
  /\ a \notin created
  /\ NameOf[a] # "" /\ TypeOf[a] \in AccountType
  /\ \A b \in created : LedgerOf[b] = LedgerOf[a] => NameOf[b] # NameOf[a]
  /\ created' = created \cup {a}
  /\ UNCHANGED <<balance, txns, call, missing, outcome>>

\* A call that takes time is made: from now on it may be overtaken by the
\* creation of accounts.
Start(s) ==
  /\ Waiting(s)
  /\ \E M \in SUBSET (AccountId \ created) : missing' = [missing EXCEPT ![s] = M]
  /\ UNCHANGED <<created, balance, txns, call, outcome>>

\* The call posts what it must, all of it at once, under a key not used so
\* far; the client learns what was posted, or its answer is lost.
Serve(s) ==
  /\ Waiting(s)
  /\ Cardinality(Indices(s)) \in 1..MaxPostingBatchSize
  /\ \E S \in SUBSET Indices(s) :
       /\ Posts(s, S)
       /\ Bound(s) = {} \/ \A i \in Indices(s) : ~ValidateTransaction(Posting(s, i))
       /\ txns' = txns \o Rows(s, S)
       /\ balance' = After(s, S)
       /\ Tell(s, Served(s, S)) \/ Tell(s, Told(s, "lost", 0))

\* The call repeats a key: it is told of the earlier transaction, or that the
\* key stands for another request.
Repeat(s) ==
  /\ Waiting(s)
  /\ \E n \in Bound(s) :
       IF Checksum(txns[n].entries) = Checksum(Posting(s, 1))
       THEN Tell(s, Told(s, "existing", n))
       ELSE Tell(s, Told(s, "conflict", 0))
  /\ UNCHANGED <<balance, txns>>

\* The call fails and leaves no trace.
Fail(s) ==
  /\ Waiting(s)
  /\ \E status \in {"error", "exhausted"} : Tell(s, Told(s, status, 0))
  /\ UNCHANGED <<balance, txns>>

Next ==
  \/ \E a \in AccountId : CreateAccount(a)
  \/ \E s \in Session : Start(s) \/ Serve(s) \/ Repeat(s) \/ Fail(s)

Spec == Init /\ [][Next]_vars
=============================================================================
