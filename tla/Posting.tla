------------------------------ MODULE Posting ------------------------------
(***************************************************************************)
(* Posting to the PostgreSQL ledger: concurrent calls of                   *)
(* PostgresStore.CreateTransaction and CreateTransactionsBatch, at the     *)
(* granularity of the SQL statements they send under READ COMMITTED.       *)
(*                                                                         *)
(* A session is one call.  It holds row locks (FOR UPDATE on accounts, the *)
(* claimed idempotency_keys row) until its database transaction ends, and  *)
(* its writes become visible when it commits.  A client that retries is a  *)
(* second session with the same call.                                      *)
(***************************************************************************)
EXTENDS LedgerRules

CONSTANTS
  Session,          \* calls in flight, each made once
  Free,             \* marks a lock nobody holds
  AccountId,        \* account UUIDs as naturals: their order is the UUID order
  Malformed,        \* account IDs uuid.Parse rejects
  LedgerOf,         \* the row an account gets when it is created: its ledger,
  NameOf,           \*   its name
  TypeOf,           \*   and its type
  DefaultLedger,    \* uuid.Nil, the ledger of accounts created without one
  InitialAccounts,  \* accounts that exist when the model starts
  Key, NoKey,       \* idempotency keys; the empty key
  Calls,            \* what a client may ask: [batch, key, postings]
  MaxPostingBatchSize,
  MaxSerializationRetries,
  MaxFaults         \* bound on injected database failures

ASSUME SessionAssumption == Free \notin Session
ASSUME AccountAssumption ==
  /\ AccountId \subseteq Nat /\ IsFiniteSet(AccountId)
  /\ InitialAccounts \subseteq AccountId
  /\ Malformed \cap AccountId = {}
ASSUME KeyAssumption == NoKey \notin Key
ASSUME BoundAssumption ==
  /\ MaxPostingBatchSize \in Nat \ {0}
  /\ MaxSerializationRetries \in Nat
  /\ MaxFaults \in Nat

\* An entry of a request: its account ID need not parse.
Entry == [account : AccountId \cup Malformed, debit : Int, credit : Int]

ASSUME CallsAssumption ==
  \A c \in Calls :
    /\ c.batch \in BOOLEAN
    /\ c.key \in Key \cup {NoKey}
    /\ c.batch => c.key = NoKey
    /\ c.postings \in Seq(Seq(Entry))
    /\ ~c.batch => Len(c.postings) = 1

VARIABLES
  \* committed tables
  created,    \* accounts.id
  balance,    \* accounts.balance
  txns,       \* transactions with their entries, in commit order
  keys,       \* idempotency_keys
  outbox,     \* transactions that have a transaction_posted event
  \* locks of open database transactions
  rowLock, keyLock,
  \* sessions
  pc, call,
  missing,    \* history: accounts the call names that did not exist when it was made
  retry,
  todo,       \* existing accounts the locking query has yet to lock
  running,    \* balances as locked, with the accepted postings applied
  delta,      \* what the accepted postings change, per account
  cursor,     \* next posting of a batch to decide
  accepted,   \* accepted postings, by index
  answer,     \* one result per posting
  posted,     \* history: transactions this call committed
  faults      \* failures injected so far

tables  == <<created, balance, txns, keys, outbox>>
locks   == <<rowLock, keyLock>>
locals  == <<call, missing, retry, todo, running, delta, cursor, accepted>>
vars    == <<tables, locks, pc, locals, answer, posted, faults>>

AbsentKey == [status |-> "absent", sum |-> <<>>, txn |-> 0]
Zero == [a \in AccountId |-> 0]

Init ==
  /\ created = InitialAccounts
  /\ balance = Zero
  /\ txns = <<>>
  /\ keys = [k \in Key |-> AbsentKey]
  /\ outbox = {}
  /\ rowLock = [a \in AccountId |-> Free]
  /\ keyLock = [k \in Key |-> Free]
  /\ pc = [s \in Session |-> "idle"]
  /\ call \in [Session -> Calls]
  /\ missing = [s \in Session |-> {}]
  /\ retry = [s \in Session |-> 0]
  /\ todo = [s \in Session |-> {}]
  /\ running = [s \in Session |-> Zero]
  /\ delta = [s \in Session |-> Zero]
  /\ cursor = [s \in Session |-> 1]
  /\ accepted = [s \in Session |-> <<>>]
  /\ answer = [s \in Session |-> [i \in DOMAIN call[s].postings |-> [status |-> "open", txn |-> 0]]]
  /\ posted = [s \in Session |-> {}]
  /\ faults = 0

-----------------------------------------------------------------------------
(* What a session asked for, and what it holds.                            *)

Posting(s, i) == call[s].postings[i]
Indices(s) == DOMAIN call[s].postings

\* preparePostgresEntries succeeds.
Parses(entries) == AccountsOf(entries) \subseteq AccountId

\* A member of a batch that survives the first loop.
Prepared(entries) == ValidateTransaction(entries) /\ Parses(entries)

\* The accounts the locking query names.
Named(s) ==
  UNION {AccountsOf(Posting(s, i)) : i \in {j \in Indices(s) : Prepared(Posting(s, j))}}

Held(s) == {a \in AccountId : rowLock[a] = s}

AllAnswers(s, status, txn) ==
  [i \in Indices(s) |-> [status |-> status, txn |-> txn]]

-----------------------------------------------------------------------------
(* Ends of a database transaction.                                         *)

ReleaseLocks(s) ==
  /\ rowLock' = [a \in AccountId |-> IF rowLock[a] = s THEN Free ELSE rowLock[a]]
  /\ keyLock' = [k \in Key |-> IF keyLock[k] = s THEN Free ELSE keyLock[k]]

ForgetAttempt(s) ==
  /\ todo' = [todo EXCEPT ![s] = {}]
  /\ running' = [running EXCEPT ![s] = Zero]
  /\ delta' = [delta EXCEPT ![s] = Zero]
  /\ cursor' = [cursor EXCEPT ![s] = 1]
  /\ accepted' = [accepted EXCEPT ![s] = <<>>]

\* The call returns; whatever its transaction did not commit is rolled back.
Return(s, results) ==
  /\ pc' = [pc EXCEPT ![s] = "done"]
  /\ answer' = [answer EXCEPT ![s] = results]
  /\ ReleaseLocks(s)
  /\ ForgetAttempt(s)
  /\ missing' = [missing EXCEPT ![s] = {}]
  /\ UNCHANGED <<call, retry>>

ReturnOnly(s, results) ==
  /\ Return(s, results)
  /\ UNCHANGED <<tables, posted>>

-----------------------------------------------------------------------------
(* Accounts.                                                               *)

ValidateAccount(a) == NameOf[a] # "" /\ TypeOf[a] \in AccountType

\* CreateAccount and CreateAccountInLedger: one INSERT under the unique
\* index on (ledger_id, name).
CreateAccount(a) ==
  /\ a \notin created
  /\ ValidateAccount(a)
  /\ \A b \in created : LedgerOf[b] = LedgerOf[a] => NameOf[b] # NameOf[a]
  /\ created' = created \cup {a}
  /\ UNCHANGED <<balance, txns, keys, outbox, locks, pc, locals, answer, posted, faults>>

-----------------------------------------------------------------------------
(* CreateTransaction.                                                      *)

\* Where an attempt starts.
AttemptStart(s) == IF call[s].key = NoKey THEN "begin" ELSE "claim"

Submit(s) ==
  /\ pc[s] = "idle"
  /\ ~call[s].batch
  /\ UNCHANGED faults
  /\ IF ValidateTransaction(Posting(s, 1))
     THEN /\ pc' = [pc EXCEPT ![s] = IF call[s].key = NoKey THEN "begin" ELSE "read"]
          /\ missing' = [missing EXCEPT ![s] = Named(s) \ created]
          /\ UNCHANGED <<tables, locks, call, retry, todo, running, delta, cursor, accepted, answer, posted>>
     ELSE ReturnOnly(s, AllAnswers(s, "rejected", 0))

\* completedIdempotentTransaction: reads committed rows and takes no lock.
FastRead(s) ==
  LET row == keys[call[s].key] IN
  /\ pc[s] = "read"
  /\ UNCHANGED faults
  /\ CASE row.status # "absent" /\ row.sum # Checksum(Posting(s, 1)) ->
            ReturnOnly(s, AllAnswers(s, "conflict", 0))
       [] row.status = "completed" /\ row.sum = Checksum(Posting(s, 1)) ->
            ReturnOnly(s, AllAnswers(s, "existing", row.txn))
       [] OTHER ->
            /\ pc' = [pc EXCEPT ![s] = "claim"]
            /\ UNCHANGED <<tables, locks, locals, answer, posted>>

\* Mutant: whoever gets the key row posts, without looking at what it says.
ClaimUnread(s) ==
  /\ pc[s] = "claim"
  /\ keyLock[call[s].key] = Free
  /\ keyLock' = [keyLock EXCEPT ![call[s].key] = s]
  /\ pc' = [pc EXCEPT ![s] = "begin"]
  /\ UNCHANGED <<tables, rowLock, locals, answer, posted, faults>>

\* Mutant: a session that finds the key taken polls until it is gone.
ClaimPolling(s) ==
  /\ pc[s] = "claim"
  /\ keyLock[call[s].key] = Free
  /\ IF keys[call[s].key].status = "absent"
     THEN /\ keyLock' = [keyLock EXCEPT ![call[s].key] = s]
          /\ pc' = [pc EXCEPT ![s] = "begin"]
          /\ UNCHANGED <<tables, rowLock, locals, answer, posted, faults>>
     ELSE UNCHANGED vars

\* ClaimIdempotencyKey: INSERT ... ON CONFLICT DO UPDATE waits for whoever
\* holds the key row, then sees the committed row or inserts its own.
Claim(s) ==
  LET k == call[s].key
      row == keys[k]
  IN
  /\ pc[s] = "claim"
  /\ keyLock[k] = Free
  /\ UNCHANGED faults
  /\ CASE row.status # "absent" /\ row.sum # Checksum(Posting(s, 1)) ->
            ReturnOnly(s, AllAnswers(s, "conflict", 0))
       [] row.txn # 0 /\ row.sum = Checksum(Posting(s, 1)) ->
            ReturnOnly(s, AllAnswers(s, "existing", row.txn))
       [] OTHER ->
            /\ keyLock' = [keyLock EXCEPT ![k] = s]
            /\ pc' = [pc EXCEPT ![s] = "begin"]
            /\ UNCHANGED <<tables, rowLock, locals, answer, posted>>

\* lockPostingAccounts sends its query: the statement's snapshot fixes which
\* accounts it will find.
BeginLocking(s) ==
  /\ pc[s] = "begin"
  /\ ~call[s].batch
  /\ UNCHANGED faults
  /\ IF Parses(Posting(s, 1))
     THEN /\ todo' = [todo EXCEPT ![s] = Named(s) \cap created]
          /\ pc' = [pc EXCEPT ![s] = "lock"]
          /\ UNCHANGED <<tables, locks, call, missing, retry, running, delta, cursor, accepted, answer, posted>>
     ELSE ReturnOnly(s, AllAnswers(s, "rejected", 0))

\* Mutant: FOR UPDATE without ORDER BY id.
IsAnyRow(s, a) == a \in todo[s]

\* ORDER BY id FOR UPDATE: the rows are locked one after the other, lowest id
\* first, each read as it is when its lock is granted.
IsNextRow(s, a) == a \in todo[s] /\ \A b \in todo[s] : a <= b

LockRow(s) ==
  /\ pc[s] = "lock"
  /\ \E a \in AccountId :
       /\ IsNextRow(s, a)
       /\ rowLock[a] = Free
       /\ rowLock' = [rowLock EXCEPT ![a] = s]
       /\ running' = [running EXCEPT ![s][a] = balance[a]]
       /\ todo' = [todo EXCEPT ![s] = @ \ {a}]
  /\ UNCHANGED <<tables, keyLock, pc, call, missing, retry, delta, cursor, accepted, answer, posted, faults>>

\* The query has returned all its rows.
RowsLocked(s) ==
  /\ pc[s] = "lock"
  /\ todo[s] = {}
  /\ pc' = [pc EXCEPT ![s] = "check"]
  /\ UNCHANGED <<tables, locks, locals, answer, posted, faults>>

\* Mutant: the check looks at the balance before the posting.
FundedBefore(s, entries) ==
  \A a \in AccountsOf(entries) : DisplayedBalance(TypeOf[a], running[s][a]) >= 0

\* Every locked account can take the posting's net effect.
Funded(s, entries) ==
  \A a \in AccountsOf(entries) :
    DisplayedBalance(TypeOf[a], running[s][a] + Change(entries, a)) >= 0

OneLedger(entries) ==
  \A a, b \in AccountsOf(entries) : LedgerOf[a] = LedgerOf[b]

Plus(amounts, entries) ==
  [a \in AccountId |->
     IF a \in AccountsOf(entries) THEN amounts[a] + Change(entries, a) ELSE amounts[a]]

Accept(s, i) ==
  /\ running' = [running EXCEPT ![s] = Plus(@, Posting(s, i))]
  /\ delta' = [delta EXCEPT ![s] = Plus(@, Posting(s, i))]
  /\ accepted' = [accepted EXCEPT ![s] = Append(@, i)]

\* The checks of lockPostingAccounts on the rows it locked.
CheckRows(s) ==
  /\ pc[s] = "check"
  /\ ~call[s].batch
  /\ UNCHANGED faults
  /\ IF /\ AccountsOf(Posting(s, 1)) \subseteq Held(s)
        /\ Funded(s, Posting(s, 1))
        /\ OneLedger(Posting(s, 1))
     THEN /\ Accept(s, 1)
          /\ pc' = [pc EXCEPT ![s] = "commit"]
          /\ UNCHANGED <<tables, locks, call, missing, retry, todo, cursor, answer, posted>>
     ELSE ReturnOnly(s, AllAnswers(s, "rejected", 0))

-----------------------------------------------------------------------------
(* CreateTransactionsBatch.  It has no key and no retry loop.              *)

SubmitBatch(s) ==
  /\ pc[s] = "idle"
  /\ call[s].batch
  /\ UNCHANGED faults
  /\ CASE Len(call[s].postings) \notin 1..MaxPostingBatchSize ->
            ReturnOnly(s, AllAnswers(s, "error", 0))
       [] /\ Len(call[s].postings) \in 1..MaxPostingBatchSize
          /\ \A i \in Indices(s) : ~Prepared(Posting(s, i)) ->
            ReturnOnly(s, AllAnswers(s, "rejected", 0))
       [] OTHER ->
            /\ pc' = [pc EXCEPT ![s] = "begin"]
            /\ answer' = [answer EXCEPT ![s] =
                 [i \in Indices(s) |->
                    [status |-> IF Prepared(Posting(s, i)) THEN "open" ELSE "rejected",
                     txn |-> 0]]]
            /\ missing' = [missing EXCEPT ![s] = Named(s) \ created]
            /\ UNCHANGED <<tables, locks, call, retry, todo, running, delta, cursor, accepted, posted>>

\* One locking query for the accounts of every prepared member.
BeginLockingBatch(s) ==
  /\ pc[s] = "begin"
  /\ call[s].batch
  /\ todo' = [todo EXCEPT ![s] = Named(s) \cap created]
  /\ pc' = [pc EXCEPT ![s] = "lock"]
  /\ UNCHANGED <<tables, locks, call, missing, retry, running, delta, cursor, accepted, answer, posted, faults>>

\* The batch's ledger check keeps the ledger seen so far in a variable whose
\* zero value, uuid.Nil, also means "none seen yet".
BatchOneLedger(entries) ==
  \A i, j \in DOMAIN entries :
    i < j /\ LedgerOf[entries[i].account] # DefaultLedger
      => LedgerOf[entries[j].account] = LedgerOf[entries[i].account]

Acceptable(s, entries) ==
  /\ AccountsOf(entries) \subseteq Held(s)
  /\ BatchOneLedger(entries)
  /\ Funded(s, entries)

\* The acceptance loop, one member at a time: each sees the balances its
\* accepted predecessors leave.
DecideNext(s) ==
  /\ pc[s] = "check"
  /\ call[s].batch
  /\ cursor[s] \in Indices(s)
  /\ cursor' = [cursor EXCEPT ![s] = @ + 1]
  /\ IF answer[s][cursor[s]].status = "open" /\ Acceptable(s, Posting(s, cursor[s]))
     THEN /\ Accept(s, cursor[s])
          /\ answer' = [answer EXCEPT ![s][cursor[s]] =
               [status |-> "accepted", txn |-> Len(accepted[s]) + 1]]
     ELSE /\ answer' = [answer EXCEPT ![s][cursor[s]] = [status |-> "rejected", txn |-> 0]]
          /\ UNCHANGED <<running, delta, accepted>>
  /\ UNCHANGED <<tables, locks, pc, call, missing, retry, todo, posted, faults>>

BatchDecided(s) ==
  /\ pc[s] = "check"
  /\ call[s].batch
  /\ cursor[s] \notin Indices(s)
  /\ pc' = [pc EXCEPT ![s] = "commit"]
  /\ UNCHANGED <<tables, locks, locals, answer, posted, faults>>

-----------------------------------------------------------------------------
(* The write and its commit.  writePosting and writePostingBatch send one  *)
(* statement: transactions, entries, balances, the completed key, outbox.  *)

\* The transaction's ledger: an accepted posting names at most one ledger
\* besides the default one.
PostingLedger(entries) ==
  LET others == {LedgerOf[a] : a \in AccountsOf(entries)} \ {DefaultLedger}
  IN  IF others = {} THEN DefaultLedger ELSE CHOOSE l \in others : TRUE

Touched(s) == UNION {AccountsOf(Posting(s, accepted[s][j])) : j \in DOMAIN accepted[s]}

NewRow(s, i) ==
  [ledger  |-> PostingLedger(Posting(s, i)),
   entries |-> Stored(Posting(s, i)),
   key     |-> call[s].key]

NewRows(s) == [j \in DOMAIN accepted[s] |-> NewRow(s, accepted[s][j])]

\* No column of the statement overflows NUMERIC(20,2).
WriteFits(s) ==
  /\ \A j \in DOMAIN accepted[s] : EntriesFit(Posting(s, accepted[s][j]))
  /\ \A a \in Touched(s) : Fits(Round(balance[a] + delta[s][a]))

\* Mutant: SET balance = debit - credit.
NewBalanceOverwritten(s) ==
  [a \in AccountId |-> IF a \in Touched(s) THEN Round(delta[s][a]) ELSE balance[a]]

\* SET balance = balance + debit - credit: the statement adds to the row it
\* finds, not to the balance the session read.
NewBalance(s) ==
  [a \in AccountId |->
     IF a \in Touched(s) THEN Round(balance[a] + delta[s][a]) ELSE balance[a]]

NewIds(s) == (Len(txns) + 1)..(Len(txns) + Len(accepted[s]))

CompletedKey(s) ==
  [status |-> "completed", sum |-> Checksum(Posting(s, 1)), txn |-> Len(txns) + 1]

\* Mutant: the statement lacks its outbox insert.
CommitWritesUnannounced(s) ==
  /\ balance' = NewBalance(s)
  /\ txns' = txns \o NewRows(s)
  /\ keys' = [k \in Key |-> IF k = call[s].key THEN CompletedKey(s) ELSE keys[k]]
  /\ posted' = [posted EXCEPT ![s] = @ \cup NewIds(s)]
  /\ UNCHANGED <<created, outbox>>

CommitWrites(s) ==
  /\ balance' = NewBalance(s)
  /\ txns' = txns \o NewRows(s)
  /\ keys' = [k \in Key |-> IF k = call[s].key THEN CompletedKey(s) ELSE keys[k]]
  /\ outbox' = outbox \cup NewIds(s)
  /\ posted' = [posted EXCEPT ![s] = @ \cup NewIds(s)]
  /\ UNCHANGED created

\* Mutant: results matched to transactions by position in the request.
CommittedAnswersByPosition(s) ==
  [i \in Indices(s) |->
     IF ~call[s].batch \/ answer[s][i].status = "accepted"
     THEN [status |-> "posted", txn |-> Len(txns) + i]
     ELSE answer[s][i]]

CommittedAnswers(s) ==
  IF call[s].batch
  THEN [i \in Indices(s) |->
          IF answer[s][i].status = "accepted"
          THEN [status |-> "posted", txn |-> Len(txns) + answer[s][i].txn]
          ELSE answer[s][i]]
  ELSE AllAnswers(s, "posted", Len(txns) + 1)

Commit(s) ==
  /\ pc[s] = "commit"
  /\ WriteFits(s)
  /\ CommitWrites(s)
  /\ Return(s, CommittedAnswers(s))
  /\ UNCHANGED faults

WriteFails(s) ==
  /\ pc[s] = "commit"
  /\ ~WriteFits(s)
  /\ ReturnOnly(s, AllAnswers(s, "error", 0))
  /\ UNCHANGED faults

-----------------------------------------------------------------------------
(* Failures of the database or the connection.                             *)

InTransaction(s) == pc[s] \in {"claim", "begin", "lock", "commit"}

Fault == faults < MaxFaults /\ faults' = faults + 1

\* Mutant: one retry too many.
SerializationFailureOffByOne(s) ==
  /\ InTransaction(s)
  /\ Fault
  /\ IF ~call[s].batch /\ retry[s] <= MaxSerializationRetries
     THEN /\ retry' = [retry EXCEPT ![s] = @ + 1]
          /\ pc' = [pc EXCEPT ![s] = AttemptStart(s)]
          /\ ReleaseLocks(s)
          /\ ForgetAttempt(s)
          /\ UNCHANGED <<tables, call, missing, answer, posted>>
     ELSE ReturnOnly(s, AllAnswers(s, IF call[s].batch THEN "error" ELSE "exhausted", 0))

\* SQLSTATE 40001: CreateTransaction starts over until its retries are used.
SerializationFailure(s) ==
  /\ InTransaction(s)
  /\ Fault
  /\ IF ~call[s].batch /\ retry[s] < MaxSerializationRetries
     THEN /\ retry' = [retry EXCEPT ![s] = @ + 1]
          /\ pc' = [pc EXCEPT ![s] = AttemptStart(s)]
          /\ ReleaseLocks(s)
          /\ ForgetAttempt(s)
          /\ UNCHANGED <<tables, call, missing, answer, posted>>
     ELSE ReturnOnly(s, AllAnswers(s, IF call[s].batch THEN "error" ELSE "exhausted", 0))

\* Any other error, a dropped connection or a crash of the server process:
\* PostgreSQL rolls the transaction back.
DatabaseError(s) ==
  /\ InTransaction(s) \/ pc[s] = "read"
  /\ Fault
  /\ ReturnOnly(s, AllAnswers(s, "error", 0))

\* The commit takes effect and its acknowledgement is lost.
CommitUnacknowledged(s) ==
  /\ pc[s] = "commit"
  /\ WriteFits(s)
  /\ Fault
  /\ CommitWrites(s)
  /\ Return(s, AllAnswers(s, "lost", 0))

-----------------------------------------------------------------------------
LocalStep(s) ==
  \/ FastRead(s) \/ BeginLocking(s) \/ BeginLockingBatch(s) \/ RowsLocked(s)
  \/ CheckRows(s) \/ DecideNext(s) \/ BatchDecided(s) \/ Commit(s) \/ WriteFails(s)

\* Every call has returned.
Finished == (\A s \in Session : pc[s] = "done") /\ UNCHANGED vars

Next ==
  \/ \E a \in AccountId : CreateAccount(a)
  \/ \E s \in Session :
       \/ Submit(s) \/ SubmitBatch(s)
       \/ Claim(s) \/ LockRow(s)
       \/ LocalStep(s)
       \/ SerializationFailure(s) \/ DatabaseError(s) \/ CommitUnacknowledged(s)
  \/ Finished

\* The server keeps executing a started call, and PostgreSQL's lock queues
\* are first come first served: a lock requested and released again and again
\* is granted in the end.
Fairness ==
  \A s \in Session :
    /\ WF_vars(LocalStep(s))
    /\ SF_vars(Claim(s))
    /\ SF_vars(LockRow(s))

Spec == Init /\ [][Next]_vars
FairSpec == Spec /\ Fairness

-----------------------------------------------------------------------------
(* Properties.                                                             *)

PC == {"idle", "read", "claim", "begin", "lock", "check", "commit", "done"}
Status == {"open", "accepted", "posted", "existing", "rejected", "conflict",
           "exhausted", "error", "lost"}

Ledger == {LedgerOf[a] : a \in AccountId} \cup {DefaultLedger}

TxnRow == [ledger : Ledger,
           entries : UNION {{Stored(c.postings[i]) : i \in DOMAIN c.postings} : c \in Calls},
           key : Key \cup {NoKey}]

KeyRow == {AbsentKey} \cup [status : {"completed"},
                            sum : {Checksum(c.postings[1]) : c \in Calls},
                            txn : Nat \ {0}]

Result == [status : Status, txn : Nat]

AnswersOK ==
  /\ answer = [s \in Session |-> answer[s]]
  /\ \A s \in Session : answer[s] \in [Indices(s) -> Result]

\* The type of every variable.
TypeOK ==
  /\ created \subseteq AccountId
  /\ balance \in [AccountId -> Int]
  /\ txns \in Seq(TxnRow)
  /\ keys \in [Key -> KeyRow]
  /\ outbox \subseteq Nat
  /\ rowLock \in [AccountId -> Session \cup {Free}]
  /\ keyLock \in [Key -> Session \cup {Free}]
  /\ pc \in [Session -> PC]
  /\ call \in [Session -> Calls]
  /\ missing \in [Session -> SUBSET AccountId]
  /\ retry \in [Session -> 0..MaxSerializationRetries]
  /\ todo \in [Session -> SUBSET AccountId]
  /\ running \in [Session -> [AccountId -> Int]]
  /\ delta \in [Session -> [AccountId -> Int]]
  /\ cursor \in [Session -> Nat]
  /\ accepted \in [Session -> Seq(Nat)]
  /\ AnswersOK
  /\ posted \in [Session -> SUBSET Nat]
  /\ faults \in 0..MaxFaults

\* No account's displayed balance is ever negative: the overdraft check of
\* lockPostingAccounts and of the batch loop stays valid until the write,
\* whatever other sessions do in between.
NoOverdraft ==
  \A a \in AccountId : DisplayedBalance(TypeOf[a], balance[a]) >= 0

\* Value never crosses a ledger boundary: every transaction stays in its own
\* ledger, and the balances of each ledger add up to zero.
LedgersBalance ==
  /\ \A l \in Ledger :
       SumFunctionOnSet(balance, {a \in AccountId : LedgerOf[a] = l}) = 0
  /\ \A i \in DOMAIN txns : \A a \in AccountsOf(txns[i].entries) :
       LedgerOf[a] = txns[i].ledger

\* Every stored transaction balances (the invariant written on the type
\* Transaction): its debits add up to its credits.
StoredTransactionsBalance ==
  \A i \in DOMAIN txns : Total(DebitOf, txns[i].entries) = Total(CreditOf, txns[i].entries)

\* An idempotency key and the transaction posted under it name each other:
\* no key is spent without its posting, no key posts twice, and the stored
\* checksum is that of the stored entries.
KeysNameTransactions ==
  /\ \A k \in Key :
       keys[k].status # "absent" =>
         /\ keys[k].status = "completed"
         /\ keys[k].txn \in DOMAIN txns
         /\ txns[keys[k].txn].key = k
         /\ keys[k].sum = Checksum(txns[keys[k].txn].entries)
  /\ \A i \in DOMAIN txns :
       txns[i].key # NoKey => keys[txns[i].key].txn = i

\* The answers of call s agree with the tables.
Truthful(s) ==
  /\ \A i \in Indices(s) :
       LET r == answer[s][i] IN
       r.status \in {"posted", "existing"} =>
         /\ r.txn \in DOMAIN txns
         /\ Checksum(txns[r.txn].entries) = Checksum(Posting(s, i))
         /\ r.status = "existing" => r.txn \notin posted[s]
  /\ \/ \E i \in Indices(s) : answer[s][i].status = "lost"
     \/ posted[s] = {answer[s][i].txn : i \in {j \in Indices(s) : answer[s][j].status = "posted"}}

\* What a call is told is what happened: "posted" names a transaction this
\* call committed, "existing" one with the request's checksum that it did not
\* commit, and any refusal means it committed nothing.  Only a lost
\* acknowledgement leaves the client in doubt.
AnswersTruthful == \A s \in Session : pc[s] = "done" => Truthful(s)

\* Every committed transaction has its transaction_posted event in the outbox
\* of the same commit, and no event lacks its transaction.
PostingsAnnounced == outbox = DOMAIN txns

\* Session s waits for a lock that session t holds.
WaitsFor(s, t) ==
  \/ pc[s] = "claim" /\ keyLock[call[s].key] = t
  \/ pc[s] = "lock" /\ \E a \in AccountId : IsNextRow(s, a) /\ rowLock[a] = t

\* Waiting always goes up the lock order: a session waited for never waits
\* for a key, and if it waits for a row, that row comes later than any row
\* its waiter wants.  No cycle of waiting sessions can form, whatever mix of
\* keyed, unkeyed and batched postings runs.
WaitingFollowsLockOrder ==
  \A s, t \in Session : WaitsFor(s, t) =>
    /\ pc[t] # "claim"
    /\ \A a, b \in AccountId :
         pc[s] = "lock" /\ pc[t] = "lock" /\ IsNextRow(s, a) /\ IsNextRow(t, b) => a < b

\* Committed history is immutable: transactions are only appended, and a key
\* once bound to a transaction keeps it.
HistoryKept ==
  [][/\ Len(txns') >= Len(txns) /\ SubSeq(txns', 1, Len(txns)) = txns
     /\ \A k \in Key : keys[k].txn # 0 => keys'[k] = keys[k]]_vars

\* Every call that starts returns: locks are always released and granted, and
\* retries are bounded.
CallsReturn == \A s \in Session : pc[s] # "idle" ~> pc[s] = "done"

-----------------------------------------------------------------------------
(* The inductive strengthening of the invariants.                          *)

Working == {"begin", "lock", "check", "commit"}

\* Locks are held exactly by the calls whose database transaction is open,
\* and rows in ascending order.
LocksFollowProgram ==
  \A s \in Session :
    /\ todo[s] # {} => pc[s] = "lock"
    /\ Held(s) # {} => pc[s] \in {"lock", "check", "commit"}
    /\ \A a \in Held(s), b \in todo[s] : a < b
    /\ \A k \in Key : keyLock[k] = s => pc[s] \in Working /\ call[s].key = k
    /\ pc[s] \in Working /\ call[s].key # NoKey => keyLock[call[s].key] = s
    /\ pc[s] \in {"read", "claim"} => call[s].key # NoKey

\* The balance a session read under a row lock, plus what it accepted since,
\* is what its write will store: no other session moved the row.
ReadsStayCurrent ==
  \A s \in Session : \A a \in Held(s) :
    /\ running[s][a] = balance[a] + delta[s][a]
    /\ DisplayedBalance(TypeOf[a], running[s][a]) >= 0

\* A session writes only rows it has locked, and accepts postings only after
\* locking.
WritesAreLocked ==
  \A s \in Session :
    /\ Touched(s) \subseteq Held(s)
    /\ \A j \in DOMAIN accepted[s] : accepted[s][j] \in Indices(s)
    /\ pc[s] \notin {"check", "commit"} => accepted[s] = <<>> /\ delta[s] = Zero
    /\ ~call[s].batch => accepted[s] = IF pc[s] = "commit" THEN <<1>> ELSE <<>>

\* A claimed key has no committed row.
ClaimedKeysAreNew == \A k \in Key : keyLock[k] # Free => keys[k] = AbsentKey

\* Until call s returns it has posted nothing, and a batch knows each accepted
\* member by its place among the accepted ones.
DecisionsNoted(s) ==
  /\ posted[s] = {}
  /\ call[s].batch =>
       /\ \A i \in Indices(s) :
            /\ answer[s][i].status \in {"open", "rejected", "accepted"}
            /\ answer[s][i].status = "accepted" =>
                 i < cursor[s] /\ \E j \in DOMAIN accepted[s] : accepted[s][j] = i
       /\ \A j \in DOMAIN accepted[s] :
            answer[s][accepted[s][j]] = [status |-> "accepted", txn |-> j]

AnswersFollowDecisions == \A s \in Session : pc[s] # "done" => DecisionsNoted(s)

\* The accepted postings of call s, and what a set S of its postings adds to
\* an account.
Accepted(s) == {accepted[s][j] : j \in DOMAIN accepted[s]}
Added(s, S, a) == SumFunction([i \in S |-> Change(Posting(s, i), a)])

\* Posting i is funded by the committed balances and its accepted predecessors.
FundedInOrder(s, i) ==
  \A a \in AccountsOf(Posting(s, i)) :
    DisplayedBalance(TypeOf[a],
      balance[a] + Added(s, {j \in Accepted(s) : j < i}, a) + Change(Posting(s, i), a)) >= 0

\* The ledger check the call makes on a posting.
LedgerChecked(s, entries) ==
  IF call[s].batch THEN BatchOneLedger(entries) ELSE OneLedger(entries)

\* The decision on posting i would be the same now.
StillRight(s, i) ==
  LET p == Posting(s, i) IN
  IF i \in Accepted(s)
  THEN Prepared(p) /\ AccountsOf(p) \subseteq Held(s) /\ LedgerChecked(s, p)
       /\ FundedInOrder(s, i)
  ELSE \/ ~Prepared(p)
       \/ AccountsOf(p) \cap missing[s] # {}
       \/ ~OneLedger(p)
       \/ AccountsOf(p) \subseteq Held(s) /\ ~FundedInOrder(s, i)

\* What call s has checked of its request.
RequestChecked(s) ==
  IF call[s].batch
  THEN /\ Len(call[s].postings) \in 1..MaxPostingBatchSize
       /\ \A i \in Indices(s) :
            IF i < cursor[s]
            THEN i \notin Accepted(s) => answer[s][i] = [status |-> "rejected", txn |-> 0]
            ELSE answer[s][i].status = "open" <=> Prepared(Posting(s, i))
  ELSE /\ ValidateTransaction(Posting(s, 1))
       /\ pc[s] \in {"lock", "check", "commit"} => Parses(Posting(s, 1))

\* Whatever call s must not miss exists, and goes on existing.
MissesOnlyNew(s) == Named(s) \ missing[s] \subseteq created

\* The locking query finds existing accounts only, and all that existed when
\* the call was made.
RowsFound(s) ==
  /\ Held(s) \cup todo[s] \subseteq created
  /\ Named(s) \ missing[s] \subseteq Held(s) \cup todo[s]

\* The decisions of call s, in the order of its postings.
DecisionsRight(s) ==
  /\ delta[s] = [a \in AccountId |-> Added(s, Accepted(s), a)]
  /\ \A j, k \in DOMAIN accepted[s] : j < k => accepted[s][j] < accepted[s][k]
  /\ pc[s] = "commit" /\ call[s].batch => cursor[s] > Len(call[s].postings)
  /\ \A i \in Indices(s) :
       IF i < cursor[s] \/ pc[s] = "commit" THEN StillRight(s, i) ELSE i \notin Accepted(s)

\* Where call s stands: what it has found and decided would be found and
\* decided again if it started over now.
CallStands(s) ==
  /\ cursor[s] >= 1
  /\ pc[s] \notin {"check", "commit"} => cursor[s] = 1
  /\ pc[s] \notin {"idle", "done"} => RequestChecked(s) /\ MissesOnlyNew(s)
  /\ pc[s] \in {"lock", "check", "commit"} => RowsFound(s)
  /\ pc[s] \in {"check", "commit"} => DecisionsRight(s)

CallsStand == \A s \in Session : CallStands(s)
=============================================================================
