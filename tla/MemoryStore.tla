---------------------------- MODULE MemoryStore ----------------------------
(***************************************************************************)
(* MemoryStore behind the HTTP handlers: accounts, postings and transfers  *)
(* in memory, and the outbox passes that settle the transfers.             *)
(*                                                                         *)
(* One mutex guards the store and every call holds it from its first look  *)
(* to its last change, ProcessOutbox for one event at a time.  So a        *)
(* request is one step here, and what interleaves are requests, their      *)
(* repetitions by clients that missed the answer, events and passes.       *)
(***************************************************************************)
EXTENDS LedgerRules, Functions

CONSTANTS
  AccountId,         \* IDs that uuid.New may return
  Ledger,
  Clearing,          \* [Ledger -> AccountId]: the ID its clearing account gets
  LedgerOf, TypeOf,  \* of the account that gets an ID
  Key, NoKey,        \* idempotency keys; NoKey is the empty string
  Postings,          \* POST /transactions: [header, body, entries]
  Transfers,         \* POST /transfers: [header, body, source, sourceLedger,
                     \*                   destination, destinationLedger, amount]
  Pass,              \* concurrent calls of ProcessOutbox
  Limit,             \* events per pass
  MaxAttempts,       \* 5
  MaxTransactions    \* bound of the model: requests stop here

ClearingIds == {Clearing[l] : l \in Ledger}
ClientIds == AccountId \ ClearingIds

ASSUME MemoryAssumption ==
  /\ LedgerOf \in [AccountId -> Ledger]
  /\ TypeOf \in [AccountId -> AccountType]
  /\ Clearing \in [Ledger -> AccountId]
  /\ \A l \in Ledger : LedgerOf[Clearing[l]] = l /\ TypeOf[Clearing[l]] = "asset"
  /\ NoKey \notin Key
  /\ \A r \in Postings \cup Transfers : {r.header, r.body} \subseteq Key \cup {NoKey}
  /\ Limit \in Nat \ {0} /\ MaxAttempts \in Nat \ {0} /\ MaxTransactions \in Nat

Entry == [account : AccountId, debit : Int, credit : Int]

\* Requests are well formed, not necessarily valid; there are finitely many
\* UUIDs.
ASSUME RequestAssumption ==
  /\ IsFiniteSet(AccountId)
  /\ \A r \in Postings : r.entries \in Seq(Entry)
  /\ \A r \in Transfers : r.amount \in Int

VARIABLES
  accounts,         \* stored balance of every account that exists
  transactions,     \* the journal: the entries of every transaction
  idempotencyKeys,  \* of postings: key -> [transaction, checksum]
  sagas,
  transferKeys,     \* of transfers: key -> saga
  outbox,
  left,             \* events a pass may still process; 0 between passes
  answers           \* the answers given so far, arrived or not; see Respond

book == <<accounts, transactions>>
vars == <<book, idempotencyKeys, sagas, transferKeys, outbox, left, answers>>

Empty == [x \in {} |-> x]

Init ==
  /\ accounts = Empty
  /\ transactions = <<>>
  /\ idempotencyKeys = Empty
  /\ sagas = <<>>
  /\ transferKeys = Empty
  /\ outbox = <<>>
  /\ left = [p \in Pass |-> 0]
  /\ answers = {}

\* f with x bound to v.
Bind(f, x, v) == [y \in DOMAIN f \cup {x} |-> IF y = x THEN v ELSE f[y]]

-----------------------------------------------------------------------------
(* Accounts, postings and queries.                                         *)

\* Names need not be unique, and a name or a type that ValidateAccount
\* refuses changes nothing.
CreateAccountInLedger(a) ==
  /\ a \in ClientIds \ DOMAIN accounts
  /\ accounts' = Bind(accounts, a, 0)
  /\ UNCHANGED <<transactions, idempotencyKeys, sagas, transferKeys, outbox, left, answers>>

\* createTransaction's conditions: there is no check of funds.
Postable(entries) ==
  /\ ValidateTransaction(entries)
  /\ AccountsOf(entries) \subseteq DOMAIN accounts
  /\ Cardinality({LedgerOf[a] : a \in AccountsOf(entries)}) = 1

\* Mutant: every entry starts from the balance before the posting.
UpdatedLast(accts, entries) ==
  [a \in DOMAIN accts |->
     LET mine == {i \in DOMAIN entries : entries[i].account = a} IN
     IF mine = {} THEN accts[a]
     ELSE accts[a] + entries[Max(mine)].debit - entries[Max(mine)].credit]

\* updateAccountBalance, entry by entry.
Updated(accts, entries) ==
  [a \in DOMAIN accts |-> accts[a] + Change(entries, a)]

AppendTransaction(accts, entries) ==
  /\ accounts' = Updated(accts, entries)
  /\ transactions' = Append(transactions, entries)

GetBalance(a) == DisplayedBalance(TypeOf[a], accounts[a])

\* RunningBalance of GetAccountEntries, without a time window.
RunningBalance(a) ==
  SumFunction([t \in DOMAIN transactions |-> Change(transactions[t], a)])

-----------------------------------------------------------------------------
(* POST /transactions.                                                     *)

\* The header wins over the body.
PostingKey(r) == IF r.header # NoKey THEN r.header ELSE r.body

\* Mutant: whoever presents the key gets the transaction.
AnyRequest(k, entries) == TRUE

SameRequest(k, entries) == idempotencyKeys[k].checksum = Checksum(entries)

\* The key is looked up before the request is validated.
TransactionOutcome(k, entries) ==
  IF k \in DOMAIN idempotencyKeys
  THEN IF SameRequest(k, entries) THEN "existing" ELSE "conflict"
  ELSE IF Postable(entries) THEN "created" ELSE "refused"

CreateTransaction(k, entries) ==
  \/ /\ TransactionOutcome(k, entries) \in {"existing", "conflict"}
     /\ UNCHANGED <<book, idempotencyKeys>>
  \/ /\ TransactionOutcome(k, entries) = "created"
     /\ Len(transactions) < MaxTransactions
     /\ AppendTransaction(accounts, entries)
     /\ idempotencyKeys' =
          IF k = NoKey THEN idempotencyKeys
          ELSE Bind(idempotencyKeys, k, [transaction |-> Len(transactions) + 1,
                                         checksum |-> Checksum(entries)])

\* How the handlers tell an outcome; success is 201 or 202.  "exhausted" is an
\* outcome of PostgresStore only.
StatusOf(outcome, success) ==
  CASE outcome = "created" -> success
    [] outcome = "existing" -> 200
    [] outcome = "conflict" -> 409
    [] outcome = "exhausted" -> 503
    [] OTHER -> 400

\* A request that is refused (400) changes nothing, promises nothing and is no
\* step of its own; the other answers are kept.
Respond(route, key, request, status, ref) ==
  /\ status # 400
  /\ answers' = answers \cup
       {[route |-> route, key |-> key, request |-> request, status |-> status,
         ref |-> IF status = 409 THEN 0 ELSE ref]}

CreateTransactionHandler(r) ==
  LET k == PostingKey(r) IN
  /\ Respond("transactions", k, Checksum(r.entries),
             StatusOf(TransactionOutcome(k, r.entries), 201),
             IF k \in DOMAIN idempotencyKeys THEN idempotencyKeys[k].transaction
             ELSE Len(transactions) + 1)
  /\ CreateTransaction(k, r.entries)
  /\ UNCHANGED <<sagas, transferKeys, outbox, left>>

-----------------------------------------------------------------------------
(* POST /transfers.                                                        *)

\* The body wins over the header.
TransferKey(r) == IF r.body # NoKey THEN r.body ELSE r.header

TransferOf(r) ==
  [source |-> r.source, sourceLedger |-> r.sourceLedger, destination |-> r.destination,
   destinationLedger |-> r.destinationLedger, amount |-> r.amount]

ValidateTransfer(k, t) == k # NoKey /\ t.amount > 0

\* Mutant: the source is not asked for funds.
AffordableAlways(t) == TRUE

Affordable(t) == DisplayedBalance(TypeOf[t.source], accounts[t.source] - t.amount) >= 0

Transferable(t) ==
  /\ t.source \in DOMAIN accounts /\ LedgerOf[t.source] = t.sourceLedger
  /\ t.destination \in DOMAIN accounts /\ LedgerOf[t.destination] = t.destinationLedger
  /\ t.sourceLedger # t.destinationLedger
  /\ Affordable(t)

\* sameTransfer, after the key was found.
TransferOutcome(k, t) ==
  IF ~ValidateTransfer(k, t) THEN "refused"
  ELSE IF k \in DOMAIN transferKeys
  THEN IF sagas[transferKeys[k]].transfer = t THEN "existing" ELSE "conflict"
  ELSE IF Transferable(t) THEN "created" ELSE "refused"

\* clearingAccountLocked: the accounts with the clearing account of ledger l,
\* opened if need be.
WithClearing(l) ==
  IF Clearing[l] \in DOMAIN accounts THEN accounts ELSE Bind(accounts, Clearing[l], 0)

Debit(a, x) == [account |-> a, debit |-> x, credit |-> 0]
Credit(a, x) == [account |-> a, debit |-> 0, credit |-> x]

NewEvent(i, step) ==
  [saga |-> i, step |-> step, attempts |-> 0, due |-> TRUE, processed |-> FALSE]

CreateTransfer(k, t) ==
  \/ /\ TransferOutcome(k, t) \in {"existing", "conflict"}
     /\ UNCHANGED <<book, sagas, transferKeys, outbox>>
  \/ /\ TransferOutcome(k, t) = "created"
     /\ Len(transactions) < MaxTransactions
     /\ AppendTransaction(WithClearing(t.sourceLedger),
          <<Credit(t.source, t.amount), Debit(Clearing[t.sourceLedger], t.amount)>>)
     /\ sagas' = Append(sagas, [key |-> k, transfer |-> t, status |-> "pending",
                                arrival |-> 0, refund |-> 0])
     /\ transferKeys' = Bind(transferKeys, k, Len(sagas) + 1)
     /\ outbox' = Append(outbox, NewEvent(Len(sagas) + 1, "destination_credit"))

CreateTransferHandler(r) ==
  LET k == TransferKey(r) IN
  /\ Respond("transfers", k, TransferOf(r), StatusOf(TransferOutcome(k, TransferOf(r)), 202),
             IF k \in DOMAIN transferKeys THEN transferKeys[k] ELSE Len(sagas) + 1)
  /\ CreateTransfer(k, TransferOf(r))
  /\ UNCHANGED <<idempotencyKeys, left>>

-----------------------------------------------------------------------------
(* ProcessOutbox.                                                          *)

\* The event a pass takes: the first one that is neither processed nor
\* waiting for its next attempt.
Due == {e \in DOMAIN outbox : ~outbox[e].processed /\ outbox[e].due}
NextEvent == Min(Due)

StartPass(p) ==
  /\ left[p] = 0
  /\ Due # {}
  /\ left' = [left EXCEPT ![p] = Limit]
  /\ UNCHANGED <<book, idempotencyKeys, sagas, transferKeys, outbox, answers>>

EndPass(p) ==
  /\ left[p] > 0
  /\ Due = {}
  /\ left' = [left EXCEPT ![p] = 0]
  /\ UNCHANGED <<book, idempotencyKeys, sagas, transferKeys, outbox, answers>>

\* An event counts, however it turns out.
TakeEvent(p) ==
  /\ left[p] > 0
  /\ Due # {}
  /\ left' = [left EXCEPT ![p] = @ - 1]

Processed(e) == [outbox EXCEPT ![e].processed = TRUE]

\* The destination leg.  A leg posted before is not posted again.
CreditDestination(p) ==
  LET e == NextEvent
      i == outbox[e].saga
      t == sagas[i].transfer
  IN
  /\ TakeEvent(p)
  /\ outbox[e].step = "destination_credit"
  /\ sagas[i].arrival = 0
  /\ AppendTransaction(WithClearing(t.destinationLedger),
       <<Debit(t.destination, t.amount), Credit(Clearing[t.destinationLedger], t.amount)>>)
  /\ sagas' = [sagas EXCEPT ![i].arrival = Len(transactions) + 1, ![i].status = "completed"]
  /\ outbox' = Processed(e)
  /\ UNCHANGED <<idempotencyKeys, transferKeys, answers>>

\* The compensation, which nothing makes fail.
CompensateSource(p) ==
  LET e == NextEvent
      i == outbox[e].saga
      t == sagas[i].transfer
  IN
  /\ TakeEvent(p)
  /\ outbox[e].step = "compensate_source"
  /\ sagas[i].refund = 0
  /\ AppendTransaction(WithClearing(t.sourceLedger),
       <<Debit(t.source, t.amount), Credit(Clearing[t.sourceLedger], t.amount)>>)
  /\ sagas' = [sagas EXCEPT ![i].refund = Len(transactions) + 1, ![i].status = "compensated"]
  /\ outbox' = Processed(e)
  /\ UNCHANGED <<idempotencyKeys, transferKeys, answers>>

\* Mutant: one attempt too many.
MayRetryOnce(attempts) == attempts <= MaxAttempts

\* attempts counts the failure just met.
MayRetry(attempts) == attempts < MaxAttempts

\* DestinationFailure returns a transient error: the event waits, ...
RetryLater(p) ==
  LET e == NextEvent IN
  /\ TakeEvent(p)
  /\ outbox[e].step = "destination_credit"
  /\ sagas[outbox[e].saga].arrival = 0
  /\ MayRetry(outbox[e].attempts + 1)
  /\ outbox' = [outbox EXCEPT ![e].attempts = @ + 1, ![e].due = FALSE]
  /\ UNCHANGED <<book, idempotencyKeys, sagas, transferKeys, answers>>

\* Mutant: the failed event stays unprocessed.
GivenUpAgain(e) ==
  Append([outbox EXCEPT ![e].attempts = @ + 1], NewEvent(outbox[e].saga, "compensate_source"))

\* Mutant: nobody is told to pay back.
GivenUpSilently(e) ==
  [outbox EXCEPT ![e].attempts = @ + 1, ![e].processed = TRUE]

GivenUp(e) ==
  Append([outbox EXCEPT ![e].attempts = @ + 1, ![e].processed = TRUE],
         NewEvent(outbox[e].saga, "compensate_source"))

\* ... or it returns a permanent one, or the attempts are used up.
GiveUp(p) ==
  LET e == NextEvent IN
  /\ TakeEvent(p)
  /\ outbox[e].step = "destination_credit"
  /\ sagas[outbox[e].saga].arrival = 0
  /\ sagas' = [sagas EXCEPT ![outbox[e].saga].status = "failed"]
  /\ outbox' = GivenUp(e)
  /\ UNCHANGED <<book, idempotencyKeys, transferKeys, answers>>

\* nextAttempt has come.
BackoffEnds(e) ==
  /\ ~outbox[e].due
  /\ outbox' = [outbox EXCEPT ![e].due = TRUE]
  /\ UNCHANGED <<book, idempotencyKeys, sagas, transferKeys, left, answers>>

-----------------------------------------------------------------------------
PassStep(p) ==
  \/ StartPass(p) \/ EndPass(p) \/ CreditDestination(p) \/ CompensateSource(p)
  \/ RetryLater(p) \/ GiveUp(p)

Next ==
  \/ \E a \in ClientIds : CreateAccountInLedger(a)
  \/ \E r \in Postings : CreateTransactionHandler(r)
  \/ \E r \in Transfers : CreateTransferHandler(r)
  \/ \E p \in Pass : PassStep(p)
  \/ \E e \in DOMAIN outbox : BackoffEnds(e)

\* "Applications run it in a worker loop", and time passes.  Nothing obliges
\* the destination to accept anything.
Fairness ==
  /\ \A p \in Pass : WF_vars(PassStep(p))
  /\ WF_vars(\E e \in DOMAIN outbox : BackoffEnds(e))

Spec == Init /\ [][Next]_vars
FairSpec == Spec /\ Fairness

-----------------------------------------------------------------------------
(* Properties.                                                             *)

Status == {"pending", "completed", "failed", "compensated"}

\* The type of every variable; an event is attempted MaxAttempts times at most.
TypeOK ==
  /\ DOMAIN accounts \subseteq AccountId
  /\ \A a \in DOMAIN accounts : accounts[a] \in Int
  /\ \A t \in DOMAIN transactions : ValidateTransaction(transactions[t])
  /\ DOMAIN idempotencyKeys \subseteq Key
  /\ \A i \in DOMAIN sagas :
       /\ sagas[i].key \in Key /\ sagas[i].status \in Status
       /\ {sagas[i].arrival, sagas[i].refund} \subseteq 0..Len(transactions)
  /\ DOMAIN transferKeys \subseteq Key
  /\ \A k \in DOMAIN transferKeys : transferKeys[k] \in DOMAIN sagas
  /\ \A e \in DOMAIN outbox :
       /\ outbox[e].saga \in DOMAIN sagas
       /\ outbox[e].step \in {"destination_credit", "compensate_source"}
       /\ outbox[e].attempts \in 0..MaxAttempts
  /\ left \in [Pass -> 0..Limit]

\* GET /balance, GET /accounts/{id}/transactions and the journal tell the same
\* story, for an account that a transaction names twice too; and every ledger,
\* its clearing account included, adds up to nothing.
StatementsAgree ==
  /\ \A a \in DOMAIN accounts : GetBalance(a) = DisplayedBalance(TypeOf[a], RunningBalance(a))
  /\ \A l \in Ledger :
       SumFunctionOnSet(accounts, {a \in DOMAIN accounts : LedgerOf[a] = l}) = 0

\* What is still to be done for a saga is in the outbox, once: the credit of a
\* pending one, the refund of a failed one, nothing for a settled one.  Two
\* passes, retries and repeated requests notwithstanding.
EventsMatchSagas ==
  \A i \in DOMAIN sagas :
    LET open(step) == {e \in DOMAIN outbox :
                         outbox[e].saga = i /\ outbox[e].step = step /\ ~outbox[e].processed}
    IN
    /\ Cardinality(open("destination_credit")) = IF sagas[i].status = "pending" THEN 1 ELSE 0
    /\ Cardinality(open("compensate_source")) = IF sagas[i].status = "failed" THEN 1 ELSE 0

\* The answers under one key agree, however often and with whatever bodies it
\* was sent: one of them created the resource; "already there" names the same
\* resource to a request that asks for the same; "conflict" is only said to
\* one that asks for something else.
AnswersAgree ==
  \A x, y \in answers :
    x.route = y.route /\ x.key = y.key /\ x.key # NoKey =>
      /\ x.status \in {201, 202} /\ y.status \in {201, 202} => x = y
      /\ x.status \in {201, 202} /\ y.status = 200 =>
           y.ref = x.ref /\ y.request = x.request
      /\ x.status \in {201, 202} /\ y.status = 409 => y.request # x.request
      /\ x.status \in {200, 409} =>
           \E z \in answers : z.route = x.route /\ z.key = x.key /\ z.status \in {201, 202}

\* Every transfer ends, whatever the destination answers.
TransfersSettle ==
  \A i \in 1..Cardinality(Key) :
    i \in DOMAIN sagas ~> (i \in DOMAIN sagas /\ sagas[i].status \in {"completed", "compensated"})

Sagas == INSTANCE SagaSpec WITH
  Account <- ClientIds,
  Amount  <- {r.amount : r \in Transfers},
  funds   <- [a \in ClientIds |-> IF a \in DOMAIN accounts THEN accounts[a] ELSE 0],
  transit <- SumFunctionOnSet(accounts, ClearingIds \cap DOMAIN accounts),
  sagas   <- [i \in DOMAIN sagas |->
                [key |-> sagas[i].key, source |-> sagas[i].transfer.source,
                 destination |-> sagas[i].transfer.destination,
                 amount |-> sagas[i].transfer.amount, status |-> sagas[i].status]]

\* The store in memory is the same saga as PostgreSQL's: money in the clearing
\* accounts is money of unsettled transfers, and arrives or returns once.
TransfersAreSagas == Sagas!Spec
=============================================================================
