------------------------------ MODULE Transfer ------------------------------
(***************************************************************************)
(* Cross-ledger transfers on PostgreSQL.  CreateTransfer debits the source *)
(* into its ledger's clearing account and records a pending saga with a    *)
(* destination_credit event; workers of ProcessOutbox pick such events and *)
(* pay the destinations out of the clearing accounts of their ledgers; one *)
(* worker of ProcessCompensationOutbox pays sources back.  Steps are SQL   *)
(* statements under READ COMMITTED: locks last until the transaction ends, *)
(* writes show when it commits.                                            *)
(***************************************************************************)
EXTENDS LedgerRules

CONSTANTS
  Client,           \* CreateTransfer calls, each made once
  Worker,           \* transfer recovery workers
  Free,             \* marks a lock nobody holds
  AccountId,        \* account UUIDs as naturals: their order is the UUID order
  Clearing,         \* the __transfer_clearing__ account of each ledger
  LedgerOf, TypeOf, \* of every account, clearing accounts included
  Opening,          \* balances before any transfer
  InitialAccounts,
  InitialSagas,     \* sagas an earlier release left behind
  Key,              \* idempotency keys, the empty one excluded
  UuidKey,          \* the keys uuid.Parse accepts
  Calls,            \* transfer requests
  BatchLimit,       \* events a worker takes at once
  MaxFaults         \* bound on injected database failures

ClearingIds == {Clearing[l] : l \in DOMAIN Clearing}

ASSUME TransferAssumption ==
  /\ Free \notin Client \cup Worker
  /\ Client \cap Worker = {} /\ IsFiniteSet(Client)
  /\ AccountId \subseteq Nat
  /\ InitialAccounts \subseteq AccountId
  /\ UuidKey \subseteq Key
  /\ BatchLimit \in Nat \ {0}
  /\ MaxFaults \in Nat

\* Every ledger has one clearing account.
ASSUME AccountsAssumption ==
  /\ ClearingIds \subseteq AccountId /\ IsFiniteSet(ClearingIds)
  /\ \A a \in AccountId : LedgerOf[a] \in DOMAIN Clearing
  /\ Opening \in [AccountId -> Int]

\* Requests name ordinary accounts.  The API does not enforce this: a client may
\* create an account named __transfer_clearing__, which ensureClearing would then
\* use, and name it in a transfer.  That no client does is assumed here.
ASSUME RequestAssumption ==
  \A r \in Calls :
    /\ r.key \in Key /\ r.amount \in Int
    /\ {r.source, r.destination} \subseteq AccountId \ ClearingIds
    /\ {r.sourceLedger, r.destinationLedger} \subseteq DOMAIN Clearing

VARIABLES
  \* committed tables
  created,    \* accounts.id
  balance,    \* accounts.balance
  sagas,      \* sagas with their outbox events, in commit order
  legs,       \* posted transactions with their transaction_posted events
  \* locks of open database transactions
  rowLock,    \* accounts
  keyLock,    \* uncommitted saga rows, by idempotency key
  eventLock,  \* destination_credit events, by saga
  \* sessions
  pc, call,
  todo,       \* accounts a worker has yet to lock
  batch,      \* sagas a worker has picked
  answer,     \* what a call returned
  faults      \* failures injected so far

tables == <<created, balance, sagas, legs>>
locks  == <<rowLock, keyLock, eventLock>>
vars   == <<tables, locks, pc, call, todo, batch, answer, faults>>

Session == Client \cup Worker

\* Bound on the sagas that can exist, and with it on the events.
MaxSagas == Len(InitialSagas) + Cardinality(Client)

\* A leg moves its amount between an account and the clearing account of the
\* same ledger: a source leg credits the account, the others debit it.
Moved(leg) == IF leg.kind = "source" THEN -leg.amount ELSE leg.amount

LegEffect(leg, a) ==
    (IF a = leg.account THEN Moved(leg) ELSE 0)
  - (IF a = Clearing[LedgerOf[leg.account]] THEN Moved(leg) ELSE 0)

InitialLegs ==
  [i \in DOMAIN InitialSagas |->
     [kind |-> "source", saga |-> i, account |-> InitialSagas[i].source,
      amount |-> InitialSagas[i].amount]]

LegsBalance(ls, a) == Opening[a] + SumFunction([n \in DOMAIN ls |-> LegEffect(ls[n], a)])

Init ==
  /\ created = InitialAccounts
  /\ balance = [a \in AccountId |-> LegsBalance(InitialLegs, a)]
  /\ sagas = InitialSagas
  /\ legs = InitialLegs
  /\ rowLock = [a \in AccountId |-> Free]
  /\ keyLock = [k \in Key |-> Free]
  /\ eventLock = [i \in 1..MaxSagas |-> Free]
  /\ pc = [s \in Session |-> "idle"]
  /\ call \in [Client -> Calls]
  /\ todo = [w \in Worker |-> {}]
  /\ batch = [w \in Worker |-> {}]
  /\ answer = [c \in Client |-> [status |-> "open", saga |-> 0]]
  /\ faults = 0

-----------------------------------------------------------------------------
(* Ends of a database transaction.                                         *)

ReleaseLocks(s) ==
  /\ rowLock' = [a \in AccountId |-> IF rowLock[a] = s THEN Free ELSE rowLock[a]]
  /\ keyLock' = [k \in Key |-> IF keyLock[k] = s THEN Free ELSE keyLock[k]]
  /\ eventLock' = [i \in 1..MaxSagas |-> IF eventLock[i] = s THEN Free ELSE eventLock[i]]

\* CreateTransfer returns; what it did not commit is rolled back.
Return(c, status, saga) ==
  /\ pc' = [pc EXCEPT ![c] = "done"]
  /\ answer' = [answer EXCEPT ![c] = [status |-> status, saga |-> saga]]
  /\ ReleaseLocks(c)
  /\ UNCHANGED <<call, todo, batch>>

ReturnOnly(c, status, saga) ==
  /\ Return(c, status, saga)
  /\ UNCHANGED tables

\* A pass of a worker ends; startBackgroundWorker will start the next one.
EndPass(w) ==
  /\ pc' = [pc EXCEPT ![w] = "idle"]
  /\ todo' = [todo EXCEPT ![w] = {}]
  /\ batch' = [batch EXCEPT ![w] = {}]
  /\ ReleaseLocks(w)
  /\ UNCHANGED <<call, answer>>

-----------------------------------------------------------------------------
(* CreateTransfer.                                                         *)

SourceClearing(c) == Clearing[call[c].sourceLedger]

GoTo(s, label) ==
  /\ pc' = [pc EXCEPT ![s] = label]
  /\ UNCHANGED <<tables, call, todo, batch, answer, faults>>

Submit(c) ==
  /\ pc[c] = "idle"
  /\ IF call[c].amount > 0 /\ call[c].sourceLedger # call[c].destinationLedger
     THEN GoTo(c, "lookup") /\ UNCHANGED locks
     ELSE ReturnOnly(c, "rejected", 0) /\ UNCHANGED faults

\* sameTransfer: the stored amount is in whole cents.
SameTransfer(saga, request) ==
  /\ saga.source = request.source /\ saga.destination = request.destination
  /\ LedgerOf[saga.source] = request.sourceLedger
  /\ LedgerOf[saga.destination] = request.destinationLedger
  /\ saga.amount = request.amount

\* Mutant: every key is taken for a saga ID.
FoundById(key) == {}

\* scanSaga takes a key that parses as a UUID for the ID of a saga, and finds
\* nothing: saga IDs are fresh random UUIDs.
FoundSagas(key) ==
  IF key \in UuidKey THEN {} ELSE {i \in DOMAIN sagas : sagas[i].key = key}

\* Mutant: a known key answers any request.
LookupAnyRequest(c) ==
  /\ pc[c] = "lookup"
  /\ \/ /\ FoundSagas(call[c].key) = {}
        /\ GoTo(c, "source") /\ UNCHANGED locks
     \/ \E i \in FoundSagas(call[c].key) :
          ReturnOnly(c, "existing", i) /\ UNCHANGED faults

Lookup(c) ==
  /\ pc[c] = "lookup"
  /\ \/ /\ FoundSagas(call[c].key) = {}
        /\ GoTo(c, "source") /\ UNCHANGED locks
     \/ \E i \in FoundSagas(call[c].key) :
          /\ IF SameTransfer(sagas[i], call[c])
             THEN ReturnOnly(c, "existing", i)
             ELSE ReturnOnly(c, "conflict", 0)
          /\ UNCHANGED faults

SourceAccepts(request) ==
  /\ LedgerOf[request.source] = request.sourceLedger
  /\ LedgerOf[request.destination] = request.destinationLedger
  /\ DisplayedBalance(TypeOf[request.source], balance[request.source] - request.amount) >= 0

\* Mutant: the source is read without FOR UPDATE.
ReadSource(c) ==
  /\ pc[c] = "source"
  /\ IF {call[c].source, call[c].destination} \subseteq created /\ SourceAccepts(call[c])
     THEN GoTo(c, "clearing") /\ UNCHANGED locks
     ELSE ReturnOnly(c, "rejected", 0) /\ UNCHANGED faults

\* SELECT ... JOIN ... FOR UPDATE OF source, and the checks on the row.
LockSource(c) ==
  /\ pc[c] = "source"
  /\ IF {call[c].source, call[c].destination} \subseteq created
     THEN /\ rowLock[call[c].source] = Free
          /\ IF SourceAccepts(call[c])
             THEN /\ rowLock' = [rowLock EXCEPT ![call[c].source] = c]
                  /\ GoTo(c, "clearing") /\ UNCHANGED <<keyLock, eventLock>>
             ELSE ReturnOnly(c, "rejected", 0) /\ UNCHANGED faults
     ELSE ReturnOnly(c, "rejected", 0) /\ UNCHANGED faults

\* ensureClearing looks for the account; if there is none it inserts one, and
\* waits for anybody who is inserting it.
FindClearing(c) ==
  /\ pc[c] = "clearing"
  /\ GoTo(c, IF SourceClearing(c) \in created THEN "write" ELSE "insert")
  /\ UNCHANGED locks

InsertClearing(c) ==
  /\ pc[c] = "insert"
  /\ rowLock[SourceClearing(c)] = Free
  /\ rowLock' = [rowLock EXCEPT ![SourceClearing(c)] = c]
  /\ GoTo(c, "write")
  /\ UNCHANGED <<keyLock, eventLock>>

\* Mutant: the insert of a key that is taken is tried again and again.
InsertSagaRetried(c) ==
  /\ pc[c] = "write"
  /\ keyLock[call[c].key] = Free
  /\ IF \E i \in DOMAIN sagas : sagas[i].key = call[c].key
     THEN UNCHANGED vars
     ELSE /\ keyLock' = [keyLock EXCEPT ![call[c].key] = c]
          /\ GoTo(c, "post") /\ UNCHANGED <<rowLock, eventLock>>

\* The statement of writeSourceTransfer inserts the saga first: the unique
\* index on idempotency_key waits for an uncommitted row with the key and
\* refuses a committed one; CHECK (amount > 0) sees the rounded amount.
InsertSaga(c) ==
  /\ pc[c] = "write"
  /\ keyLock[call[c].key] = Free
  /\ IF \/ \E i \in DOMAIN sagas : sagas[i].key = call[c].key
        \/ Round(call[c].amount) = 0
        \/ ~Fits(Round(call[c].amount))
     THEN ReturnOnly(c, "error", 0) /\ UNCHANGED faults
     ELSE /\ keyLock' = [keyLock EXCEPT ![call[c].key] = c]
          /\ GoTo(c, "post") /\ UNCHANGED <<rowLock, eventLock>>

\* ... then updates both balances, waiting for the clearing row ...
UpdateBalances(c) ==
  /\ pc[c] = "post"
  /\ rowLock[SourceClearing(c)] \in {Free, c}
  /\ IF /\ Fits(Round(balance[call[c].source] - call[c].amount))
        /\ Fits(Round(balance[SourceClearing(c)] + call[c].amount))
     THEN /\ rowLock' = [rowLock EXCEPT ![SourceClearing(c)] = c]
          /\ GoTo(c, "commit") /\ UNCHANGED <<keyLock, eventLock>>
     ELSE ReturnOnly(c, "error", 0) /\ UNCHANGED faults

\* ... and last checks the foreign key sagas.destination_account_id, which
\* takes FOR KEY SHARE on the destination and so waits for a FOR UPDATE.
DestinationShared(c) == rowLock[call[c].destination] = Free

\* Mutant: a status that CHECK (status IN ...) does not know.
NewSagaUnknownStatus(c) ==
  [key |-> call[c].key, source |-> call[c].source, destination |-> call[c].destination,
   amount |-> Round(call[c].amount), status |-> "processing", credit |-> "pending",
   refund |-> "none"]

\* Mutant: the insert into outbox_events is forgotten.
NewSagaUnannounced(c) ==
  [key |-> call[c].key, source |-> call[c].source, destination |-> call[c].destination,
   amount |-> Round(call[c].amount), status |-> "pending", credit |-> "none",
   refund |-> "none"]

NewSaga(c) ==
  [key |-> call[c].key, source |-> call[c].source, destination |-> call[c].destination,
   amount |-> Round(call[c].amount), status |-> "pending", credit |-> "pending",
   refund |-> "none"]

SourceCommit(c) ==
  /\ balance' = [balance EXCEPT
       ![call[c].source] = Round(@ - call[c].amount),
       ![SourceClearing(c)] = Round(@ + call[c].amount)]
  /\ sagas' = Append(sagas, NewSaga(c))
  /\ legs' = Append(legs, [kind |-> "source", saga |-> Len(sagas) + 1,
                           account |-> call[c].source, amount |-> Round(call[c].amount)])
  /\ created' = created \cup {SourceClearing(c)}

Commit(c) ==
  /\ pc[c] = "commit"
  /\ DestinationShared(c)
  /\ SourceCommit(c)
  /\ Return(c, "created", Len(sagas) + 1)
  /\ UNCHANGED faults

-----------------------------------------------------------------------------
(* processDestinationCreditBatch.                                          *)

\* Mutant: workers do not lock the events they read.
EligibleUnlocked ==
  {i \in DOMAIN sagas : sagas[i].credit = "pending" /\ sagas[i].status = "pending"}

\* Pending events nobody has locked: FOR UPDATE OF event SKIP LOCKED.
Eligible ==
  {i \in DOMAIN sagas : /\ sagas[i].credit = "pending" /\ sagas[i].status = "pending"
                        /\ eventLock[i] = Free}

\* ORDER BY created_at LIMIT n.
Oldest(n, S) == {i \in S : Cardinality({j \in S : j < i}) < n}

Pick(w) ==
  /\ pc[w] = "idle"
  /\ Eligible # {}
  /\ batch' = [batch EXCEPT ![w] = Oldest(BatchLimit, Eligible)]
  /\ eventLock' = [i \in 1..MaxSagas |->
                     IF i \in Oldest(BatchLimit, Eligible) THEN w ELSE eventLock[i]]
  /\ pc' = [pc EXCEPT ![w] = "clearing"]
  /\ UNCHANGED <<tables, rowLock, keyLock, call, todo, answer, faults>>

DestinationClearing(i) == Clearing[LedgerOf[sagas[i].destination]]
BatchClearings(w) == {DestinationClearing(i) : i \in batch[w]}

\* Clearing accounts still to be inserted; the insert goes by ledger.
Missing(w) == {a \in BatchClearings(w) : a \notin created /\ rowLock[a] # w}
IsNextMissing(w, a) == a \in Missing(w) /\ \A b \in Missing(w) : LedgerOf[a] <= LedgerOf[b]

\* INSERT ... ON CONFLICT DO NOTHING waits for anybody inserting the account.
InsertMissing(w) ==
  /\ pc[w] = "clearing"
  /\ \E a \in AccountId :
       /\ IsNextMissing(w, a)
       /\ rowLock[a] = Free
       /\ rowLock' = [rowLock EXCEPT ![a] = w]
  /\ UNCHANGED <<tables, keyLock, eventLock, pc, call, todo, batch, answer, faults>>

BeginLocking(w) ==
  /\ pc[w] = "clearing"
  /\ Missing(w) = {}
  /\ todo' = [todo EXCEPT ![w] = BatchClearings(w) \cup {sagas[i].destination : i \in batch[w]}]
  /\ pc' = [pc EXCEPT ![w] = "lock"]
  /\ UNCHANGED <<tables, locks, call, batch, answer, faults>>

IsNextRow(w, a) == a \in todo[w] /\ \A b \in todo[w] : a <= b

\* SELECT ... ORDER BY id FOR UPDATE.
LockRow(w) ==
  /\ pc[w] = "lock"
  /\ \E a \in AccountId :
       /\ IsNextRow(w, a)
       /\ rowLock[a] \in {Free, w}
       /\ rowLock' = [rowLock EXCEPT ![a] = w]
       /\ todo' = [todo EXCEPT ![w] = @ \ {a}]
  /\ UNCHANGED <<tables, keyLock, eventLock, pc, call, batch, answer, faults>>

\* writeDestinationCreditBatch: each destination is debited, its clearing
\* account credited; shared accounts take one combined update.
CreditDelta(w, a) ==
    SumFunction([i \in batch[w] |-> IF sagas[i].destination = a THEN sagas[i].amount ELSE 0])
  - SumFunction([i \in batch[w] |-> IF DestinationClearing(i) = a THEN sagas[i].amount ELSE 0])

CreditFits(w) == \A a \in AccountId : rowLock[a] = w => Fits(balance[a] + CreditDelta(w, a))

\* The batch in the order in which it was read.
BatchLegs(w) ==
  [n \in 1..Cardinality(batch[w]) |->
     LET i == CHOOSE j \in batch[w] : Cardinality({k \in batch[w] : k < j}) = n - 1
     IN  [kind |-> "destination", saga |-> i, account |-> sagas[i].destination,
          amount |-> sagas[i].amount]]

Credit(w) ==
  /\ pc[w] = "lock"
  /\ todo[w] = {}
  /\ CreditFits(w)
  /\ balance' = [a \in AccountId |-> balance[a] + CreditDelta(w, a)]
  /\ legs' = legs \o BatchLegs(w)
  /\ sagas' = [i \in DOMAIN sagas |->
                 IF i \in batch[w]
                 THEN [sagas[i] EXCEPT !.status = "completed", !.credit = "processed"]
                 ELSE sagas[i]]
  /\ created' = created \cup BatchClearings(w)
  /\ EndPass(w)
  /\ UNCHANGED faults

\* A balance overflows NUMERIC(20,2): the whole batch is rolled back and its
\* events stay pending, to be picked again.
CreditFails(w) ==
  /\ pc[w] = "lock"
  /\ todo[w] = {}
  /\ ~CreditFits(w)
  /\ EndPass(w)
  /\ UNCHANGED <<tables, faults>>

-----------------------------------------------------------------------------
(* ProcessCompensationOutbox, one worker.  An error aborts its transaction *)
(* before any bookkeeping, so a pass commits the refund or changes nothing *)
(* and the rows it locks it locks and releases in one step.                *)

\* Mutant: the refund is not taken from the clearing account.
RefundFromNowhere(i) == [balance EXCEPT ![sagas[i].source] = @ + sagas[i].amount]

RefundBalance(i) ==
  [balance EXCEPT ![sagas[i].source] = @ + sagas[i].amount,
                  ![Clearing[LedgerOf[sagas[i].source]]] = @ - sagas[i].amount]

Compensate ==
  /\ \E i \in DOMAIN sagas :
       /\ sagas[i].refund = "pending"
       /\ \A j \in 1..(i - 1) : sagas[j].refund # "pending"
       /\ rowLock[sagas[i].source] = Free
       /\ rowLock[Clearing[LedgerOf[sagas[i].source]]] = Free
       /\ \A a \in AccountId : Fits(RefundBalance(i)[a])
       /\ balance' = RefundBalance(i)
       /\ legs' = Append(legs, [kind |-> "refund", saga |-> i, account |-> sagas[i].source,
                                amount |-> sagas[i].amount])
       /\ sagas' = [sagas EXCEPT ![i].status = "compensated", ![i].refund = "processed"]
  /\ UNCHANGED <<created, locks, pc, call, todo, batch, answer, faults>>

-----------------------------------------------------------------------------
(* Waiting, deadlocks and failures.                                        *)

\* Session s waits for a lock that session t holds.
WaitsFor(s, t) ==
  /\ s # t
  /\ \/ pc[s] = "source" /\ rowLock[call[s].source] = t
     \/ pc[s] = "insert" /\ rowLock[SourceClearing(s)] = t
     \/ pc[s] = "write" /\ keyLock[call[s].key] = t
     \/ pc[s] = "post" /\ rowLock[SourceClearing(s)] = t
     \/ pc[s] = "commit" /\ rowLock[call[s].destination] = t
     \/ /\ s \in Worker /\ pc[s] = "clearing"
        /\ \E a \in AccountId : IsNextMissing(s, a) /\ rowLock[a] = t
     \/ pc[s] = "lock" /\ \E a \in AccountId : IsNextRow(s, a) /\ rowLock[a] = t

\* Session s is on a cycle of waiting sessions.
Deadlocked(s) ==
  \E S \in SUBSET Session :
    /\ s \in S
    /\ \A t \in S : (\E u \in S : WaitsFor(t, u)) /\ (\E u \in S : WaitsFor(u, t))

Abort(s) ==
  IF s \in Client THEN ReturnOnly(s, "error", 0) ELSE EndPass(s) /\ UNCHANGED tables

\* PostgreSQL breaks a deadlock by aborting one session on the cycle (40P01);
\* CreateTransfer does not retry.
DeadlockVictim(s) == Deadlocked(s) /\ Abort(s) /\ UNCHANGED faults

Fault == faults < MaxFaults /\ faults' = faults + 1

\* A statement fails, a connection drops or the process crashes: PostgreSQL
\* rolls the transaction back.
DatabaseError(s) == pc[s] \notin {"idle", "done"} /\ Fault /\ Abort(s)

\* The commit takes effect and its acknowledgement is lost.
CommitUnacknowledged(c) ==
  /\ pc[c] = "commit"
  /\ DestinationShared(c)
  /\ Fault
  /\ SourceCommit(c)
  /\ Return(c, "lost", 0)

-----------------------------------------------------------------------------
ClientStep(c) ==
  \/ Lookup(c) \/ LockSource(c) \/ FindClearing(c) \/ InsertClearing(c)
  \/ InsertSaga(c) \/ UpdateBalances(c) \/ Commit(c)

WorkerStep(w) ==
  Pick(w) \/ InsertMissing(w) \/ BeginLocking(w) \/ LockRow(w) \/ Credit(w) \/ CreditFails(w)

\* All calls have returned and the workers find nothing they could finish.
Finished ==
  /\ \A c \in Client : pc[c] = "done"
  /\ \A w \in Worker : pc[w] = "idle"
  /\ \A i \in DOMAIN sagas : sagas[i].status # "pending"
  /\ UNCHANGED vars

Next ==
  \/ \E c \in Client : Submit(c) \/ ClientStep(c) \/ CommitUnacknowledged(c)
  \/ \E w \in Worker : WorkerStep(w)
  \/ Compensate
  \/ \E s \in Session : DeadlockVictim(s) \/ DatabaseError(s)
  \/ Finished

\* The server keeps executing a started call, startBackgroundWorker runs its
\* workers for ever, lock queues are first come first served, and PostgreSQL
\* finds every deadlock.
Fairness ==
  /\ \A c \in Client : SF_vars(ClientStep(c))
  /\ \A w \in Worker : SF_vars(WorkerStep(w))
  /\ SF_vars(Compensate)
  /\ WF_vars(\E s \in Session : DeadlockVictim(s))

Spec == Init /\ [][Next]_vars
FairSpec == Spec /\ Fairness

-----------------------------------------------------------------------------
(* Properties.                                                             *)

PC == {"idle", "lookup", "source", "clearing", "insert", "write", "post", "commit", "lock", "done"}
Saga == [key : Key, source : AccountId, destination : AccountId, amount : Int,
         status : {"pending", "completed", "failed", "compensated"},
         credit : {"pending", "processed"}, refund : {"none", "pending", "processed"}]

\* An earlier release left its sagas unfinished: pending, or given up on.
\* Idempotency keys are unique among them.
ASSUME InitialAssumption ==
  /\ InitialSagas \in Seq(Saga)
  /\ \A i, j \in DOMAIN InitialSagas : InitialSagas[i].key = InitialSagas[j].key => i = j
  /\ \A i \in DOMAIN InitialSagas :
       /\ {InitialSagas[i].source, InitialSagas[i].destination} \cap ClearingIds = {}
       /\ InitialSagas[i].status \in {"pending", "failed"}
       /\ InitialSagas[i].refund = "pending" => InitialSagas[i].status = "failed"

Leg == [kind : {"source", "destination", "refund"}, saga : 1..MaxSagas,
        account : AccountId, amount : Int]
Result == [status : {"open", "created", "existing", "conflict", "rejected", "error", "lost"},
           saga : 0..MaxSagas]

\* The type of every variable.
TypeOK ==
  /\ created \subseteq AccountId
  /\ balance \in [AccountId -> Int]
  /\ sagas \in Seq(Saga)
  /\ legs \in Seq(Leg)
  /\ rowLock \in [AccountId -> Session \cup {Free}]
  /\ keyLock \in [Key -> Client \cup {Free}]
  /\ eventLock \in [1..MaxSagas -> Worker \cup {Free}]
  /\ pc \in [Session -> PC]
  /\ call \in [Client -> Calls]
  /\ todo \in [Worker -> SUBSET AccountId]
  /\ batch \in [Worker -> SUBSET (1..MaxSagas)]
  /\ answer \in [Client -> Result]
  /\ faults \in 0..MaxFaults

LegsOf(i, kind) == {n \in DOMAIN legs : legs[n].saga = i /\ legs[n].kind = kind}

\* A saga's postings are what its status says: one source debit, one
\* destination credit if and only if it completed, one refund if and only if
\* it was compensated.  However workers race, fail and repeat, nothing is
\* paid twice and nothing is paid both ways.
SagasPaidOnce ==
  /\ \A n \in DOMAIN legs : legs[n].amount = sagas[legs[n].saga].amount
  /\ \A i \in DOMAIN sagas :
       /\ Cardinality(LegsOf(i, "source")) = 1
       /\ Cardinality(LegsOf(i, "destination")) = IF sagas[i].status = "completed" THEN 1 ELSE 0
       /\ Cardinality(LegsOf(i, "refund")) = IF sagas[i].status = "compensated" THEN 1 ELSE 0

\* Stored balances are what the posted legs add up to: concurrent updates of
\* shared clearing accounts lose nothing.
BalancesMatchLegs == \A a \in AccountId : balance[a] = LegsBalance(legs, a)

\* What CreateTransfer answers is what happened: "created" and "existing" name
\* a saga for this very request, no saga is claimed by two calls, and a call
\* that reports a failure has debited nothing (a lost acknowledgement apart).
AnswersTruthful ==
  /\ \A c \in Client : answer[c].status \in {"created", "existing"} =>
       /\ answer[c].saga \in DOMAIN sagas
       /\ sagas[answer[c].saga].key = call[c].key
       /\ SameTransfer(sagas[answer[c].saga], call[c])
  /\ \A c, d \in Client :
       c # d /\ answer[c].status = "created" /\ answer[d].status = "created"
         => answer[c].saga # answer[d].saga
  /\ Len(sagas) - Len(InitialSagas)
       = Cardinality({c \in Client : answer[c].status \in {"created", "lost"}})

\* A repeated request whose saga is already there when it is looked up is
\* answered with that saga.
DuplicateFindsSaga ==
  [][\A c \in Client :
       /\ pc[c] = "lookup" /\ pc'[c] # "lookup" /\ faults' = faults
       /\ \E i \in DOMAIN sagas : sagas[i].key = call[c].key /\ SameTransfer(sagas[i], call[c])
       => answer'[c].status = "existing"]_vars

\* Every transfer comes to an end: its destination is credited or its source
\* is refunded.
TransfersSettle ==
  \A i \in 1..MaxSagas :
    i \in DOMAIN sagas ~> i \in DOMAIN sagas /\ sagas[i].status \in {"completed", "compensated"}

\* A worker's write, or the next refund, overflows no balance.
HasRoom ==
  /\ \A w \in Worker : pc[w] = "lock" /\ todo[w] = {} => CreditFits(w)
  /\ \A i \in DOMAIN sagas : sagas[i].refund = "pending" =>
       \A a \in AccountId : Fits(RefundBalance(i)[a])

\* Every transfer comes to an end in spite of deadlocks, lost batches and
\* workers that race, provided the balances it passes through have room.
TransfersSettleWithRoom == []HasRoom => TransfersSettle

\* Every CreateTransfer call returns, deadlocks included.
CallsReturn == \A c \in Client : pc[c] # "idle" ~> pc[c] = "done"
=============================================================================
