------------------------- MODULE MemoryStoreProofs -------------------------
(***************************************************************************)
(* Machine-checked proofs about MemoryStore, for every set of accounts,    *)
(* ledgers, keys, requests and passes and for any number of attempts.      *)
(***************************************************************************)
EXTENDS MemoryStore, LedgerRulesProofs, SequenceTheorems

-----------------------------------------------------------------------------
(* The journal and the balances.                                           *)

Running(T, a) == SumFunction([t \in DOMAIN T |-> Change(T[t], a)])
OfLedger(A, l) == {a \in DOMAIN A : LedgerOf[a] = l}

\* The balances A are those of the journal T, whose transactions are valid and
\* name accounts that exist; every ledger adds up to nothing.
Book(A, T) ==
  /\ DOMAIN A \subseteq AccountId /\ \A a \in DOMAIN A : A[a] \in Int
  /\ T \in Seq(Seq(Entry))
  /\ \A t \in DOMAIN T : ValidateTransaction(T[t]) /\ AccountsOf(T[t]) \subseteq DOMAIN A
  /\ \A a \in DOMAIN A : A[a] = Running(T, a)
  /\ \A l \in Ledger : SumFunctionOnSet(A, OfLedger(A, l)) = 0

\* What a posting adds to an account.
LEMMA ChangeFacts ==
  ASSUME NEW entries \in Seq(Entry), NEW a
  PROVE  /\ IsFiniteSet(DOMAIN entries)
         /\ \A i \in DOMAIN entries : entries[i] \in Entry
         /\ Change(entries, a) = SumFunctionOnSet(
              [i \in DOMAIN entries |-> IF entries[i].account = a
                                        THEN entries[i].debit - entries[i].credit ELSE 0], DOMAIN entries)
         /\ Change(entries, a) \in Int
         /\ a \notin AccountsOf(entries) => Change(entries, a) = 0
<1> DEFINE D == DOMAIN entries
           f == [i \in DOMAIN entries |-> IF entries[i].account = a
                                          THEN entries[i].debit - entries[i].credit ELSE 0]
<1>1. D = 1..Len(entries) /\ Len(entries) \in Nat /\ \A i \in D : entries[i] \in Entry
  BY LenProperties, ElementOfSeq
<1>2. IsFiniteSet(D)
  <2>1. IsFiniteSet(1..Len(entries))
    BY <1>1, FS_Interval
  <2> QED
    BY <1>1, <2>1
<1>3. Change(entries, a) = SumFunctionOnSet(f, D)
  BY DEF Change, Total, SumFunction
<1>4. \A i \in D : f[i] \in Int
  BY <1>1 DEF Entry
<1>5. a \notin AccountsOf(entries) => \A i \in D : f[i] = 0
  BY DEF AccountsOf
<1>6. SumFunctionOnSet(f, D) \in Int /\ (a \notin AccountsOf(entries) => SumFunctionOnSet(f, D) = 0)
  <2> HIDE DEF f, D
  <2> QED
    BY <1>2, <1>4, <1>5, SumType, SumZero
<1> QED
  BY <1>1, <1>2, <1>3, <1>6

\* A valid posting within one ledger leaves its sum alone.
LEMMA ChangesCancel ==
  ASSUME NEW entries \in Seq(Entry), ValidateTransaction(entries),
         NEW S, IsFiniteSet(S), AccountsOf(entries) \subseteq S
  PROVE  SumFunctionOnSet([a \in S |-> Change(entries, a)], S) = 0
<1>1. /\ IsFiniteSet(DOMAIN entries)
      /\ \A i \in DOMAIN entries : entries[i].debit \in Int /\ entries[i].credit \in Int
  BY ChangeFacts DEF Entry
<1> QED
  BY <1>1, EffectsCancel

\* Accounts nobody has named yet have a running balance of nothing.
LEMMA RunningFacts ==
  ASSUME NEW A, NEW T, Book(A, T), NEW a
  PROVE  /\ Len(T) \in Nat /\ DOMAIN T = 1..Len(T) /\ \A t \in DOMAIN T : T[t] \in Seq(Entry)
         /\ IsFiniteSet(DOMAIN A) /\ Running(T, a) \in Int
         /\ a \notin DOMAIN A => Running(T, a) = 0
<1> DEFINE D == DOMAIN T
           f == [t \in DOMAIN T |-> Change(T[t], a)]
<1>1. Len(T) \in Nat /\ DOMAIN T = 1..Len(T) /\ \A t \in DOMAIN T : T[t] \in Seq(Entry)
  BY LenProperties, ElementOfSeq DEF Book
<1>2. IsFiniteSet(D)
  <2>1. IsFiniteSet(1..Len(T))
    BY <1>1, FS_Interval
  <2> QED
    BY <1>1, <2>1
<1>3. Running(T, a) = SumFunctionOnSet(f, D)
  BY DEF Running, SumFunction
<1>4. \A t \in D : f[t] \in Int
  BY <1>1, ChangeFacts
<1>5. a \notin DOMAIN A => \A t \in D : f[t] = 0
  BY <1>1, ChangeFacts DEF Book
<1>6. SumFunctionOnSet(f, D) \in Int /\ (a \notin DOMAIN A => SumFunctionOnSet(f, D) = 0)
  <2> HIDE DEF f, D
  <2> QED
    BY <1>2, <1>4, <1>5, SumType, SumZero
<1>7. IsFiniteSet(DOMAIN A)
  BY RequestAssumption, FS_Subset DEF Book
<1> QED
  BY <1>1, <1>3, <1>6, <1>7

\* An account is opened.
LEMMA BookOpened ==
  ASSUME NEW A, NEW T, Book(A, T), NEW b \in AccountId \ DOMAIN A
  PROVE  Book(Bind(A, b, 0), T)
<1> DEFINE B == Bind(A, b, 0)
<1>1. DOMAIN B = DOMAIN A \cup {b} /\ B[b] = 0 /\ \A a \in DOMAIN A : B[a] = A[a]
  BY DEF Bind
<1>2. Running(T, b) = 0 /\ IsFiniteSet(DOMAIN A)
  BY RunningFacts
<1> HIDE DEF B
<1>3. ASSUME NEW l \in Ledger PROVE SumFunctionOnSet(B, OfLedger(B, l)) = 0
  <2> DEFINE S == OfLedger(A, l)
  <2>1. S \in SUBSET DOMAIN A
    BY DEF OfLedger
  <2>2. IsFiniteSet(S) /\ \A a \in S : A[a] \in Int /\ B[a] = A[a]
    BY <1>1, <1>2, <2>1, FS_Subset DEF Book
  <2>3. SumFunctionOnSet(B, S) = 0
    <3>1. SumFunctionOnSet(A, S) = 0
      BY DEF Book
    <3> HIDE DEF S
    <3> QED
      BY <2>2, <3>1, SumEqual
  <2>4. b \notin S
    BY <2>1
  <2>5. CASE LedgerOf[b] = l
    <3>1. OfLedger(B, l) = S \cup {b}
      BY <1>1, <2>5 DEF OfLedger
    <3>2. \A a \in S \cup {b} : B[a] \in Int
      BY <1>1, <2>2
    <3> HIDE DEF S
    <3>3. SumFunctionOnSet(B, S \cup {b}) = SumFunctionOnSet(B, S) + B[b]
      BY <2>2, <2>4, <3>2, SumAdd
    <3> QED
      BY <1>1, <2>3, <3>1, <3>3
  <2>6. CASE LedgerOf[b] # l
    <3>1. OfLedger(B, l) = S
      BY <1>1, <2>6 DEF OfLedger
    <3> QED
      BY <2>3, <3>1
  <2> QED
    BY <2>5, <2>6
<1>4. DOMAIN B \subseteq AccountId /\ \A a \in DOMAIN B : B[a] \in Int /\ B[a] = Running(T, a)
  BY <1>1, <1>2 DEF Book
<1>5. \A t \in DOMAIN T : ValidateTransaction(T[t]) /\ AccountsOf(T[t]) \subseteq DOMAIN B
  BY <1>1 DEF Book
<1>6. Book(B, T)
  BY <1>3, <1>4, <1>5 DEF Book
<1> QED
  BY <1>6 DEF B

\* A transaction is posted.
LEMMA BookPosted ==
  ASSUME NEW A, NEW T, Book(A, T), NEW entries \in Seq(Entry), ValidateTransaction(entries),
         AccountsOf(entries) \subseteq DOMAIN A, NEW k, \A a \in AccountsOf(entries) : LedgerOf[a] = k
  PROVE  Book(Updated(A, entries), Append(T, entries))
<1> DEFINE B == Updated(A, entries)
           U == Append(T, entries)
           m == Len(T) + 1
<1>1. DOMAIN B = DOMAIN A /\ \A a \in DOMAIN A : B[a] = A[a] + Change(entries, a)
  BY DEF Updated
<1>2. /\ Len(T) \in Nat /\ DOMAIN T = 1..Len(T) /\ \A t \in DOMAIN T : T[t] \in Seq(Entry)
      /\ IsFiniteSet(DOMAIN A)
  BY RunningFacts
<1>3. /\ U \in Seq(Seq(Entry)) /\ Len(U) = m /\ U[m] = entries
      /\ \A t \in 1..Len(T) : U[t] = T[t]
  BY AppendProperties DEF Book
<1>4. DOMAIN U = DOMAIN T \cup {m} /\ m \notin DOMAIN T
  <2>1. \A n \in Nat : 1..(n + 1) = (1..n) \cup {n + 1} /\ n + 1 \notin 1..n
    OBVIOUS
  <2>2. DOMAIN U = 1..m
    BY <1>3, LenProperties
  <2> QED
    BY <1>2, <2>1, <2>2
<1> HIDE DEF B, U, m
<1>5. ASSUME NEW a \in DOMAIN A
      PROVE  B[a] \in Int /\ B[a] = Running(U, a)
  <2> DEFINE D == DOMAIN T
             f == [t \in DOMAIN T |-> Change(T[t], a)]
             g == [t \in DOMAIN U |-> Change(U[t], a)]
  <2>1. A[a] \in Int /\ A[a] = SumFunctionOnSet(f, D)
    BY DEF Book, Running, SumFunction
  <2>2. Running(U, a) = SumFunctionOnSet(g, D \cup {m})
    BY <1>4 DEF Running, SumFunction
  <2>3. IsFiniteSet(D)
    <3>1. IsFiniteSet(1..Len(T))
      BY <1>2, FS_Interval
    <3> QED
      BY <1>2, <3>1
  <2>4. \A t \in D \cup {m} : g[t] \in Int
    BY <1>2, <1>3, <1>4, ChangeFacts
  <2>5. \A t \in D : f[t] \in Int /\ g[t] = f[t]
    BY <1>2, <1>3, <1>4, ChangeFacts
  <2>6. g[m] = Change(entries, a) /\ Change(entries, a) \in Int
    BY <1>3, <1>4, ChangeFacts
  <2>7. m \notin D
    BY <1>4
  <2> HIDE DEF D, f, g
  <2>8. SumFunctionOnSet(g, D \cup {m}) = SumFunctionOnSet(g, D) + g[m]
    BY <2>3, <2>4, <2>7, SumAdd
  <2>9. SumFunctionOnSet(g, D) = SumFunctionOnSet(f, D)
    BY <2>3, <2>5, SumEqual
  <2> QED
    BY <1>1, <2>1, <2>2, <2>6, <2>8, <2>9
<1>6. ASSUME NEW l \in Ledger PROVE SumFunctionOnSet(B, OfLedger(B, l)) = 0
  <2> DEFINE S == OfLedger(A, l)
             h == [a \in S |-> Change(entries, a)]
  <2>1. S \in SUBSET DOMAIN A /\ OfLedger(B, l) = S
    BY <1>1 DEF OfLedger
  <2>2. IsFiniteSet(S) /\ SumFunctionOnSet(A, S) = 0
    BY <1>2, <2>1, FS_Subset DEF Book
  <2>3. \A a \in S : A[a] \in Int /\ h[a] \in Int /\ B[a] = A[a] + h[a]
    BY <1>1, <2>1, ChangeFacts DEF Book
  <2>4. SumFunctionOnSet(h, S) = 0
    <3>1. CASE l = k
      <4>1. AccountsOf(entries) \subseteq S
        BY <3>1 DEF OfLedger
      <4> QED
        BY <2>2, <4>1, ChangesCancel
    <3>2. CASE l # k
      <4>1. \A a \in S : a \notin AccountsOf(entries)
        BY <3>2 DEF OfLedger
      <4>2. \A a \in S : h[a] = 0
        BY <4>1, ChangeFacts
      <4> HIDE DEF S, h
      <4> QED
        BY <2>2, <4>2, SumZero
    <3> QED
      BY <3>1, <3>2
  <2> HIDE DEF S, h
  <2>5. SumFunctionOnSet(B, S) = SumFunctionOnSet(A, S) + SumFunctionOnSet(h, S)
    BY <2>2, <2>3, SumPlus
  <2> QED
    BY <2>1, <2>2, <2>4, <2>5
<1>7. \A t \in DOMAIN U : ValidateTransaction(U[t]) /\ AccountsOf(U[t]) \subseteq DOMAIN B
  BY <1>1, <1>2, <1>3, <1>4 DEF Book
<1>8. Book(B, U)
  BY <1>1, <1>3, <1>5, <1>6, <1>7 DEF Book
<1> QED
  BY <1>8 DEF B, U

-----------------------------------------------------------------------------
(* The inductive invariant.                                                *)

Step == {"destination_credit", "compensate_source"}
TransferTerms == {TransferOf(r) : r \in Transfers}
SagaRow == [key : Key, transfer : TransferTerms, status : Status, arrival : Nat, refund : Nat]
Event == [saga : Nat, step : Step, attempts : 0..MaxAttempts, due : BOOLEAN, processed : BOOLEAN]

Tables ==
  /\ sagas \in Seq(SagaRow)
  /\ outbox \in Seq(Event)
  /\ DOMAIN idempotencyKeys \subseteq Key
  /\ left \in [Pass -> 0..Limit]

\* A key stands for one saga and a saga for one key; an event names a saga.
KeysMatch ==
  /\ DOMAIN transferKeys \subseteq Key
  /\ \A k \in DOMAIN transferKeys :
       transferKeys[k] \in DOMAIN sagas /\ sagas[transferKeys[k]].key = k
  /\ \A i \in DOMAIN sagas : sagas[i].key \in DOMAIN transferKeys /\ transferKeys[sagas[i].key] = i
  /\ \A e \in DOMAIN outbox : outbox[e].saga \in DOMAIN sagas

\* The terms of an accepted transfer t: what CreateTransfer checked stays true.
Accepted(A, t) ==
  /\ t.source \in DOMAIN A /\ LedgerOf[t.source] = t.sourceLedger
  /\ t.destination \in DOMAIN A /\ LedgerOf[t.destination] = t.destinationLedger
  /\ t.sourceLedger # t.destinationLedger
  /\ t.amount > 0

SagasBooked ==
  \A i \in DOMAIN sagas :
    /\ Accepted(accounts, sagas[i].transfer)
    /\ sagas[i].arrival <= Len(transactions) /\ sagas[i].refund <= Len(transactions)

Waits(e, i) == e \in DOMAIN outbox /\ outbox[e].saga = i /\ ~outbox[e].processed

\* EventsMatchSagas without counting, and attempts left for what is to be done.
EventsDone ==
  /\ \A e \in DOMAIN outbox : ~outbox[e].processed =>
       /\ outbox[e].step = "destination_credit" => sagas[outbox[e].saga].status = "pending"
       /\ outbox[e].step = "compensate_source" => sagas[outbox[e].saga].status = "failed"
       /\ outbox[e].step = "destination_credit" => outbox[e].attempts < MaxAttempts
  /\ \A i \in DOMAIN sagas :
       /\ sagas[i].status \in {"pending", "failed"} => \E e : Waits(e, i)
       /\ \A e, f : Waits(e, i) /\ Waits(f, i) => e = f

\* What a request under a key was told: x is the answer, status the one that
\* means created, request and ref what the key stands for.
Told(x, status, request, ref) ==
  \/ x.status \in {status, 200} /\ x.request = request /\ x.ref = ref
  \/ x.status = 409 /\ x.request # request

Recorded(x) ==
  /\ x = [route |-> x.route, key |-> x.key, request |-> x.request, status |-> x.status, ref |-> x.ref]
  /\ x.route \in {"transactions", "transfers"}
  /\ x.route = "transactions" /\ x.key # NoKey =>
       /\ x.key \in DOMAIN idempotencyKeys
       /\ Told(x, 201, idempotencyKeys[x.key].checksum, idempotencyKeys[x.key].transaction)
  /\ x.route = "transfers" =>
       /\ x.key \in DOMAIN transferKeys
       /\ Told(x, 202, sagas[transferKeys[x.key]].transfer, transferKeys[x.key])

AnswersRecorded == \A x \in answers : Recorded(x)

KeysAnswered ==
  /\ \A k \in DOMAIN idempotencyKeys :
       \E z \in answers : z.route = "transactions" /\ z.key = k /\ z.status = 201
  /\ \A k \in DOMAIN transferKeys :
       \E z \in answers : z.route = "transfers" /\ z.key = k /\ z.status = 202

IInv ==
  /\ Book(accounts, transactions) /\ Tables /\ KeysMatch /\ SagasBooked /\ EventsDone
  /\ AnswersRecorded /\ KeysAnswered

-----------------------------------------------------------------------------
(* Facts about the tables and what is posted.                              *)

\* The indices and the elements of the tables.
LEMMA TableFacts ==
  ASSUME Tables
  PROVE  /\ Len(sagas) \in Nat /\ DOMAIN sagas = 1..Len(sagas)
         /\ \A i \in DOMAIN sagas : sagas[i] \in SagaRow
         /\ Len(outbox) \in Nat /\ DOMAIN outbox = 1..Len(outbox)
         /\ \A e \in DOMAIN outbox : outbox[e] \in Event
  BY LenProperties, ElementOfSeq DEF Tables

\* The same after a step.
LEMMA TableFactsNext ==
  ASSUME Tables'
  PROVE  /\ Len(sagas') \in Nat /\ DOMAIN sagas' = 1..Len(sagas')
         /\ \A i \in DOMAIN sagas' : sagas'[i] \in SagaRow
         /\ Len(outbox') \in Nat /\ DOMAIN outbox' = 1..Len(outbox')
         /\ \A e \in DOMAIN outbox' : outbox'[e] \in Event
  BY LenProperties, ElementOfSeq DEF Tables

\* What Append does to the indices and the elements of a sequence.
LEMMA Appended ==
  ASSUME NEW S, NEW s \in Seq(S), NEW x \in S, NEW u, u = Append(s, x)
  PROVE  /\ u \in Seq(S) /\ Len(s) \in Nat /\ Len(u) = Len(s) + 1
         /\ DOMAIN u = DOMAIN s \cup {Len(s) + 1} /\ Len(s) + 1 \notin DOMAIN s
         /\ u[Len(s) + 1] = x
         /\ \A i \in DOMAIN s : u[i] = s[i]
<1>1. Len(s) \in Nat /\ DOMAIN s = 1..Len(s)
  BY LenProperties
<1>2. u \in Seq(S) /\ Len(u) = Len(s) + 1 /\ u[Len(s) + 1] = x /\ \A i \in 1..Len(s) : u[i] = s[i]
  BY AppendProperties
<1>3. DOMAIN u = 1..Len(u)
  BY <1>2, LenProperties
<1>4. \A n \in Nat : 1..(n + 1) = (1..n) \cup {n + 1} /\ n + 1 \notin 1..n
  OBVIOUS
<1> QED
  BY <1>1, <1>2, <1>3, <1>4

\* What replacing one element does.
LEMMA Replaced ==
  ASSUME NEW S, NEW s \in Seq(S), NEW i \in DOMAIN s, NEW x \in S, NEW u, u = [s EXCEPT ![i] = x]
  PROVE  /\ u \in Seq(S) /\ Len(u) = Len(s) /\ DOMAIN u = DOMAIN s
         /\ u[i] = x
         /\ \A j \in DOMAIN s : j # i => u[j] = s[j]
<1>1. Len(s) \in Nat /\ DOMAIN s = 1..Len(s)
  BY LenProperties
<1>2. u \in Seq(S) /\ Len(u) = Len(s)
  BY <1>1, ExceptSeq
<1> QED
  BY <1>1, <1>2

\* A sum of two terms.
LEMMA SumOfTwo ==
  ASSUME NEW f, f[1] \in Int, f[2] \in Int
  PROVE  SumFunctionOnSet(f, {1, 2}) = f[1] + f[2]
<1>1. {1, 2} = {1} \cup {2} /\ IsFiniteSet({1}) /\ 2 \notin {1}
  BY FS_Singleton
<1>2. SumFunctionOnSet(f, {1}) = f[1]
  BY SumSingleton
<1>3. SumFunctionOnSet(f, {1} \cup {2}) = SumFunctionOnSet(f, {1}) + f[2]
  BY <1>1, SumAdd
<1> QED
  BY <1>1, <1>2, <1>3

\* The two entries of a transfer's leg are a valid posting.
LEMMA LegIsValid ==
  ASSUME NEW a \in AccountId, NEW b \in AccountId, NEW x \in Int, x > 0,
         NEW entries, entries = <<Debit(a, x), Credit(b, x)>> \/ entries = <<Credit(b, x), Debit(a, x)>>
  PROVE  /\ entries \in Seq(Entry) /\ ValidateTransaction(entries)
         /\ AccountsOf(entries) = {a, b}
<1>1. Debit(a, x) \in Entry /\ Credit(b, x) \in Entry
  BY DEF Debit, Credit, Entry
<1>2. entries \in Seq(Entry) /\ Len(entries) = 2 /\ DOMAIN entries = {1, 2}
  <2>1. \A u, v \in Entry : <<u, v>> \in Seq(Entry) /\ Len(<<u, v>>) = 2 /\ DOMAIN <<u, v>> = 1..2
    OBVIOUS
  <2>2. 1..2 = {1, 2}
    OBVIOUS
  <2> QED
    BY <1>1, <2>1, <2>2
<1>3. AccountsOf(entries) = {a, b}
  BY <1>2 DEF AccountsOf, Debit, Credit
<1>4. \A i \in {1, 2} : /\ entries[i].debit >= 0 /\ entries[i].credit >= 0
                        /\ entries[i].debit = 0 <=> entries[i].credit # 0
  BY DEF Debit, Credit
<1> DEFINE d == [i \in {1, 2} |-> entries[i].debit]
           c == [i \in {1, 2} |-> entries[i].credit]
<1>6. d[1] \in Int /\ d[2] \in Int /\ c[1] \in Int /\ c[2] \in Int /\ d[1] + d[2] = c[1] + c[2]
  BY DEF Debit, Credit
<1>7. Total(DebitOf, entries) = SumFunctionOnSet(d, {1, 2})
  BY <1>2 DEF Total, DebitOf, SumFunction
<1>8. Total(CreditOf, entries) = SumFunctionOnSet(c, {1, 2})
  BY <1>2 DEF Total, CreditOf, SumFunction
<1> HIDE DEF d, c
<1>9. Total(DebitOf, entries) = Total(CreditOf, entries)
  BY <1>6, <1>7, <1>8, SumOfTwo
<1> QED
  BY <1>2, <1>3, <1>4, <1>9 DEF ValidateTransaction

\* clearingAccountLocked keeps the book, and the clearing account exists then.
LEMMA ClearingOpened ==
  ASSUME Book(accounts, transactions), NEW l \in Ledger
  PROVE  /\ Book(WithClearing(l), transactions)
         /\ DOMAIN WithClearing(l) = DOMAIN accounts \cup {Clearing[l]}
         /\ Clearing[l] \in AccountId /\ LedgerOf[Clearing[l]] = l
         /\ \A a \in DOMAIN accounts : WithClearing(l)[a] = accounts[a]
         /\ Clearing[l] \notin DOMAIN accounts => WithClearing(l)[Clearing[l]] = 0
<1>1. Clearing[l] \in AccountId /\ LedgerOf[Clearing[l]] = l
  BY MemoryAssumption
<1>2. CASE Clearing[l] \in DOMAIN accounts
  BY <1>1, <1>2 DEF WithClearing
<1>3. CASE Clearing[l] \notin DOMAIN accounts
  <2>1. WithClearing(l) = Bind(accounts, Clearing[l], 0)
    BY <1>3 DEF WithClearing
  <2>2. Book(Bind(accounts, Clearing[l], 0), transactions)
    BY <1>1, <1>3, BookOpened
  <2>3. /\ DOMAIN Bind(accounts, Clearing[l], 0) = DOMAIN accounts \cup {Clearing[l]}
        /\ \A a \in DOMAIN accounts : Bind(accounts, Clearing[l], 0)[a] = accounts[a]
        /\ Bind(accounts, Clearing[l], 0)[Clearing[l]] = 0
    BY <1>3 DEF Bind
  <2> QED
    BY <1>1, <1>3, <2>1, <2>2, <2>3
<1> QED
  BY <1>2, <1>3

\* A leg of a transfer, between an account and the clearing account of its
\* ledger, keeps the book.
LEMMA LegPosted ==
  ASSUME Book(accounts, transactions), NEW a \in DOMAIN accounts, NEW x \in Int, x > 0,
         NEW entries, LET b == Clearing[LedgerOf[a]] IN
                      \/ entries = <<Debit(a, x), Credit(b, x)>>
                      \/ entries = <<Credit(a, x), Debit(b, x)>>,
         AppendTransaction(WithClearing(LedgerOf[a]), entries)
  PROVE  /\ Book(accounts, transactions)'
         /\ DOMAIN accounts \subseteq DOMAIN accounts'
         /\ Len(transactions) \in Nat /\ Len(transactions') = Len(transactions) + 1
<1> DEFINE l == LedgerOf[a]
           b == Clearing[l]
           W == WithClearing(l)
<1>1. a \in AccountId /\ l \in Ledger
  BY MemoryAssumption DEF Book
<1>2. /\ Book(W, transactions) /\ DOMAIN W = DOMAIN accounts \cup {b}
      /\ b \in AccountId /\ LedgerOf[b] = l
  BY <1>1, ClearingOpened
<1>3. entries \in Seq(Entry) /\ ValidateTransaction(entries) /\ AccountsOf(entries) = {a, b}
  <2>1. CASE entries = <<Debit(a, x), Credit(b, x)>>
    BY <1>1, <1>2, <2>1, LegIsValid, SMTT(30)
  <2>2. CASE entries = <<Credit(a, x), Debit(b, x)>>
    <3>1. entries \in Seq(Entry) /\ ValidateTransaction(entries) /\ AccountsOf(entries) = {b, a}
      BY <1>1, <1>2, <2>2, LegIsValid
    <3> QED
      BY <3>1
  <2> QED
    BY <2>1, <2>2
<1>4. \A c \in AccountsOf(entries) : LedgerOf[c] = l
  BY <1>2, <1>3
<1>5. AccountsOf(entries) \subseteq DOMAIN W
  BY <1>2, <1>3
<1>6. accounts' = Updated(W, entries) /\ transactions' = Append(transactions, entries)
  BY DEF AppendTransaction
<1> HIDE DEF W, l
<1>7. Book(Updated(W, entries), Append(transactions, entries))
  BY <1>2, <1>3, <1>4, <1>5, BookPosted
<1>8. Book(accounts', transactions')
  BY <1>6, <1>7
<1>9. DOMAIN accounts' = DOMAIN W
  BY <1>6 DEF Updated
<1>10. Len(transactions) \in Nat /\ Len(transactions') = Len(transactions) + 1
  BY <1>3, <1>6, Appended DEF Book
<1>11. Book(accounts, transactions)' <=> Book(accounts', transactions')
  BY DEF Book, Running, OfLedger
<1> QED
  BY <1>2, <1>8, <1>9, <1>10, <1>11

-----------------------------------------------------------------------------
(* Frames: what a step that leaves the rest alone keeps.                   *)

\* A step that leaves the book alone.
LEMMA BookKept ==
  ASSUME Book(accounts, transactions), UNCHANGED book
  PROVE  Book(accounts, transactions)'
<1>1. Book(accounts', transactions')
  BY DEF book
<1> QED
  BY <1>1 DEF Book, Running, OfLedger

\* Answers stay right while keys keep their meaning and transfers their terms.
LEMMA OldAnswersKept ==
  ASSUME KeysMatch, AnswersRecorded, KeysAnswered, answers \subseteq answers',
         \A k \in DOMAIN idempotencyKeys :
           k \in DOMAIN idempotencyKeys' /\ idempotencyKeys'[k] = idempotencyKeys[k],
         \A k \in DOMAIN transferKeys :
           k \in DOMAIN transferKeys' /\ transferKeys'[k] = transferKeys[k],
         \A i \in DOMAIN sagas : sagas'[i].transfer = sagas[i].transfer
  PROVE  \A x \in answers : Recorded(x)'
<1>1. \A k \in DOMAIN transferKeys : sagas'[transferKeys'[k]].transfer = sagas[transferKeys[k]].transfer
  BY DEF KeysMatch
<1> SUFFICES ASSUME NEW x \in answers
             PROVE  Recorded(x)'
  OBVIOUS
<1>2. Recorded(x)
  BY DEF AnswersRecorded
<1>3. x.route = "transactions" /\ x.key # NoKey =>
        /\ x.key \in DOMAIN idempotencyKeys'
        /\ Told(x, 201, idempotencyKeys'[x.key].checksum, idempotencyKeys'[x.key].transaction)
  BY <1>2 DEF Recorded
<1>4. x.route = "transfers" =>
        /\ x.key \in DOMAIN transferKeys'
        /\ Told(x, 202, sagas'[transferKeys'[x.key]].transfer, transferKeys'[x.key])
  BY <1>1, <1>2 DEF Recorded
<1> QED
  BY <1>2, <1>3, <1>4 DEF Recorded, Told

\* A step that gives no answer.
LEMMA AnswersKept ==
  ASSUME Tables, KeysMatch, AnswersRecorded, KeysAnswered,
         UNCHANGED <<idempotencyKeys, transferKeys, answers>>,
         \A i \in DOMAIN sagas : sagas'[i].transfer = sagas[i].transfer
  PROVE  AnswersRecorded' /\ KeysAnswered'
<1>1. \A x \in answers : Recorded(x)'
  BY OldAnswersKept
<1>2. AnswersRecorded'
  BY <1>1 DEF AnswersRecorded
<1>3. KeysAnswered'
  BY DEF KeysAnswered
<1> QED
  BY <1>2, <1>3

\* The answer x is given; a key that is new is the one it answers.
LEMMA AnswerAdded ==
  ASSUME KeysMatch, AnswersRecorded, KeysAnswered, NEW x, answers' = answers \cup {x}, Recorded(x)',
         \A k \in DOMAIN idempotencyKeys :
           k \in DOMAIN idempotencyKeys' /\ idempotencyKeys'[k] = idempotencyKeys[k],
         \A k \in DOMAIN transferKeys :
           k \in DOMAIN transferKeys' /\ transferKeys'[k] = transferKeys[k],
         \A i \in DOMAIN sagas : sagas'[i].transfer = sagas[i].transfer,
         \A k \in DOMAIN idempotencyKeys' \ DOMAIN idempotencyKeys :
           x.route = "transactions" /\ x.key = k /\ x.status = 201,
         \A k \in DOMAIN transferKeys' \ DOMAIN transferKeys :
           x.route = "transfers" /\ x.key = k /\ x.status = 202
  PROVE  AnswersRecorded' /\ KeysAnswered'
<1>1. \A z \in answers : Recorded(z)'
  BY OldAnswersKept
<1>2. AnswersRecorded'
  BY <1>1 DEF AnswersRecorded
<1>3. KeysAnswered'
  BY DEF KeysAnswered
<1> QED
  BY <1>2, <1>3

\* The terms of the sagas stay true while accounts and journal only grow and
\* new numbers of legs are in the journal.
LEMMA BookedKept ==
  ASSUME Tables, SagasBooked, Len(transactions) \in Nat, Len(transactions') \in Nat,
         DOMAIN accounts \subseteq DOMAIN accounts', Len(transactions) <= Len(transactions'),
         DOMAIN sagas' = DOMAIN sagas,
         \A i \in DOMAIN sagas :
           /\ sagas'[i].transfer = sagas[i].transfer
           /\ sagas'[i].arrival \in {sagas[i].arrival, Len(transactions')}
           /\ sagas'[i].refund \in {sagas[i].refund, Len(transactions')}
  PROVE  SagasBooked'
<1> SUFFICES ASSUME NEW i \in DOMAIN sagas'
             PROVE  /\ Accepted(accounts', sagas'[i].transfer)
                    /\ sagas'[i].arrival <= Len(transactions') /\ sagas'[i].refund <= Len(transactions')
  BY DEF SagasBooked, Accepted
<1>1. i \in DOMAIN sagas /\ sagas[i] \in SagaRow
  BY TableFacts
<1>2. Accepted(accounts, sagas[i].transfer)
      /\ sagas[i].arrival <= Len(transactions) /\ sagas[i].refund <= Len(transactions)
  BY <1>1 DEF SagasBooked
<1>3. Accepted(accounts', sagas'[i].transfer)
  BY <1>1, <1>2 DEF Accepted
<1>4. sagas[i].arrival \in Nat /\ sagas[i].refund \in Nat
  BY <1>1 DEF SagaRow
<1> QED
  BY <1>1, <1>2, <1>3, <1>4

\* An event is worked on: its saga i may change, no other.
LEMMA KeysKept ==
  ASSUME KeysMatch, UNCHANGED transferKeys, DOMAIN sagas' = DOMAIN sagas,
         \A i \in DOMAIN sagas : sagas'[i].key = sagas[i].key,
         \A e \in DOMAIN outbox' : outbox'[e].saga \in DOMAIN sagas
  PROVE  KeysMatch'
  BY DEF KeysMatch

\* The event a pass takes.
LEMMA EventTaken ==
  ASSUME IInv, NEW p \in Pass, TakeEvent(p)
  PROVE  /\ NextEvent \in DOMAIN outbox /\ ~outbox[NextEvent].processed
         /\ outbox[NextEvent] \in Event
         /\ outbox[NextEvent].saga \in DOMAIN sagas
         /\ left' \in [Pass -> 0..Limit]
<1>1. /\ Len(outbox) \in Nat /\ DOMAIN outbox = 1..Len(outbox)
      /\ \A e \in DOMAIN outbox : outbox[e] \in Event
  BY TableFacts DEF IInv
<1>2. IsFiniteSet(Due) /\ Due # {} /\ Due \subseteq Int
  <2>1. IsFiniteSet(1..Len(outbox))
    BY <1>1, FS_Interval
  <2>2. Due \in SUBSET (1..Len(outbox))
    BY <1>1 DEF Due
  <2>3. IsFiniteSet(Due)
    BY <2>1, <2>2, FS_Subset
  <2> QED
    BY <1>1, <2>2, <2>3 DEF TakeEvent
<1>3. NextEvent \in Due
  BY <1>2, MinOfFinite DEF NextEvent
<1>4. left' \in [Pass -> 0..Limit]
  BY MemoryAssumption DEF TakeEvent, IInv, Tables
<1> QED
  BY <1>1, <1>3, <1>4 DEF Due, IInv, KeysMatch

-----------------------------------------------------------------------------
(* Steps of a pass.                                                        *)

\* An event is done and its saga settled.
LEMMA EventSettled ==
  ASSUME Tables, Tables', KeysMatch, EventsDone,
         NEW e \in DOMAIN outbox, ~outbox[e].processed, NEW i, i = outbox[e].saga,
         DOMAIN sagas' = DOMAIN sagas, \A j \in DOMAIN sagas : j # i => sagas'[j] = sagas[j],
         sagas'[i].status \in {"completed", "compensated"},
         DOMAIN outbox' = DOMAIN outbox, \A f \in DOMAIN outbox : f # e => outbox'[f] = outbox[f],
         outbox'[e].saga = i, outbox'[e].processed
  PROVE  EventsDone' /\ \A f \in DOMAIN outbox' : outbox'[f].saga \in DOMAIN sagas
<1>1. \A f \in DOMAIN outbox : outbox[f].saga \in DOMAIN sagas
  BY DEF KeysMatch
<1>2. \A f \in DOMAIN outbox' : ~outbox'[f].processed =>
        f # e /\ outbox'[f] = outbox[f] /\ outbox[f].saga # i /\ sagas'[outbox[f].saga] = sagas[outbox[f].saga]
  <2> SUFFICES ASSUME NEW f \in DOMAIN outbox', ~outbox'[f].processed
               PROVE  f # e /\ outbox'[f] = outbox[f] /\ outbox[f].saga # i
                      /\ sagas'[outbox[f].saga] = sagas[outbox[f].saga]
    OBVIOUS
  <2>1. f # e /\ outbox'[f] = outbox[f] /\ f \in DOMAIN outbox
    OBVIOUS
  <2>2. outbox[f].saga # i
    BY <1>1, <2>1 DEF EventsDone, Waits
  <2> QED
    BY <1>1, <2>1, <2>2
<1>3. \A f, j : Waits(f, j)' <=> Waits(f, j) /\ j # i
  BY <1>1, <1>2 DEF Waits, EventsDone
<1>4. \A f \in DOMAIN outbox' : ~outbox'[f].processed =>
       /\ outbox'[f].step = "destination_credit" => sagas'[outbox'[f].saga].status = "pending"
       /\ outbox'[f].step = "compensate_source" => sagas'[outbox'[f].saga].status = "failed"
       /\ outbox'[f].step = "destination_credit" => outbox'[f].attempts < MaxAttempts
  BY <1>2 DEF EventsDone
<1>5. \A j \in DOMAIN sagas' :
       /\ sagas'[j].status \in {"pending", "failed"} => \E f : Waits(f, j)'
       /\ \A f, g : Waits(f, j)' /\ Waits(g, j)' => f = g
  BY <1>3 DEF EventsDone
<1>6. EventsDone'
  BY <1>4, <1>5 DEF EventsDone
<1> QED
  BY <1>1, <1>6

\* An event changes but is not done: neither it nor its saga is settled.
LEMMA EventDelayed ==
  ASSUME Tables, Tables', KeysMatch, EventsDone, UNCHANGED sagas,
         NEW e \in DOMAIN outbox, 
         DOMAIN outbox' = DOMAIN outbox, \A f \in DOMAIN outbox : f # e => outbox'[f] = outbox[f],
         outbox'[e].saga = outbox[e].saga, outbox'[e].step = outbox[e].step,
         outbox'[e].processed = outbox[e].processed,
         ~outbox[e].processed /\ outbox[e].step = "destination_credit" =>
           outbox'[e].attempts < MaxAttempts
  PROVE  EventsDone' /\ \A f \in DOMAIN outbox' : outbox'[f].saga \in DOMAIN sagas
<1>1. \A f \in DOMAIN outbox : outbox[f].saga \in DOMAIN sagas
  BY DEF KeysMatch
<1>2. \A f \in DOMAIN outbox' : /\ f \in DOMAIN outbox
                                /\ outbox'[f].saga = outbox[f].saga /\ outbox'[f].step = outbox[f].step
                                /\ outbox'[f].processed = outbox[f].processed
  OBVIOUS
<1>3. \A f, j : Waits(f, j)' <=> Waits(f, j)
  BY <1>2 DEF Waits
<1>4. \A f \in DOMAIN outbox' : ~outbox'[f].processed =>
       /\ outbox'[f].step = "destination_credit" => sagas'[outbox'[f].saga].status = "pending"
       /\ outbox'[f].step = "compensate_source" => sagas'[outbox'[f].saga].status = "failed"
       /\ outbox'[f].step = "destination_credit" => outbox'[f].attempts < MaxAttempts
  BY <1>2 DEF EventsDone
<1>5. \A j \in DOMAIN sagas' :
       /\ sagas'[j].status \in {"pending", "failed"} => \E f : Waits(f, j)'
       /\ \A f, g : Waits(f, j)' /\ Waits(g, j)' => f = g
  BY <1>3 DEF EventsDone
<1>6. EventsDone'
  BY <1>4, <1>5 DEF EventsDone
<1> QED
  BY <1>1, <1>2, <1>6

\* The parts of the invariant, before and after a step.
LEMMA IInvNext ==
  IInv' <=> /\ Book(accounts, transactions)' /\ Tables' /\ KeysMatch' /\ SagasBooked' /\ EventsDone'
            /\ AnswersRecorded' /\ KeysAnswered'
  BY DEF IInv

\* A pass starts.
LEMMA StartPassKeeps ==
  ASSUME IInv, NEW p \in Pass, StartPass(p) \/ EndPass(p)
  PROVE  IInv'
<1>1. UNCHANGED <<book, idempotencyKeys, sagas, transferKeys, outbox, answers>>
  BY DEF StartPass, EndPass
<1>2. Tables'
  <2>1. left' \in [Pass -> 0..Limit]
    <3>1. left \in [Pass -> 0..Limit] /\ 0 \in 0..Limit /\ Limit \in 0..Limit
      BY MemoryAssumption DEF IInv, Tables
    <3> QED
      BY <3>1 DEF StartPass, EndPass
  <2> QED
    BY <1>1, <2>1 DEF IInv, Tables
<1>3. Book(accounts, transactions)'
  BY <1>1, BookKept DEF IInv
<1>4. KeysMatch' /\ SagasBooked'
  BY <1>1 DEF IInv, KeysMatch, SagasBooked, Accepted, book
<1>5. EventsDone'
  BY <1>1 DEF IInv, EventsDone, Waits
<1>6. AnswersRecorded' /\ KeysAnswered'
  BY <1>1, AnswersKept DEF IInv
<1> QED
  BY <1>2, <1>3, <1>4, <1>5, <1>6, IInvNext

\* y is the row x of a saga with another status, and n its arrival or refund.
Moved(x, n, status, y) ==
  \/ y = [x EXCEPT !.arrival = n, !.status = status]
  \/ y = [x EXCEPT !.refund = n, !.status = status]
  \/ y = [x EXCEPT !.status = status]

\* The row of a saga that is settled, ...
LEMMA SagaSettled ==
  ASSUME NEW x \in SagaRow, NEW n \in Nat, NEW status \in Status, NEW y, Moved(x, n, status, y)
  PROVE  /\ y \in SagaRow /\ y.key = x.key /\ y.transfer = x.transfer /\ y.status = status
         /\ y.arrival \in {x.arrival, n} /\ y.refund \in {x.refund, n}
  BY DEF SagaRow, Moved

\* ... of an event that is done, ...
LEMMA EventProcessed ==
  ASSUME NEW x \in Event, NEW y, \/ y = [x EXCEPT !.processed = TRUE]
                                \/ /\ x.attempts < MaxAttempts
                                   /\ y = [x EXCEPT !.attempts = @ + 1, !.processed = TRUE]
  PROVE  y \in Event /\ y.saga = x.saga /\ y.step = x.step /\ y.processed
<1>1. x.attempts \in 0..MaxAttempts /\ (x.attempts < MaxAttempts => x.attempts + 1 \in 0..MaxAttempts)
  BY MemoryAssumption DEF Event
<1>2. CASE y = [x EXCEPT !.processed = TRUE]
  BY <1>2 DEF Event
<1>3. CASE x.attempts < MaxAttempts /\ y = [x EXCEPT !.attempts = @ + 1, !.processed = TRUE]
  BY <1>1, <1>3 DEF Event
<1> QED
  BY <1>2, <1>3

\* ... that waits, and that has waited.
LEMMA EventWaits ==
  ASSUME NEW x \in Event, NEW y, \/ /\ x.attempts < MaxAttempts
                                   /\ y = [x EXCEPT !.attempts = @ + 1, !.due = FALSE]
                                \/ y = [x EXCEPT !.due = TRUE]
  PROVE  /\ y \in Event /\ y.saga = x.saga /\ y.step = x.step /\ y.processed = x.processed
         /\ y.attempts \in {x.attempts, x.attempts + 1}
         /\ y = [x EXCEPT !.due = TRUE] => y.attempts = x.attempts
<1>1. x.attempts \in 0..MaxAttempts /\ (x.attempts < MaxAttempts => x.attempts + 1 \in 0..MaxAttempts)
  BY MemoryAssumption DEF Event
<1>2. CASE y = [x EXCEPT !.due = TRUE]
  BY <1>2 DEF Event
<1>3. CASE x.attempts < MaxAttempts /\ y = [x EXCEPT !.attempts = @ + 1, !.due = FALSE]
  BY <1>1, <1>3 DEF Event
<1> QED
  BY <1>2, <1>3

\* The amount of an accepted transfer is a positive number.
LEMMA AmountFacts ==
  ASSUME IInv, NEW i \in DOMAIN sagas
  PROVE  /\ sagas[i] \in SagaRow /\ Accepted(accounts, sagas[i].transfer)
         /\ sagas[i].transfer.amount \in Int /\ sagas[i].transfer.amount > 0
<1>1. sagas[i] \in SagaRow /\ Accepted(accounts, sagas[i].transfer)
  BY TableFacts DEF IInv, SagasBooked
<1>2. sagas[i].transfer \in TransferTerms
  BY <1>1 DEF SagaRow
<1>3. \A t \in TransferTerms : t.amount \in Int
  BY RequestAssumption DEF TransferTerms, TransferOf
<1> QED
  BY <1>1, <1>2, <1>3 DEF Accepted

\* An event is done: its leg is posted to account a and its saga settled.
LEMMA SettleKeeps ==
  ASSUME IInv, NEW p \in Pass, TakeEvent(p),
         NEW e, e = NextEvent, NEW i, i = outbox[e].saga,
         NEW a \in DOMAIN accounts, NEW x \in Int, x > 0,
         AppendTransaction(WithClearing(LedgerOf[a]), <<Debit(a, x), Credit(Clearing[LedgerOf[a]], x)>>),
         NEW status \in {"completed", "compensated"}, NEW row,
         Moved(sagas[i], Len(transactions) + 1, status, row),
         sagas' = [sagas EXCEPT ![i] = row], outbox' = Processed(e),
         UNCHANGED <<idempotencyKeys, transferKeys, answers>>
  PROVE  IInv'
<1> DEFINE done == [outbox[e] EXCEPT !.processed = TRUE]
<1>0. Tables /\ KeysMatch /\ SagasBooked /\ EventsDone /\ Book(accounts, transactions)
  BY DEF IInv
<1>1. /\ e \in DOMAIN outbox /\ ~outbox[e].processed /\ outbox[e] \in Event /\ i \in DOMAIN sagas
      /\ left' \in [Pass -> 0..Limit]
  BY EventTaken
<1>2. sagas[i] \in SagaRow
  BY <1>1, AmountFacts
<1>4. /\ Book(accounts, transactions)' /\ DOMAIN accounts \subseteq DOMAIN accounts'
      /\ Len(transactions) \in Nat /\ Len(transactions') = Len(transactions) + 1
  BY <1>0, LegPosted
<1>5. /\ row \in SagaRow /\ row.key = sagas[i].key /\ row.transfer = sagas[i].transfer
      /\ row.status = status
      /\ row.arrival \in {sagas[i].arrival, Len(transactions')}
      /\ row.refund \in {sagas[i].refund, Len(transactions')}
  <2>1. status \in Status
    BY DEF Status
  <2>2. Len(transactions) + 1 \in Nat
    BY <1>4
  <2> QED
    BY <1>2, <1>4, <2>1, <2>2, SagaSettled
<1>6. done \in Event /\ done.saga = i /\ done.processed
  BY <1>1, EventProcessed
<1>7. outbox' = [outbox EXCEPT ![e] = done]
  BY DEF Processed
<1> HIDE DEF done
<1>8. /\ sagas' \in Seq(SagaRow) /\ DOMAIN sagas' = DOMAIN sagas /\ sagas'[i] = row
      /\ \A j \in DOMAIN sagas : j # i => sagas'[j] = sagas[j]
  BY <1>0, <1>1, <1>5, Replaced DEF Tables
<1>9. /\ outbox' \in Seq(Event) /\ DOMAIN outbox' = DOMAIN outbox /\ outbox'[e] = done
      /\ \A f \in DOMAIN outbox : f # e => outbox'[f] = outbox[f]
  BY <1>0, <1>1, <1>6, <1>7, Replaced DEF Tables
<1>10. Tables'
  BY <1>0, <1>1, <1>8, <1>9 DEF Tables
<1>11. EventsDone' /\ \A f \in DOMAIN outbox' : outbox'[f].saga \in DOMAIN sagas
  BY <1>0, <1>1, <1>5, <1>6, <1>8, <1>9, <1>10, EventSettled
<1>12. \A j \in DOMAIN sagas :
         /\ sagas'[j].key = sagas[j].key /\ sagas'[j].transfer = sagas[j].transfer
         /\ sagas'[j].arrival \in {sagas[j].arrival, Len(transactions')}
         /\ sagas'[j].refund \in {sagas[j].refund, Len(transactions')}
  BY <1>5, <1>8
<1>13. KeysMatch'
  BY <1>0, <1>8, <1>11, <1>12, KeysKept
<1>14. SagasBooked'
  BY <1>0, <1>4, <1>8, <1>12, BookedKept
<1>15. AnswersRecorded' /\ KeysAnswered'
  BY <1>12, AnswersKept DEF IInv
<1> QED
  BY <1>4, <1>10, <1>11, <1>13, <1>14, <1>15, IInvNext

\* The destination leg is posted.
LEMMA CreditKeeps ==
  ASSUME IInv, NEW p \in Pass, CreditDestination(p)
  PROVE  IInv'
<1> DEFINE i == outbox[NextEvent].saga
           t == sagas[i].transfer
           row == [sagas[i] EXCEPT !.arrival = Len(transactions) + 1, !.status = "completed"]
<1>1. TakeEvent(p) /\ UNCHANGED <<idempotencyKeys, transferKeys, answers>> /\ outbox' = Processed(NextEvent)
  BY DEF CreditDestination
<1>2. sagas' = [sagas EXCEPT ![i] = row]
  BY DEF CreditDestination
<1>3. i \in DOMAIN sagas
  BY <1>1, EventTaken
<1>4. t.amount \in Int /\ t.amount > 0 /\ t.destination \in DOMAIN accounts
      /\ LedgerOf[t.destination] = t.destinationLedger
  BY <1>3, AmountFacts DEF Accepted
<1>5. AppendTransaction(WithClearing(LedgerOf[t.destination]),
        <<Debit(t.destination, t.amount), Credit(Clearing[LedgerOf[t.destination]], t.amount)>>)
  BY <1>4 DEF CreditDestination
<1>6. Moved(sagas[i], Len(transactions) + 1, "completed", row)
  BY DEF Moved
<1> HIDE DEF t
<1> QED
  BY <1>1, <1>2, <1>4, <1>5, <1>6, SettleKeeps

\* The source is paid back.
LEMMA CompensateKeeps ==
  ASSUME IInv, NEW p \in Pass, CompensateSource(p)
  PROVE  IInv'
<1> DEFINE i == outbox[NextEvent].saga
           t == sagas[i].transfer
           row == [sagas[i] EXCEPT !.refund = Len(transactions) + 1, !.status = "compensated"]
<1>1. TakeEvent(p) /\ UNCHANGED <<idempotencyKeys, transferKeys, answers>> /\ outbox' = Processed(NextEvent)
  BY DEF CompensateSource
<1>2. sagas' = [sagas EXCEPT ![i] = row]
  BY DEF CompensateSource
<1>3. i \in DOMAIN sagas
  BY <1>1, EventTaken
<1>4. t.amount \in Int /\ t.amount > 0 /\ t.source \in DOMAIN accounts
      /\ LedgerOf[t.source] = t.sourceLedger
  BY <1>3, AmountFacts DEF Accepted
<1>5. AppendTransaction(WithClearing(LedgerOf[t.source]),
        <<Debit(t.source, t.amount), Credit(Clearing[LedgerOf[t.source]], t.amount)>>)
  BY <1>4 DEF CompensateSource
<1>6. Moved(sagas[i], Len(transactions) + 1, "compensated", row)
  BY DEF Moved
<1> HIDE DEF t
<1> QED
  BY <1>1, <1>2, <1>4, <1>5, <1>6, SettleKeeps

\* A new event is as the tables want it.
LEMMA NewEventFacts ==
  ASSUME NEW i \in Nat, NEW step \in Step
  PROVE  /\ NewEvent(i, step) \in Event /\ NewEvent(i, step).saga = i /\ NewEvent(i, step).step = step
         /\ ~NewEvent(i, step).processed /\ NewEvent(i, step).attempts = 0 /\ 0 < MaxAttempts
  BY MemoryAssumption DEF NewEvent, Event

\* An event changes and nothing else does: it waits or has waited.
LEMMA DelayKeeps ==
  ASSUME IInv, NEW e \in DOMAIN outbox, NEW y \in Event, outbox' = [outbox EXCEPT ![e] = y],
         y.saga = outbox[e].saga, y.step = outbox[e].step, y.processed = outbox[e].processed,
         ~outbox[e].processed /\ outbox[e].step = "destination_credit" => y.attempts < MaxAttempts,
         left' \in [Pass -> 0..Limit],
         UNCHANGED <<book, idempotencyKeys, sagas, transferKeys, answers>>
  PROVE  IInv'
<1>0. Tables /\ KeysMatch /\ SagasBooked /\ EventsDone /\ Book(accounts, transactions)
  BY DEF IInv
<1>1. /\ outbox' \in Seq(Event) /\ DOMAIN outbox' = DOMAIN outbox /\ outbox'[e] = y
      /\ \A f \in DOMAIN outbox : f # e => outbox'[f] = outbox[f]
  BY <1>0, Replaced DEF Tables
<1>2. Tables'
  BY <1>0, <1>1 DEF Tables
<1>3. EventsDone' /\ \A f \in DOMAIN outbox' : outbox'[f].saga \in DOMAIN sagas
  BY <1>0, <1>1, <1>2, EventDelayed
<1>4. KeysMatch'
  BY <1>0, <1>3, KeysKept
<1>5. Book(accounts, transactions)' /\ SagasBooked'
  BY <1>0, BookKept DEF SagasBooked, Accepted, book
<1>6. AnswersRecorded' /\ KeysAnswered'
  BY AnswersKept DEF IInv
<1> QED
  BY <1>2, <1>3, <1>4, <1>5, <1>6, IInvNext

\* A transient failure: the event waits.
LEMMA RetryKeeps ==
  ASSUME IInv, NEW p \in Pass, RetryLater(p)
  PROVE  IInv'
<1> DEFINE e == NextEvent
           y == [outbox[e] EXCEPT !.attempts = @ + 1, !.due = FALSE]
<1>1. /\ e \in DOMAIN outbox /\ outbox[e] \in Event /\ left' \in [Pass -> 0..Limit]
  BY EventTaken DEF RetryLater
<1>2. /\ outbox' = [outbox EXCEPT ![e] = y] /\ outbox[e].attempts + 1 < MaxAttempts
      /\ UNCHANGED <<book, idempotencyKeys, sagas, transferKeys, answers>>
  BY DEF RetryLater, MayRetry
<1>3. outbox[e].attempts \in Nat /\ outbox[e].attempts < MaxAttempts
  BY <1>1, <1>2, MemoryAssumption DEF Event
<1>4. /\ y \in Event /\ y.saga = outbox[e].saga /\ y.step = outbox[e].step
      /\ y.processed = outbox[e].processed
      /\ y.attempts \in {outbox[e].attempts, outbox[e].attempts + 1}
  BY <1>1, <1>3, EventWaits
<1> HIDE DEF e, y
<1>5. y.attempts < MaxAttempts
  BY <1>2, <1>3, <1>4
<1> QED
  BY <1>1, <1>2, <1>4, <1>5, DelayKeeps

\* Its time has come.
LEMMA BackoffKeeps ==
  ASSUME IInv, NEW e \in DOMAIN outbox, BackoffEnds(e)
  PROVE  IInv'
<1> DEFINE y == [outbox[e] EXCEPT !.due = TRUE]
<1>1. outbox[e] \in Event /\ EventsDone /\ left \in [Pass -> 0..Limit]
  BY TableFacts DEF IInv, Tables
<1>2. /\ outbox' = [outbox EXCEPT ![e] = y]
      /\ UNCHANGED <<book, idempotencyKeys, sagas, transferKeys, left, answers>>
  BY DEF BackoffEnds
<1>3. /\ y \in Event /\ y.saga = outbox[e].saga /\ y.step = outbox[e].step
      /\ y.processed = outbox[e].processed /\ y.attempts = outbox[e].attempts
  BY <1>1, EventWaits
<1> HIDE DEF y
<1>4. ~outbox[e].processed /\ outbox[e].step = "destination_credit" => y.attempts < MaxAttempts
  BY <1>1, <1>3 DEF EventsDone
<1> QED
  BY <1>1, <1>2, <1>3, <1>4, DelayKeeps

\* A permanent failure or one too many: the saga is to be paid back.
LEMMA GiveUpKeeps ==
  ASSUME IInv, NEW p \in Pass, GiveUp(p)
  PROVE  IInv'
<1> DEFINE e == NextEvent
           i == outbox[e].saga
           row == [sagas[i] EXCEPT !.status = "failed"]
           done == [outbox[e] EXCEPT !.attempts = @ + 1, !.processed = TRUE]
           replaced == [outbox EXCEPT ![e] = done]
           new == NewEvent(i, "compensate_source")
           m == Len(outbox) + 1
<1>0. Tables /\ KeysMatch /\ SagasBooked /\ EventsDone /\ Book(accounts, transactions)
  BY DEF IInv
<1>1. /\ e \in DOMAIN outbox /\ ~outbox[e].processed /\ outbox[e] \in Event /\ i \in DOMAIN sagas
      /\ left' \in [Pass -> 0..Limit]
  BY EventTaken DEF GiveUp
<1>2. outbox[e].step = "destination_credit" /\ outbox[e].attempts < MaxAttempts
  BY <1>0, <1>1 DEF GiveUp, EventsDone
<1>3. sagas' = [sagas EXCEPT ![i] = row] /\ outbox' = Append(replaced, new)
      /\ UNCHANGED <<book, idempotencyKeys, transferKeys, answers>>
  BY DEF GiveUp, GivenUp
<1>4. /\ row \in SagaRow /\ row.key = sagas[i].key /\ row.transfer = sagas[i].transfer
      /\ row.status = "failed" /\ row.arrival = sagas[i].arrival /\ row.refund = sagas[i].refund
  <2>1. sagas[i] \in SagaRow
    BY <1>1, AmountFacts
  <2>2. \A x \in SagaRow :
          LET z == [x EXCEPT !.status = "failed"] IN
          /\ z \in SagaRow /\ z.key = x.key /\ z.transfer = x.transfer
          /\ z.status = "failed" /\ z.arrival = x.arrival /\ z.refund = x.refund
    BY DEF SagaRow, Status
  <2> QED
    BY <2>1, <2>2
<1>5. done \in Event /\ done.saga = i /\ done.processed
  BY <1>1, <1>2, EventProcessed
<1>6. new \in Event /\ new.saga = i /\ new.step = "compensate_source" /\ ~new.processed
  <2>1. i \in Nat
    BY <1>1 DEF Event
  <2> QED
    BY <2>1, NewEventFacts DEF Step
<1> HIDE DEF e, i, row, done, new
<1>7. /\ sagas' \in Seq(SagaRow) /\ DOMAIN sagas' = DOMAIN sagas /\ sagas'[i] = row
      /\ \A j \in DOMAIN sagas : j # i => sagas'[j] = sagas[j]
  BY <1>0, <1>1, <1>3, <1>4, Replaced DEF Tables
<1>8. /\ replaced \in Seq(Event) /\ Len(replaced) = Len(outbox) /\ DOMAIN replaced = DOMAIN outbox
      /\ replaced[e] = done
      /\ \A f \in DOMAIN outbox : f # e => replaced[f] = outbox[f]
  BY <1>0, <1>1, <1>5, Replaced DEF Tables
<1> HIDE DEF replaced
<1>9. /\ outbox' \in Seq(Event) /\ DOMAIN outbox' = DOMAIN outbox \cup {m} /\ m \notin DOMAIN outbox
      /\ outbox'[m] = new /\ outbox'[e] = done
      /\ \A f \in DOMAIN outbox : f # e => outbox'[f] = outbox[f]
  <2>1. /\ outbox' \in Seq(Event) /\ DOMAIN outbox' = DOMAIN replaced \cup {m} /\ m \notin DOMAIN replaced
        /\ outbox'[m] = new /\ \A f \in DOMAIN replaced : outbox'[f] = replaced[f]
    BY <1>3, <1>6, <1>8, Appended
  <2> QED
    BY <1>1, <1>8, <2>1
<1> HIDE DEF m
<1>10. Tables'
  BY <1>0, <1>1, <1>3, <1>7, <1>9 DEF Tables
<1>11. \A f \in DOMAIN outbox : outbox[f].saga \in DOMAIN sagas
  BY <1>0 DEF KeysMatch
<1>12. i = outbox[e].saga
  BY DEF i
<1>13. \A f \in DOMAIN outbox' : ~outbox'[f].processed =>
         \/ f = m
         \/ /\ f \in DOMAIN outbox /\ f # e /\ outbox'[f] = outbox[f] /\ outbox[f].saga # i
            /\ sagas'[outbox[f].saga] = sagas[outbox[f].saga]
  <2> SUFFICES ASSUME NEW f \in DOMAIN outbox', ~outbox'[f].processed, f # m
               PROVE  /\ f \in DOMAIN outbox /\ f # e /\ outbox'[f] = outbox[f] /\ outbox[f].saga # i
                      /\ sagas'[outbox[f].saga] = sagas[outbox[f].saga]
    OBVIOUS
  <2>1. f \in DOMAIN outbox /\ f # e /\ outbox'[f] = outbox[f]
    BY <1>5, <1>9
  <2>2. outbox[f].saga # i
    BY <1>0, <1>1, <1>11, <1>12, <2>1 DEF EventsDone, Waits
  <2> QED
    BY <1>7, <1>11, <2>1, <2>2
<1>14. \A f, j : Waits(f, j)' <=> (Waits(f, j) /\ j # i) \/ (f = m /\ j = i)
  <2>1. \A f : Waits(f, i) => f = e
    BY <1>0, <1>1, <1>12 DEF EventsDone, Waits
  <2> QED
    BY <1>5, <1>6, <1>9, <1>12, <1>13, <2>1 DEF Waits
<1>15. \A f \in DOMAIN outbox' : ~outbox'[f].processed =>
       /\ outbox'[f].step = "destination_credit" => sagas'[outbox'[f].saga].status = "pending"
       /\ outbox'[f].step = "compensate_source" => sagas'[outbox'[f].saga].status = "failed"
       /\ outbox'[f].step = "destination_credit" => outbox'[f].attempts < MaxAttempts
  BY <1>0, <1>4, <1>6, <1>7, <1>9, <1>13 DEF EventsDone
<1>16. \A j \in DOMAIN sagas' :
       /\ sagas'[j].status \in {"pending", "failed"} => \E f : Waits(f, j)'
       /\ \A f, g : Waits(f, j)' /\ Waits(g, j)' => f = g
  <2> SUFFICES ASSUME NEW j \in DOMAIN sagas'
               PROVE  /\ sagas'[j].status \in {"pending", "failed"} => \E f : Waits(f, j)'
                      /\ \A f, g : Waits(f, j)' /\ Waits(g, j)' => f = g
    OBVIOUS
  <2>1. CASE j = i
    <3>1. \A f : Waits(f, j)' <=> f = m
      BY <1>14, <2>1
    <3> QED
      BY <3>1
  <2>2. CASE j # i
    <3>1. \A f : Waits(f, j)' <=> Waits(f, j)
      BY <1>14, <2>2
    <3>2. j \in DOMAIN sagas /\ sagas'[j] = sagas[j]
      BY <1>7, <2>2
    <3> QED
      BY <1>0, <3>1, <3>2 DEF EventsDone
  <2> QED
    BY <2>1, <2>2
<1>17. EventsDone'
  BY <1>15, <1>16 DEF EventsDone
<1>18. \A j \in DOMAIN sagas :
         /\ sagas'[j].key = sagas[j].key /\ sagas'[j].transfer = sagas[j].transfer
         /\ sagas'[j].arrival = sagas[j].arrival /\ sagas'[j].refund = sagas[j].refund
  BY <1>4, <1>7
<1>19. \A f \in DOMAIN outbox' : outbox'[f].saga \in DOMAIN sagas
  BY <1>1, <1>5, <1>6, <1>9, <1>11
<1>20. KeysMatch'
  BY <1>0, <1>3, <1>7, <1>18, <1>19, KeysKept
<1>21. Book(accounts, transactions)' /\ SagasBooked'
  BY <1>0, <1>3, <1>7, <1>18, BookKept DEF SagasBooked, Accepted, book
<1>22. AnswersRecorded' /\ KeysAnswered'
  BY <1>3, <1>18, AnswersKept DEF IInv
<1> QED
  BY <1>10, <1>17, <1>20, <1>21, <1>22, IInvNext

-----------------------------------------------------------------------------
(* Requests.                                                               *)

\* An account is opened.
LEMMA AccountKeeps ==
  ASSUME IInv, NEW a \in ClientIds, CreateAccountInLedger(a)
  PROVE  IInv'
<1>0. Tables /\ KeysMatch /\ SagasBooked /\ EventsDone /\ Book(accounts, transactions)
  BY DEF IInv
<1>1. /\ a \in AccountId \ DOMAIN accounts /\ accounts' = Bind(accounts, a, 0)
      /\ UNCHANGED <<transactions, idempotencyKeys, sagas, transferKeys, outbox, left, answers>>
  BY DEF CreateAccountInLedger, ClientIds
<1>2. Book(accounts', transactions')
  BY <1>0, <1>1, BookOpened
<1>3. Book(accounts, transactions)'
  BY <1>2 DEF Book, Running, OfLedger
<1>4. DOMAIN accounts \subseteq DOMAIN accounts'
  BY <1>1 DEF Bind
<1>5. SagasBooked'
  BY <1>0, <1>1, <1>4 DEF SagasBooked, Accepted
<1>6. Tables' /\ KeysMatch'
  BY <1>0, <1>1 DEF Tables, KeysMatch
<1>7. EventsDone'
  BY <1>0, <1>1 DEF EventsDone, Waits
<1>8. AnswersRecorded' /\ KeysAnswered'
  BY <1>1, AnswersKept DEF IInv
<1> QED
  BY <1>3, <1>5, <1>6, <1>7, <1>8, IInvNext

\* All accounts of a posting that is accepted are of one ledger.
LEMMA OneLedger ==
  ASSUME Book(accounts, transactions), NEW entries, Postable(entries)
  PROVE  \E l : \A a \in AccountsOf(entries) : LedgerOf[a] = l
<1> DEFINE S == AccountsOf(entries)
           T == {LedgerOf[a] : a \in S}
           f == [a \in S |-> LedgerOf[a]]
<1>1. IsFiniteSet(S)
  <2>1. S \in SUBSET AccountId
    BY DEF Postable, Book
  <2> QED
    BY <2>1, RequestAssumption, FS_Subset
<1>2. f \in Surjection(S, T)
  BY DEF Surjection
<1>3. IsFiniteSet(T)
  BY <1>1, <1>2, FS_Surjection
<1>4. Cardinality(T) = 1
  BY DEF Postable
<1>5. PICK l : T = {l}
  <2> HIDE DEF T
  <2> QED
    BY <1>3, <1>4, FS_Singleton
<1> QED
  BY <1>5

\* The outcomes that are answered.
LEMMA Answered ==
  ASSUME NEW outcome \in {"created", "existing", "conflict", "refused"}, NEW success,
         StatusOf(outcome, success) # 400
  PROVE  \/ outcome = "created" /\ StatusOf(outcome, success) = success
         \/ outcome = "existing" /\ StatusOf(outcome, success) = 200
         \/ outcome = "conflict" /\ StatusOf(outcome, success) = 409
  BY DEF StatusOf

\* POST /transactions.
LEMMA TransactionKeeps ==
  ASSUME IInv, NEW r \in Postings, CreateTransactionHandler(r)
  PROVE  IInv'
<1> DEFINE k == PostingKey(r)
           sum == Checksum(r.entries)
           status == StatusOf(TransactionOutcome(k, r.entries), 201)
           ref == IF k \in DOMAIN idempotencyKeys THEN idempotencyKeys[k].transaction
                  ELSE Len(transactions) + 1
           answer == [route |-> "transactions", key |-> k, request |-> sum, status |-> status,
                      ref |-> IF status = 409 THEN 0 ELSE ref]
<1>0. /\ Tables /\ KeysMatch /\ SagasBooked /\ EventsDone /\ Book(accounts, transactions)
      /\ AnswersRecorded /\ KeysAnswered
  BY DEF IInv
<1>1. k \in Key \cup {NoKey} /\ DOMAIN idempotencyKeys \subseteq Key /\ NoKey \notin Key
  BY <1>0, MemoryAssumption DEF PostingKey, Tables
<1>x. PICK x : x = answer
  <2> HIDE DEF answer
  <2> QED
    OBVIOUS
<1>2. /\ answers' = answers \cup {x} /\ status # 400 /\ UNCHANGED <<sagas, transferKeys, outbox, left>>
      /\ CreateTransaction(k, r.entries)
  BY <1>x DEF CreateTransactionHandler, Respond
<1>3. TransactionOutcome(k, r.entries) \in {"created", "existing", "conflict", "refused"}
  BY DEF TransactionOutcome
<1>4. KeysMatch'
  BY <1>0, <1>2 DEF KeysMatch
<1>5. EventsDone'
  BY <1>0, <1>2 DEF EventsDone, Waits
<1>6. CASE TransactionOutcome(k, r.entries) \in {"existing", "conflict"}
  <2>1. UNCHANGED <<book, idempotencyKeys>>
    BY <1>2, <1>6 DEF CreateTransaction
  <2>2. /\ k \in DOMAIN idempotencyKeys
        /\ \/ status = 200 /\ idempotencyKeys[k].checksum = sum
           \/ status = 409 /\ idempotencyKeys[k].checksum # sum
    BY <1>6 DEF TransactionOutcome, SameRequest, StatusOf
  <2>3. Recorded(x)'
    <3>1. x = [route |-> x.route, key |-> x.key, request |-> x.request, status |-> x.status, ref |-> x.ref]
          /\ x.route = "transactions" /\ x.key = k
      BY <1>x
    <3>2. Told(x, 201, idempotencyKeys[k].checksum, idempotencyKeys[k].transaction)
      BY <1>x, <2>2 DEF Told
    <3>3. idempotencyKeys' = idempotencyKeys
      BY <2>1
    <3> HIDE DEF k, status
    <3> QED
      BY <2>2, <3>1, <3>2, <3>3 DEF Recorded, Told
  <2> HIDE DEF k, status
  <2>4. AnswersRecorded' /\ KeysAnswered'
    BY <1>0, <1>2, <2>1, <2>3, AnswerAdded
  <2>5. Book(accounts, transactions)' /\ SagasBooked'
    BY <1>0, <1>2, <2>1, BookKept DEF SagasBooked, Accepted, book
  <2>6. Tables'
    BY <1>0, <1>2, <2>1 DEF Tables
  <2> QED
    BY <1>4, <1>5, <2>4, <2>5, <2>6, IInvNext
<1>7. CASE TransactionOutcome(k, r.entries) = "created"
  <2>1. k \notin DOMAIN idempotencyKeys /\ Postable(r.entries) /\ status = 201
    BY <1>7 DEF TransactionOutcome, StatusOf
  <2>2. AppendTransaction(accounts, r.entries)
    BY <1>2, <1>7 DEF CreateTransaction
  <2>3. idempotencyKeys' =
          IF k = NoKey THEN idempotencyKeys
          ELSE Bind(idempotencyKeys, k, [transaction |-> Len(transactions) + 1, checksum |-> sum])
    BY <1>2, <1>7 DEF CreateTransaction
  <2>4. /\ \A j \in DOMAIN idempotencyKeys :
             j \in DOMAIN idempotencyKeys' /\ idempotencyKeys'[j] = idempotencyKeys[j]
        /\ \A j \in DOMAIN idempotencyKeys' \ DOMAIN idempotencyKeys : j = k
        /\ k # NoKey => /\ k \in DOMAIN idempotencyKeys' /\ idempotencyKeys'[k].checksum = sum
                        /\ idempotencyKeys'[k].transaction = Len(transactions) + 1
        /\ DOMAIN idempotencyKeys' \subseteq Key
    <3> HIDE DEF k, sum
    <3> QED
      BY <1>1, <2>1, <2>3 DEF Bind
  <2>5. Recorded(x)'
    <3>1. x = [route |-> x.route, key |-> x.key, request |-> x.request, status |-> x.status, ref |-> x.ref]
          /\ x.route = "transactions" /\ x.key = k
      BY <1>x
    <3>2. k # NoKey => Told(x, 201, idempotencyKeys'[k].checksum, idempotencyKeys'[k].transaction)
      <4>1. x.status = 201 /\ x.request = sum /\ x.ref = Len(transactions) + 1
        BY <1>x, <2>1
      <4> HIDE DEF k, status, sum
      <4> QED
        BY <2>4, <4>1 DEF Told
    <3> HIDE DEF k, status
    <3> QED
      BY <2>4, <3>1, <3>2 DEF Recorded, Told
  <2>6. x.route = "transactions" /\ x.key = k /\ x.status = 201
    BY <1>x, <2>1
  <2>7. \A j \in DOMAIN idempotencyKeys' \ DOMAIN idempotencyKeys :
          x.route = "transactions" /\ x.key = j /\ x.status = 201
    BY <2>4, <2>6
  <2> HIDE DEF k, status
  <2>8. AnswersRecorded' /\ KeysAnswered'
    BY <1>0, <1>2, <2>4, <2>5, <2>7, AnswerAdded
  <2>9. /\ Book(accounts, transactions)' /\ DOMAIN accounts' = DOMAIN accounts
        /\ Len(transactions) \in Nat /\ Len(transactions') = Len(transactions) + 1
    <3>1. PICK l : \A a \in AccountsOf(r.entries) : LedgerOf[a] = l
      BY <1>0, <2>1, OneLedger
    <3>2. r.entries \in Seq(Entry) /\ ValidateTransaction(r.entries) /\ AccountsOf(r.entries) \subseteq DOMAIN accounts
      BY <2>1, RequestAssumption DEF Postable
    <3>3. Book(Updated(accounts, r.entries), Append(transactions, r.entries))
      BY <1>0, <3>1, <3>2, BookPosted
    <3>4. accounts' = Updated(accounts, r.entries) /\ transactions' = Append(transactions, r.entries)
      BY <2>2 DEF AppendTransaction
    <3>5. Book(accounts', transactions')
      BY <3>3, <3>4
    <3>6. Book(accounts, transactions)'
      BY <3>5 DEF Book, Running, OfLedger
    <3>7. Len(transactions) \in Nat /\ Len(transactions') = Len(transactions) + 1
      BY <1>0, <3>2, <3>4, Appended DEF Book
    <3> QED
      BY <3>4, <3>6, <3>7 DEF Updated
  <2>10. SagasBooked'
    BY <1>0, <1>2, <2>9, BookedKept
  <2>11. Tables'
    BY <1>0, <1>2, <2>4 DEF Tables
  <2> QED
    BY <1>4, <1>5, <2>8, <2>9, <2>10, <2>11, IInvNext
<1> QED
  BY <1>2, <1>3, <1>6, <1>7, Answered

\* A saga and its first event are added under a new key.
LEMMA SagaAdded ==
  ASSUME Tables, KeysMatch, EventsDone, NEW k \in Key, k \notin DOMAIN transferKeys,
         NEW t \in TransferTerms, NEW n, n = Len(sagas) + 1,
         sagas' = Append(sagas, [key |-> k, transfer |-> t, status |-> "pending", arrival |-> 0, refund |-> 0]),
         transferKeys' = Bind(transferKeys, k, n),
         outbox' = Append(outbox, NewEvent(n, "destination_credit")),
         UNCHANGED <<idempotencyKeys, left>>
  PROVE  /\ Tables' /\ KeysMatch' /\ EventsDone'
         /\ n \notin DOMAIN sagas /\ DOMAIN sagas' = DOMAIN sagas \cup {n}
         /\ sagas'[n] = [key |-> k, transfer |-> t, status |-> "pending", arrival |-> 0, refund |-> 0]
         /\ \A i \in DOMAIN sagas : sagas'[i] = sagas[i]
<1> DEFINE row == [key |-> k, transfer |-> t, status |-> "pending", arrival |-> 0, refund |-> 0]
           new == NewEvent(n, "destination_credit")
<1>m. PICK m : m = Len(outbox) + 1
  OBVIOUS
<1>1. row \in SagaRow /\ row.key = k /\ row.status = "pending"
  BY DEF SagaRow, Status
<1> HIDE DEF row
<1>2. /\ sagas' \in Seq(SagaRow) /\ DOMAIN sagas' = DOMAIN sagas \cup {n} /\ n \notin DOMAIN sagas
      /\ sagas'[n] = row /\ \A i \in DOMAIN sagas : sagas'[i] = sagas[i]
  <2>1. sagas' = Append(sagas, row)
    BY DEF row
  <2> QED
    BY <1>1, <2>1, Appended DEF Tables
<1>3. n \in Nat
  BY TableFacts
<1>4. /\ new \in Event /\ new.saga = n /\ new.step = "destination_credit" /\ ~new.processed
      /\ new.attempts < MaxAttempts
  BY <1>3, NewEventFacts DEF Step
<1> HIDE DEF new
<1>5. /\ outbox' \in Seq(Event) /\ DOMAIN outbox' = DOMAIN outbox \cup {m} /\ m \notin DOMAIN outbox
      /\ outbox'[m] = new /\ \A f \in DOMAIN outbox : outbox'[f] = outbox[f]
  <2>1. outbox' = Append(outbox, new)
    BY DEF new
  <2> QED
    BY <1>m, <1>4, <2>1, Appended DEF Tables
<1>6. Tables'
  BY <1>2, <1>5 DEF Tables
<1>7. /\ DOMAIN transferKeys' = DOMAIN transferKeys \cup {k} /\ transferKeys'[k] = n
      /\ \A j \in DOMAIN transferKeys : transferKeys'[j] = transferKeys[j]
  BY DEF Bind
<1>8. KeysMatch'
  <2>1. ASSUME NEW j \in DOMAIN transferKeys'
        PROVE  transferKeys'[j] \in DOMAIN sagas' /\ sagas'[transferKeys'[j]].key = j
    <3>1. CASE j = k
      BY <1>1, <1>2, <1>7, <3>1
    <3>2. CASE j # k
      <4>1. j \in DOMAIN transferKeys /\ transferKeys'[j] = transferKeys[j]
        BY <1>7, <3>2
      <4>2. transferKeys[j] \in DOMAIN sagas /\ sagas[transferKeys[j]].key = j
        BY <4>1 DEF KeysMatch
      <4> QED
        BY <1>2, <4>1, <4>2
    <3> QED
      BY <3>1, <3>2
  <2>2. \A i \in DOMAIN sagas' :
          sagas'[i].key \in DOMAIN transferKeys' /\ transferKeys'[sagas'[i].key] = i
    BY <1>1, <1>2, <1>7 DEF KeysMatch
  <2>3. \A f \in DOMAIN outbox' : outbox'[f].saga \in DOMAIN sagas'
    BY <1>2, <1>4, <1>5 DEF KeysMatch
  <2>4. DOMAIN transferKeys' \subseteq Key
    BY <1>7 DEF KeysMatch
  <2> QED
    BY <2>1, <2>2, <2>3, <2>4 DEF KeysMatch
<1>9. \A f \in DOMAIN outbox : outbox[f].saga \in DOMAIN sagas /\ outbox[f].saga # n
  BY <1>2 DEF KeysMatch
<1>10. \A f, j : Waits(f, j)' <=> Waits(f, j) \/ (f = m /\ j = n)
  BY <1>4, <1>5 DEF Waits
<1>11. \A f : ~Waits(f, n)
  BY <1>9 DEF Waits
<1>12. \A f \in DOMAIN outbox' : ~outbox'[f].processed =>
       /\ outbox'[f].step = "destination_credit" => sagas'[outbox'[f].saga].status = "pending"
       /\ outbox'[f].step = "compensate_source" => sagas'[outbox'[f].saga].status = "failed"
       /\ outbox'[f].step = "destination_credit" => outbox'[f].attempts < MaxAttempts
  BY <1>1, <1>2, <1>4, <1>5, <1>9 DEF EventsDone
<1>13. \A j \in DOMAIN sagas' :
       /\ sagas'[j].status \in {"pending", "failed"} => \E f : Waits(f, j)'
       /\ \A f, g : Waits(f, j)' /\ Waits(g, j)' => f = g
  <2> SUFFICES ASSUME NEW j \in DOMAIN sagas'
               PROVE  /\ sagas'[j].status \in {"pending", "failed"} => \E f : Waits(f, j)'
                      /\ \A f, g : Waits(f, j)' /\ Waits(g, j)' => f = g
    OBVIOUS
  <2>1. CASE j = n
    <3>1. \A f : Waits(f, j)' <=> f = m
      BY <1>10, <1>11, <2>1
    <3> QED
      BY <3>1
  <2>2. CASE j # n
    <3>1. \A f : Waits(f, j)' <=> Waits(f, j)
      BY <1>10, <2>2
    <3>2. j \in DOMAIN sagas /\ sagas'[j] = sagas[j]
      BY <1>2, <2>2
    <3> QED
      BY <3>1, <3>2 DEF EventsDone
  <2> QED
    BY <2>1, <2>2
<1>14. EventsDone'
  BY <1>12, <1>13 DEF EventsDone
<1> QED
  BY <1>2, <1>6, <1>8, <1>14 DEF row

\* What CreateTransfer found when it accepted a transfer.
LEMMA TransferAccepted ==
  ASSUME IInv, NEW r \in Transfers, NEW k, TransferOutcome(k, TransferOf(r)) = "created"
  PROVE  /\ k # NoKey /\ k \notin DOMAIN transferKeys /\ Accepted(accounts, TransferOf(r))
         /\ TransferOf(r) \in TransferTerms /\ TransferOf(r).amount \in Int
         /\ Transferable(TransferOf(r))
<1>1. ValidateTransfer(k, TransferOf(r)) /\ k \notin DOMAIN transferKeys /\ Transferable(TransferOf(r))
  BY DEF TransferOutcome
<1>2. TransferOf(r) \in TransferTerms /\ TransferOf(r).amount \in Int
  BY RequestAssumption DEF TransferTerms, TransferOf
<1> QED
  BY <1>1, <1>2 DEF ValidateTransfer, Transferable, Accepted

\* POST /transfers.
LEMMA TransferKeeps ==
  ASSUME IInv, NEW r \in Transfers, CreateTransferHandler(r)
  PROVE  IInv'
<1> DEFINE k == TransferKey(r)
           t == TransferOf(r)
           status == StatusOf(TransferOutcome(k, t), 202)
           n == Len(sagas) + 1
           ref == IF k \in DOMAIN transferKeys THEN transferKeys[k] ELSE n
           answer == [route |-> "transfers", key |-> k, request |-> t, status |-> status,
                      ref |-> IF status = 409 THEN 0 ELSE ref]
<1>0. /\ Tables /\ KeysMatch /\ SagasBooked /\ EventsDone /\ Book(accounts, transactions)
      /\ AnswersRecorded /\ KeysAnswered
  BY DEF IInv
<1>1. k \in Key \cup {NoKey}
  BY MemoryAssumption DEF TransferKey
<1>x. PICK x : x = answer
  <2> HIDE DEF answer
  <2> QED
    OBVIOUS
<1>2. /\ answers' = answers \cup {x} /\ status # 400 /\ UNCHANGED <<idempotencyKeys, left>>
      /\ CreateTransfer(k, t)
  BY <1>x DEF CreateTransferHandler, Respond
<1>3. TransferOutcome(k, t) \in {"created", "existing", "conflict", "refused"}
  BY DEF TransferOutcome
<1>4. /\ x = [route |-> x.route, key |-> x.key, request |-> x.request, status |-> x.status, ref |-> x.ref]
      /\ x.route = "transfers" /\ x.key = k /\ x.request = t /\ x.status = status
      /\ status # 409 => x.ref = ref
  BY <1>x
<1> HIDE DEF t
<1>5. CASE TransferOutcome(k, t) \in {"existing", "conflict"}
  <2>1. UNCHANGED <<book, sagas, transferKeys, outbox>>
    BY <1>2, <1>5 DEF CreateTransfer
  <2>2. /\ k \in DOMAIN transferKeys
        /\ \/ status = 200 /\ sagas[transferKeys[k]].transfer = t
           \/ status = 409 /\ sagas[transferKeys[k]].transfer # t
    BY <1>5 DEF TransferOutcome, StatusOf
  <2>3. Recorded(x)'
    <3>1. Told(x, 202, sagas[transferKeys[k]].transfer, transferKeys[k])
      BY <1>4, <2>2 DEF Told
    <3> HIDE DEF k, status
    <3> QED
      BY <1>4, <2>1, <2>2, <3>1 DEF Recorded, Told
  <2> HIDE DEF k, status
  <2>4. AnswersRecorded' /\ KeysAnswered'
    BY <1>0, <1>2, <2>1, <2>3, AnswerAdded
  <2>5. Book(accounts, transactions)' /\ SagasBooked' /\ KeysMatch'
    BY <1>0, <2>1, BookKept DEF SagasBooked, Accepted, KeysMatch, book
  <2>6. Tables' /\ EventsDone'
    BY <1>0, <1>2, <2>1 DEF Tables, EventsDone, Waits
  <2> QED
    BY <2>4, <2>5, <2>6, IInvNext
<1>6. CASE TransferOutcome(k, t) = "created"
  <2> DEFINE row == [key |-> k, transfer |-> t, status |-> "pending", arrival |-> 0, refund |-> 0]
  <2>1. /\ k \in Key /\ k \notin DOMAIN transferKeys /\ Accepted(accounts, t)
        /\ t \in TransferTerms /\ t.amount \in Int
    BY <1>1, <1>6, TransferAccepted DEF t
  <2>2. status = 202
    BY <1>6 DEF StatusOf
  <2>3. /\ sagas' = Append(sagas, row) /\ transferKeys' = Bind(transferKeys, k, n)
        /\ outbox' = Append(outbox, NewEvent(n, "destination_credit"))
    BY <1>2, <1>6 DEF CreateTransfer
  <2>4. AppendTransaction(WithClearing(t.sourceLedger),
          <<Credit(t.source, t.amount), Debit(Clearing[t.sourceLedger], t.amount)>>)
    BY <1>2, <1>6 DEF CreateTransfer
  <2> HIDE DEF k, status
  <2>5. /\ Tables' /\ KeysMatch' /\ EventsDone'
        /\ n \notin DOMAIN sagas /\ DOMAIN sagas' = DOMAIN sagas \cup {n}
        /\ sagas'[n] = row
        /\ \A i \in DOMAIN sagas : sagas'[i] = sagas[i]
    BY <1>0, <1>2, <2>1, <2>3, SagaAdded
  <2>6. /\ Book(accounts, transactions)' /\ DOMAIN accounts \subseteq DOMAIN accounts'
        /\ Len(transactions) \in Nat /\ Len(transactions') = Len(transactions) + 1
    <3>1. t.source \in DOMAIN accounts /\ LedgerOf[t.source] = t.sourceLedger /\ t.amount > 0
      BY <2>1 DEF Accepted
    <3> QED
      BY <1>0, <2>1, <2>4, <3>1, LegPosted
  <2>7. SagasBooked'
    <3> SUFFICES ASSUME NEW i \in DOMAIN sagas'
                 PROVE  /\ Accepted(accounts', sagas'[i].transfer)
                        /\ sagas'[i].arrival <= Len(transactions') /\ sagas'[i].refund <= Len(transactions')
      BY DEF SagasBooked, Accepted
    <3>1. CASE i = n
      <4>1. Accepted(accounts', t)
        BY <2>1, <2>6 DEF Accepted
      <4> QED
        BY <2>5, <2>6, <3>1, <4>1
    <3>2. CASE i # n
      <4>1. i \in DOMAIN sagas /\ sagas'[i] = sagas[i] /\ sagas[i] \in SagaRow
        BY <1>0, <2>5, <3>2, TableFacts
      <4>2. sagas[i].arrival \in Nat /\ sagas[i].refund \in Nat
        BY <4>1 DEF SagaRow
      <4>3. /\ Accepted(accounts, sagas[i].transfer)
            /\ sagas[i].arrival <= Len(transactions) /\ sagas[i].refund <= Len(transactions)
        BY <1>0, <4>1 DEF SagasBooked
      <4>4. Accepted(accounts', sagas'[i].transfer)
        BY <2>6, <4>1, <4>3 DEF Accepted
      <4> QED
        BY <2>6, <4>1, <4>2, <4>3, <4>4
    <3> QED
      BY <3>1, <3>2
  <2>8. /\ DOMAIN transferKeys' = DOMAIN transferKeys \cup {k} /\ transferKeys'[k] = n
        /\ \A j \in DOMAIN transferKeys : transferKeys'[j] = transferKeys[j]
    BY <2>1, <2>3 DEF Bind
  <2>9. Recorded(x)'
    <3>1. x.ref = n /\ x.status = 202
      BY <1>4, <2>1, <2>2
    <3>2. sagas'[transferKeys'[k]].transfer = t
      BY <2>5, <2>8
    <3>3. Told(x, 202, sagas'[transferKeys'[k]].transfer, transferKeys'[k])
      BY <1>4, <2>8, <3>1, <3>2 DEF Told
    <3> HIDE DEF n, row
    <3> QED
      BY <1>4, <2>8, <3>3 DEF Recorded, Told
  <2>10. \A j \in DOMAIN transferKeys' \ DOMAIN transferKeys :
           x.route = "transfers" /\ x.key = j /\ x.status = 202
    BY <1>4, <2>2, <2>8
  <2> HIDE DEF n, row
  <2>11. AnswersRecorded' /\ KeysAnswered'
    BY <1>0, <1>2, <2>5, <2>8, <2>9, <2>10, AnswerAdded
  <2> QED
    BY <2>5, <2>6, <2>7, <2>11, IInvNext
<1> QED
  BY <1>2, <1>3, <1>5, <1>6, Answered

-----------------------------------------------------------------------------
(* The invariant and what follows from it.                                 *)

\* The store starts empty.
LEMMA InitIInv == Init => IInv
<1> SUFFICES ASSUME Init PROVE IInv
  OBVIOUS
<1>1. /\ DOMAIN accounts = {} /\ DOMAIN idempotencyKeys = {} /\ DOMAIN transferKeys = {}
      /\ transactions = <<>> /\ sagas = <<>> /\ outbox = <<>> /\ answers = {}
  BY DEF Init, Empty
<1>2. DOMAIN transactions = {} /\ DOMAIN sagas = {} /\ DOMAIN outbox = {}
  <2>1. DOMAIN <<>> = {}
    OBVIOUS
  <2> QED
    BY <1>1, <2>1
<1>3. Tables
  <2>1. left \in [Pass -> 0..Limit]
    BY MemoryAssumption DEF Init
  <2>2. sagas \in Seq(SagaRow) /\ outbox \in Seq(Event)
    BY <1>1, EmptySeq
  <2> QED
    BY <1>1, <2>1, <2>2 DEF Tables
<1>4. Book(accounts, transactions)
  <2>1. \A l : OfLedger(accounts, l) = {}
    BY <1>1 DEF OfLedger
  <2>2. transactions \in Seq(Seq(Entry))
    BY <1>1, EmptySeq
  <2> QED
    BY <1>1, <1>2, <2>1, <2>2, SumEmpty DEF Book
<1>5. KeysMatch /\ SagasBooked /\ EventsDone /\ AnswersRecorded /\ KeysAnswered
  BY <1>1, <1>2 DEF KeysMatch, SagasBooked, EventsDone, AnswersRecorded, KeysAnswered
<1> QED
  BY <1>3, <1>4, <1>5 DEF IInv

\* Nothing happens.
LEMMA StutterKeeps ==
  ASSUME IInv, UNCHANGED vars
  PROVE  IInv'
<1>1. UNCHANGED <<book, idempotencyKeys, sagas, transferKeys, outbox, left, answers>>
  BY DEF vars
<1>2. Book(accounts, transactions)'
  BY <1>1, BookKept DEF IInv
<1>3. Tables' /\ KeysMatch' /\ SagasBooked'
  BY <1>1 DEF IInv, Tables, KeysMatch, SagasBooked, Accepted, book
<1>4. EventsDone'
  BY <1>1 DEF IInv, EventsDone, Waits
<1>5. AnswersRecorded' /\ KeysAnswered'
  BY <1>1, AnswersKept DEF IInv
<1> QED
  BY <1>2, <1>3, <1>4, <1>5, IInvNext

\* Every step keeps the invariant.
LEMMA NextKeeps == IInv /\ [Next]_vars => IInv'
<1> SUFFICES ASSUME IInv, [Next]_vars PROVE IInv'
  OBVIOUS
<1>1. ASSUME NEW a \in ClientIds, CreateAccountInLedger(a) PROVE IInv'
  BY <1>1, AccountKeeps
<1>2. ASSUME NEW r \in Postings, CreateTransactionHandler(r) PROVE IInv'
  BY <1>2, TransactionKeeps
<1>3. ASSUME NEW r \in Transfers, CreateTransferHandler(r) PROVE IInv'
  BY <1>3, TransferKeeps
<1>4. ASSUME NEW p \in Pass, PassStep(p) PROVE IInv'
  BY <1>4, StartPassKeeps, CreditKeeps, CompensateKeeps, RetryKeeps, GiveUpKeeps DEF PassStep
<1>5. ASSUME NEW e \in DOMAIN outbox, BackoffEnds(e) PROVE IInv'
  BY <1>5, BackoffKeeps
<1>6. CASE UNCHANGED vars
  BY <1>6, StutterKeeps
<1> QED
  BY <1>1, <1>2, <1>3, <1>4, <1>5, <1>6 DEF Next

\* IInv holds throughout, for any store, any requests and any number of passes
\* at the same time.
THEOREM Inductive == Spec => []IInv
  BY InitIInv, NextKeeps, PTL DEF Spec

\* The variables have their types: the journal holds valid transactions only,
\* keys and events name sagas that exist, and ProcessOutbox attempts no event
\* more than MaxAttempts times.
THEOREM TypeCorrect == Spec => []TypeOK
<1>1. IInv => TypeOK
  <2> SUFFICES ASSUME IInv PROVE TypeOK
    OBVIOUS
  <2>1. /\ DOMAIN accounts \subseteq AccountId /\ \A a \in DOMAIN accounts : accounts[a] \in Int
        /\ \A t \in DOMAIN transactions : ValidateTransaction(transactions[t])
        /\ Len(transactions) \in Nat
    BY RunningFacts DEF IInv, Book
  <2>2. \A i \in DOMAIN sagas :
          /\ sagas[i].key \in Key /\ sagas[i].status \in Status
          /\ {sagas[i].arrival, sagas[i].refund} \subseteq 0..Len(transactions)
    <3> SUFFICES ASSUME NEW i \in DOMAIN sagas
                 PROVE  /\ sagas[i].key \in Key /\ sagas[i].status \in Status
                        /\ {sagas[i].arrival, sagas[i].refund} \subseteq 0..Len(transactions)
      OBVIOUS
    <3>1. /\ sagas[i].key \in Key /\ sagas[i].status \in Status
          /\ sagas[i].arrival \in Nat /\ sagas[i].refund \in Nat
      BY AmountFacts DEF SagaRow
    <3>2. sagas[i].arrival <= Len(transactions) /\ sagas[i].refund <= Len(transactions)
      BY DEF IInv, SagasBooked
    <3> QED
      BY <2>1, <3>1, <3>2
  <2>3. /\ DOMAIN idempotencyKeys \subseteq Key /\ DOMAIN transferKeys \subseteq Key
        /\ \A k \in DOMAIN transferKeys : transferKeys[k] \in DOMAIN sagas
        /\ \A e \in DOMAIN outbox : outbox[e].saga \in DOMAIN sagas
        /\ left \in [Pass -> 0..Limit]
    BY DEF IInv, Tables, KeysMatch
  <2>4. \A e \in DOMAIN outbox : /\ outbox[e].step \in {"destination_credit", "compensate_source"}
                                 /\ outbox[e].attempts \in 0..MaxAttempts
    BY TableFacts DEF IInv, Event, Step
  <2> QED
    BY <2>1, <2>2, <2>3, <2>4 DEF TypeOK
<1> QED
  BY <1>1, Inductive, PTL

\* What GetBalance shows, what GetAccountEntries adds up and what the journal
\* holds agree for every account, and every ledger sums to zero: CreateTransfer
\* and ProcessOutbox post only balanced legs, whatever clients send.
THEOREM StatementsTrue == Spec => []StatementsAgree
<1>1. IInv => StatementsAgree
  <2> SUFFICES ASSUME IInv PROVE StatementsAgree
    OBVIOUS
  <2>1. \A a \in DOMAIN accounts : accounts[a] = RunningBalance(a)
    BY DEF IInv, Book, Running, RunningBalance
  <2>2. \A l \in Ledger : SumFunctionOnSet(accounts, {a \in DOMAIN accounts : LedgerOf[a] = l}) = 0
    BY DEF IInv, Book, OfLedger
  <2> QED
    BY <2>1, <2>2 DEF StatementsAgree, GetBalance
<1> QED
  BY <1>1, Inductive, PTL

\* ProcessOutbox has exactly what is left to do in the outbox: one open event
\* for every pending saga and every failed one, none for a settled one.
THEOREM EventsAreSagas == Spec => []EventsMatchSagas
<1>1. IInv => EventsMatchSagas
  <2> SUFFICES ASSUME IInv, NEW i \in DOMAIN sagas
               PROVE  LET open(step) == {e \in DOMAIN outbox :
                                           outbox[e].saga = i /\ outbox[e].step = step /\ ~outbox[e].processed}
                      IN
                      /\ Cardinality(open("destination_credit")) = IF sagas[i].status = "pending" THEN 1 ELSE 0
                      /\ Cardinality(open("compensate_source")) = IF sagas[i].status = "failed" THEN 1 ELSE 0
    BY DEF EventsMatchSagas
  <2> DEFINE open(step) == {e \in DOMAIN outbox :
                              outbox[e].saga = i /\ outbox[e].step = step /\ ~outbox[e].processed}
  <2>1. EventsDone /\ \A e \in DOMAIN outbox : outbox[e].step \in Step
    BY TableFacts DEF IInv, Event
  <2>2. ASSUME NEW step \in Step, NEW status,
               status = IF step = "destination_credit" THEN "pending" ELSE "failed"
        PROVE  Cardinality(open(step)) = IF sagas[i].status = status THEN 1 ELSE 0
    <3>1. CASE sagas[i].status = status
      <4>1. PICK e : Waits(e, i)
        BY <2>1, <2>2, <3>1 DEF EventsDone
      <4>2. outbox[e].step = step
        BY <2>1, <2>2, <3>1, <4>1 DEF EventsDone, Waits, Step
      <4>3. open(step) = {e}
        BY <2>1, <4>1, <4>2 DEF EventsDone, Waits
      <4> HIDE DEF open
      <4> QED
        BY <3>1, <4>3, FS_Singleton
    <3>2. CASE sagas[i].status # status
      <4>1. open(step) = {}
        BY <2>1, <2>2, <3>2 DEF EventsDone, Step
      <4> HIDE DEF open
      <4> QED
        BY <3>2, <4>1, FS_EmptySet
    <3> QED
      BY <3>1, <3>2
  <2>3. Cardinality(open("destination_credit")) = IF sagas[i].status = "pending" THEN 1 ELSE 0
    BY <2>2 DEF Step
  <2>4. Cardinality(open("compensate_source")) = IF sagas[i].status = "failed" THEN 1 ELSE 0
    BY <2>2 DEF Step
  <2> QED
    BY <2>3, <2>4
<1> QED
  BY <1>1, Inductive, PTL

\* The HTTP answers under one idempotency key never contradict each other.
THEOREM AnswersNeverDiffer == Spec => []AnswersAgree
<1>1. IInv => AnswersAgree
  <2> SUFFICES ASSUME IInv, NEW x \in answers, NEW y \in answers,
                      x.route = y.route, x.key = y.key, x.key # NoKey
               PROVE  /\ x.status \in {201, 202} /\ y.status \in {201, 202} => x = y
                      /\ x.status \in {201, 202} /\ y.status = 200 =>
                           y.ref = x.ref /\ y.request = x.request
                      /\ x.status \in {201, 202} /\ y.status = 409 => y.request # x.request
                      /\ x.status \in {200, 409} =>
                           \E z \in answers : z.route = x.route /\ z.key = x.key /\ z.status \in {201, 202}
    BY DEF AnswersAgree
  <2>1. Recorded(x) /\ Recorded(y) /\ KeysAnswered
    BY DEF IInv, AnswersRecorded
  <2>2. CASE x.route = "transactions"
    <3> DEFINE sum == idempotencyKeys[x.key].checksum
               ref == idempotencyKeys[x.key].transaction
    <3>1. x.key \in DOMAIN idempotencyKeys /\ Told(x, 201, sum, ref) /\ Told(y, 201, sum, ref)
      BY <2>1, <2>2 DEF Recorded
    <3>2. \E z \in answers : z.route = x.route /\ z.key = x.key /\ z.status \in {201, 202}
      BY <2>1, <2>2, <3>1 DEF KeysAnswered
    <3> HIDE DEF sum, ref
    <3>3. x.status \in {201, 202} /\ y.status \in {201, 202} => x = y
      <4> SUFFICES ASSUME x.status \in {201, 202}, y.status \in {201, 202} PROVE x = y
        OBVIOUS
      <4>1. x.status = y.status /\ x.request = y.request /\ x.ref = y.ref
        BY <3>1 DEF Told
      <4> QED
        BY <2>1, <4>1 DEF Recorded
    <3> QED
      BY <3>1, <3>2, <3>3 DEF Told
  <2>3. CASE x.route = "transfers"
    <3> DEFINE terms == sagas[transferKeys[x.key]].transfer
               ref == transferKeys[x.key]
    <3>1. x.key \in DOMAIN transferKeys /\ Told(x, 202, terms, ref) /\ Told(y, 202, terms, ref)
      BY <2>1, <2>3 DEF Recorded
    <3>2. \E z \in answers : z.route = x.route /\ z.key = x.key /\ z.status \in {201, 202}
      BY <2>1, <2>3, <3>1 DEF KeysAnswered
    <3> HIDE DEF terms, ref
    <3>3. x.status \in {201, 202} /\ y.status \in {201, 202} => x = y
      <4> SUFFICES ASSUME x.status \in {201, 202}, y.status \in {201, 202} PROVE x = y
        OBVIOUS
      <4>1. x.status = y.status /\ x.request = y.request /\ x.ref = y.ref
        BY <3>1 DEF Told
      <4> QED
        BY <2>1, <4>1 DEF Recorded
    <3> QED
      BY <3>1, <3>2, <3>3 DEF Told
  <2> QED
    BY <2>1, <2>2, <2>3 DEF Recorded
<1> QED
  BY <1>1, Inductive, PTL

-----------------------------------------------------------------------------
(* MemoryStore implements SagaSpec.                                        *)

\* Clients name accounts they opened: clearing accounts belong to the store.
ClientsOwnAccounts ==
  /\ \A r \in Postings : AccountsOf(r.entries) \subseteq ClientIds
  /\ \A r \in Transfers : r.source \in ClientIds /\ r.destination \in ClientIds

\* What the refinement shows of the store: an account that does not exist yet
\* holds nothing.
Balance(A, a) == IF a \in DOMAIN A THEN A[a] ELSE 0
Held(A) == [a \in ClearingIds |-> Balance(A, a)]

Funds == [a \in ClientIds |-> IF a \in DOMAIN accounts THEN accounts[a] ELSE 0]
Transit == SumFunctionOnSet(accounts, ClearingIds \cap DOMAIN accounts)
Terms == [i \in DOMAIN sagas |->
            [key |-> sagas[i].key, source |-> sagas[i].transfer.source,
             destination |-> sagas[i].transfer.destination,
             amount |-> sagas[i].transfer.amount, status |-> sagas[i].status]]

\* The sum over the clearing accounts that exist is the sum over all.
LEMMA TransitIsHeld ==
  ASSUME NEW A, NEW T, Book(A, T)
  PROVE  /\ IsFiniteSet(ClearingIds) /\ \A a : Balance(A, a) \in Int
         /\ SumFunctionOnSet(A, ClearingIds \cap DOMAIN A) = SumFunctionOnSet(Held(A), ClearingIds)
<1> DEFINE S == ClearingIds
           R == ClearingIds \cap DOMAIN A
           h == Held(A)
<1>1. IsFiniteSet(S)
  <2>1. S \in SUBSET AccountId
    BY MemoryAssumption DEF ClearingIds
  <2> QED
    BY <2>1, RequestAssumption, FS_Subset
<1>2. \A a : Balance(A, a) \in Int
  BY DEF Balance, Book
<1>3. R \in SUBSET S /\ \A a \in R : A[a] \in Int /\ h[a] = A[a]
  BY DEF Book, Held, Balance
<1>4. \A a \in S \ R : h[a] = 0
  BY DEF Held, Balance
<1>5. SumFunctionOnSet(h, S) = SumFunctionOnSet(A, R)
  <2> HIDE DEF S, R, h
  <2> QED
    BY <1>1, <1>3, <1>4, SumSelected
<1> QED
  BY <1>1, <1>2, <1>5

\* What a posting of two entries adds to an account.
LEMMA PairChange ==
  ASSUME NEW u \in Entry, NEW v \in Entry, NEW c
  PROVE  Change(<<u, v>>, c) = (IF u.account = c THEN u.debit - u.credit ELSE 0)
                               + (IF v.account = c THEN v.debit - v.credit ELSE 0)
<1> DEFINE s == <<u, v>>
           f == [i \in DOMAIN s |-> IF s[i].account = c THEN s[i].debit - s[i].credit ELSE 0]
<1>1. s \in Seq(Entry) /\ DOMAIN s = 1..2 /\ s[1] = u /\ s[2] = v
  OBVIOUS
<1>2. 1..2 = {1, 2}
  OBVIOUS
<1>3. Change(s, c) = SumFunctionOnSet(f, DOMAIN s)
  BY <1>1, ChangeFacts
<1>4. /\ f[1] = IF u.account = c THEN u.debit - u.credit ELSE 0
      /\ f[2] = IF v.account = c THEN v.debit - v.credit ELSE 0
      /\ f[1] \in Int /\ f[2] \in Int
  BY <1>1 DEF Entry
<1> HIDE DEF s, f
<1>6. Change(s, c) = f[1] + f[2]
  BY <1>1, <1>2, <1>3, <1>4, SumOfTwo
<1> QED
  BY <1>4, <1>6 DEF s

\* A leg moves d from the clearing account to a.
LEMMA LegMoves ==
  ASSUME IInv, NEW a \in ClientIds, a \in DOMAIN accounts, NEW x \in Int, x > 0, NEW d,
         NEW entries, LET b == Clearing[LedgerOf[a]] IN
                      \/ entries = <<Debit(a, x), Credit(b, x)>> /\ d = x
                      \/ entries = <<Credit(a, x), Debit(b, x)>> /\ d = -x,
         AppendTransaction(WithClearing(LedgerOf[a]), entries)
  PROVE  /\ Funds' = [Funds EXCEPT ![a] = Funds[a] + d]
         /\ Transit' = Transit - d
<1> DEFINE W == WithClearing(LedgerOf[a])
<1>0. Book(accounts, transactions) /\ Book(accounts', transactions')
  <2>1. Book(accounts, transactions)
    BY DEF IInv
  <2>2. Book(accounts, transactions)'
    BY <2>1, LegPosted
  <2> QED
    BY <2>1, <2>2 DEF Book, Running, OfLedger
<1>1. PICK b : b = Clearing[LedgerOf[a]]
  OBVIOUS
<1>2. /\ a \in AccountId /\ LedgerOf[a] \in Ledger /\ b \in AccountId /\ b \in ClearingIds
      /\ a \notin ClearingIds /\ a # b
  BY <1>1, MemoryAssumption DEF ClientIds, ClearingIds
<1>3. /\ DOMAIN W = DOMAIN accounts \cup {b}
      /\ \A c \in DOMAIN accounts : W[c] = accounts[c]
      /\ b \notin DOMAIN accounts => W[b] = 0
  BY <1>0, <1>1, <1>2, ClearingOpened
<1>4. d \in Int /\ \A c : Change(entries, c) = IF c = a THEN d ELSE IF c = b THEN -d ELSE 0
  <2>1. Debit(a, x) \in Entry /\ Credit(b, x) \in Entry /\ Credit(a, x) \in Entry /\ Debit(b, x) \in Entry
    BY <1>2 DEF Debit, Credit, Entry
  <2>2. CASE entries = <<Debit(a, x), Credit(b, x)>> /\ d = x
    BY <1>2, <2>1, <2>2, PairChange DEF Debit, Credit
  <2>3. CASE entries = <<Credit(a, x), Debit(b, x)>> /\ d = -x
    BY <1>2, <2>1, <2>3, PairChange DEF Debit, Credit
  <2> QED
    BY <1>1, <2>2, <2>3
<1>5. DOMAIN accounts' = DOMAIN W /\ \A c \in DOMAIN W : accounts'[c] = W[c] + Change(entries, c)
  BY DEF AppendTransaction, Updated
<1> HIDE DEF W
<1>6. \A c : Balance(accounts, c) \in Int
  BY <1>0, TransitIsHeld
<1>7. /\ Balance(accounts', a) = Balance(accounts, a) + d
      /\ Balance(accounts', b) = Balance(accounts, b) - d
      /\ \A c : c # a /\ c # b => Balance(accounts', c) = Balance(accounts, c)
  <2>1. \A c \in DOMAIN W : W[c] = Balance(accounts, c)
    BY <1>3 DEF Balance
  <2>2. \A c \in DOMAIN W : Balance(accounts', c) = Balance(accounts, c) + Change(entries, c)
    BY <1>5, <2>1 DEF Balance
  <2>3. \A c : c \notin DOMAIN W => Balance(accounts', c) = 0 /\ Balance(accounts, c) = 0
    BY <1>3, <1>5 DEF Balance
  <2>4. a \in DOMAIN W /\ b \in DOMAIN W
    BY <1>3
  <2>5. ASSUME NEW c, c # a, c # b PROVE Balance(accounts', c) = Balance(accounts, c)
    <3>1. Change(entries, c) = 0 /\ Balance(accounts, c) \in Int
      BY <1>4, <1>6, <2>5
    <3> QED
      BY <2>2, <2>3, <3>1
  <2>6. Balance(accounts', a) = Balance(accounts, a) + d
    BY <1>4, <2>2, <2>4
  <2>7. Balance(accounts', b) = Balance(accounts, b) - d
    <3>1. Balance(accounts', b) = Balance(accounts, b) + (-d)
      BY <1>2, <1>4, <2>2, <2>4
    <3> QED
      BY <1>4, <1>6, <3>1
  <2> QED
    BY <2>5, <2>6, <2>7
<1>8. Funds' = [Funds EXCEPT ![a] = Funds[a] + d]
  <2>1. Funds = [c \in ClientIds |-> Balance(accounts, c)] /\ Funds' = [c \in ClientIds |-> Balance(accounts', c)]
    BY DEF Funds, Balance
  <2>2. \A c \in ClientIds : c # b
    BY <1>2 DEF ClientIds
  <2> QED
    BY <1>7, <2>1, <2>2
<1>9. Transit' = Transit - d
  <2>1. PICK g, h : g = Held(accounts) /\ h = Held(accounts')
    OBVIOUS
  <2>2. Transit = SumFunctionOnSet(g, ClearingIds) /\ IsFiniteSet(ClearingIds)
    BY <1>0, <2>1, TransitIsHeld DEF Transit
  <2>3. Transit' = SumFunctionOnSet(h, ClearingIds) /\ \A c : Balance(accounts', c) \in Int
    <3>1. Transit' = SumFunctionOnSet(accounts', ClearingIds \cap DOMAIN accounts')
      BY DEF Transit
    <3> QED
      BY <1>0, <2>1, <3>1, TransitIsHeld
  <2>4. /\ \A c \in ClearingIds : g[c] \in Int /\ h[c] \in Int
        /\ \A c \in ClearingIds \ {b} : h[c] = g[c]
        /\ h[b] = g[b] - d
    BY <1>2, <1>6, <1>7, <2>1, <2>3 DEF Held
  <2>5. SumFunctionOnSet(h, ClearingIds) = SumFunctionOnSet(g, ClearingIds) + h[b] - g[b]
    BY <1>2, <2>2, <2>4, SumOneChanged
  <2>6. SumFunctionOnSet(g, ClearingIds) \in Int
    BY <2>2, <2>4, SumType
  <2> QED
    BY <1>2, <1>4, <2>2, <2>3, <2>4, <2>5, <2>6
<1> QED
  BY <1>8, <1>9

Term == [key : Key, source : ClientIds, destination : ClientIds, amount : {r.amount : r \in Transfers},
         status : Status]

\* Sums and displayed balances of the abstract specification are the ones of
\* this module.
LEMMA SagaRules ==
  /\ \A f : Sagas!SumFunction(f) = SumFunctionOnSet(f, DOMAIN f)
  /\ \A f, S : Sagas!SumFunctionOnSet(f, S) = SumFunctionOnSet(f, S)
  /\ \A t, x : Sagas!DisplayedBalance(t, x) = DisplayedBalance(t, x)
<1>1. ASSUME NEW f PROVE Sagas!SumFunction(f) = SumFunctionOnSet(f, DOMAIN f)
  BY DEF Sagas!SumFunction, Sagas!SumFunctionOnSet, Sagas!FoldFunctionOnSet, Sagas!MapThenFoldSet,
         SumFunctionOnSet, FoldFunctionOnSet, MapThenFoldSet
<1>2. ASSUME NEW f, NEW S PROVE Sagas!SumFunctionOnSet(f, S) = SumFunctionOnSet(f, S)
  BY DEF Sagas!SumFunctionOnSet, Sagas!FoldFunctionOnSet, Sagas!MapThenFoldSet,
         SumFunctionOnSet, FoldFunctionOnSet, MapThenFoldSet
<1>3. ASSUME NEW t, NEW x PROVE Sagas!DisplayedBalance(t, x) = DisplayedBalance(t, x)
  BY DEF Sagas!DisplayedBalance, Sagas!DebitNormal, DebitNormal, DisplayedBalance
<1> QED
  BY <1>1, <1>2, <1>3

\* The variables of the abstract specification.
LEMMA SagaVars == Sagas!vars = <<Funds, Transit, Terms>>
  BY DEF Sagas!vars, Funds, Transit, Terms

\* The terms of a transfer, between accounts of clients.
LEMMA TransferFacts ==
  ASSUME ClientsOwnAccounts, NEW t \in TransferTerms
  PROVE  /\ t.source \in ClientIds /\ t.destination \in ClientIds
         /\ t.amount \in Int /\ t.amount \in {r.amount : r \in Transfers}
  BY RequestAssumption DEF ClientsOwnAccounts, TransferTerms, TransferOf

\* One row of the mapped table.
TermFacts(i) ==
  /\ Terms[i].key = sagas[i].key /\ Terms[i].status = sagas[i].status
  /\ Terms[i].source = sagas[i].transfer.source
  /\ Terms[i].destination = sagas[i].transfer.destination
  /\ Terms[i].amount = sagas[i].transfer.amount

MappedFacts ==
  /\ Terms \in Seq(Term) /\ Len(Terms) = Len(sagas) /\ DOMAIN Terms = DOMAIN sagas
  /\ \A i \in DOMAIN sagas : TermFacts(i)

\* The mapped table is well typed, ...
LEMMA Mapped ==
  ASSUME ClientsOwnAccounts, Tables
  PROVE  MappedFacts
<1>1. Len(sagas) \in Nat /\ DOMAIN sagas = 1..Len(sagas) /\ \A i \in DOMAIN sagas : sagas[i] \in SagaRow
  BY TableFacts
<1>2. DOMAIN Terms = DOMAIN sagas /\ \A i \in DOMAIN sagas : TermFacts(i)
  BY DEF Terms, TermFacts
<1>3. ASSUME NEW i \in DOMAIN sagas PROVE Terms[i] \in Term
  <2>1. sagas[i].key \in Key /\ sagas[i].status \in Status /\ sagas[i].transfer \in TransferTerms
    BY <1>1 DEF SagaRow
  <2>2. PICK t : t = sagas[i].transfer
    OBVIOUS
  <2>3. t.source \in ClientIds /\ t.destination \in ClientIds /\ t.amount \in {r.amount : r \in Transfers}
    BY <2>1, <2>2, TransferFacts
  <2>4. Terms[i] = [key |-> sagas[i].key, source |-> t.source, destination |-> t.destination,
                    amount |-> t.amount, status |-> sagas[i].status]
    BY <2>2 DEF Terms
  <2> QED
    BY <2>1, <2>3, <2>4 DEF Term
<1>4. Terms \in [1..Len(sagas) -> Term]
  BY <1>1, <1>2, <1>3 DEF Terms
<1>5. Terms \in Seq(Term)
  BY <1>1, <1>4, SeqDef
<1>6. Len(Terms) \in Nat /\ DOMAIN Terms = 1..Len(Terms)
  BY <1>5, LenProperties
<1>7. \A k, m \in Nat : 1..k = 1..m => k = m
  OBVIOUS
<1> QED
  BY <1>1, <1>2, <1>5, <1>6, <1>7 DEF MappedFacts

\* ... also after a step.
LEMMA MappedNext ==
  ASSUME ClientsOwnAccounts
  PROVE  Tables' => MappedFacts'
<1>1. Tables => MappedFacts
  BY Mapped
<1> QED
  BY <1>1, PTL

\* The terms after saga i has changed its status.
LEMMA StatusSet ==
  ASSUME NEW i \in DOMAIN sagas, NEW status, DOMAIN sagas' = DOMAIN sagas,
         sagas'[i].key = sagas[i].key, sagas'[i].transfer = sagas[i].transfer, sagas'[i].status = status,
         \A j \in DOMAIN sagas : j # i => sagas'[j] = sagas[j]
  PROVE  Sagas!SetStatus({i}, status)
<1>1. ASSUME NEW j \in DOMAIN sagas
      PROVE  Terms'[j] = IF j \in {i} THEN [Terms[j] EXCEPT !.status = status] ELSE Terms[j]
  <2>1. Terms'[j] = [key |-> sagas'[j].key, source |-> sagas'[j].transfer.source,
                     destination |-> sagas'[j].transfer.destination, amount |-> sagas'[j].transfer.amount,
                     status |-> sagas'[j].status]
    BY DEF Terms
  <2>2. Terms[j] = [key |-> sagas[j].key, source |-> sagas[j].transfer.source,
                    destination |-> sagas[j].transfer.destination, amount |-> sagas[j].transfer.amount,
                    status |-> sagas[j].status]
    BY DEF Terms
  <2> QED
    BY <2>1, <2>2
<1>2. DOMAIN Terms = DOMAIN sagas
  BY DEF Terms
<1>3. Terms' = [j \in DOMAIN sagas |-> Terms'[j]]
  BY DEF Terms
<1>4. Terms' = [j \in DOMAIN Terms |-> IF j \in {i} THEN [Terms[j] EXCEPT !.status = status] ELSE Terms[j]]
  BY <1>1, <1>2, <1>3
<1> QED
  BY <1>4 DEF Sagas!SetStatus, Terms

\* The amount of one saga, and of none.
LEMMA AmountSum ==
  ASSUME IInv, NEW i \in DOMAIN sagas
  PROVE  /\ Sagas!AmountOf({i}) = sagas[i].transfer.amount
         /\ Sagas!AmountOf({}) = 0
<1> DEFINE f == [j \in {i} |-> Terms[j].amount]
           g == [j \in {} |-> Terms[j].amount]
<1>1. Sagas!AmountOf({i}) = Sagas!SumFunction(f) /\ Sagas!AmountOf({}) = Sagas!SumFunction(g)
  BY DEF Sagas!AmountOf, Terms
<1>2. DOMAIN f = {i} /\ DOMAIN g = {} /\ f[i] = sagas[i].transfer.amount
  BY DEF Terms
<1>3. f[i] \in Int
  BY <1>2, AmountFacts
<1> HIDE DEF f, g
<1>4. Sagas!SumFunction(f) = SumFunctionOnSet(f, {i}) /\ Sagas!SumFunction(g) = SumFunctionOnSet(g, {})
  BY <1>2, SagaRules
<1> QED
  BY <1>1, <1>2, <1>3, <1>4, SumSingleton, SumEmpty

\* The event that ends a transfer: its saga waits for it.
LEMMA WaitingSaga ==
  ASSUME IInv, NEW p \in Pass, TakeEvent(p), NEW i, i = outbox[NextEvent].saga
  PROVE  /\ i \in DOMAIN sagas
         /\ outbox[NextEvent].step = "destination_credit" => sagas[i].status = "pending"
         /\ outbox[NextEvent].step = "compensate_source" => sagas[i].status = "failed"
  BY EventTaken DEF IInv, EventsDone

\* ProcessOutbox credits the destination: the transfer arrives.
LEMMA CreditArrives ==
  ASSUME ClientsOwnAccounts, IInv, NEW p \in Pass, CreditDestination(p)
  PROVE  Sagas!Arrive
<1>1. PICK i : i = outbox[NextEvent].saga
  OBVIOUS
<1>2. PICK t : t = sagas[i].transfer
  OBVIOUS
<1>3. /\ TakeEvent(p) /\ outbox[NextEvent].step = "destination_credit"
      /\ AppendTransaction(WithClearing(t.destinationLedger),
           <<Debit(t.destination, t.amount), Credit(Clearing[t.destinationLedger], t.amount)>>)
      /\ sagas' = [sagas EXCEPT ![i].arrival = Len(transactions) + 1, ![i].status = "completed"]
  BY <1>1, <1>2 DEF CreditDestination
<1>4. i \in DOMAIN sagas /\ sagas[i].status = "pending"
  BY <1>1, <1>3, WaitingSaga
<1>5. /\ sagas[i] \in SagaRow /\ t \in TransferTerms /\ t.amount \in Int /\ t.amount > 0
      /\ t.destination \in DOMAIN accounts /\ LedgerOf[t.destination] = t.destinationLedger
  BY <1>2, <1>4, AmountFacts DEF Accepted, SagaRow
<1>6. t.destination \in ClientIds
  BY <1>5, TransferFacts
<1>7. Funds' = [Funds EXCEPT ![t.destination] = Funds[t.destination] + t.amount] /\ Transit' = Transit - t.amount
  BY <1>3, <1>5, <1>6, LegMoves
<1>8. Sagas!SetStatus({i}, "completed")
  <2>1. /\ DOMAIN sagas' = DOMAIN sagas /\ \A j \in DOMAIN sagas : j # i => sagas'[j] = sagas[j]
    BY <1>3
  <2>2. sagas'[i] = [sagas[i] EXCEPT !.arrival = Len(transactions) + 1, !.status = "completed"]
    BY <1>3, <1>4
  <2>3. /\ sagas'[i].key = sagas[i].key /\ sagas'[i].transfer = sagas[i].transfer
        /\ sagas'[i].status = "completed"
    BY <1>5, <2>2 DEF SagaRow
  <2> QED
    BY <1>4, <2>1, <2>3, StatusSet
<1>9. MappedFacts
  BY Mapped DEF IInv
<1>10. i \in DOMAIN Terms /\ Terms[i].status = "pending" /\ Terms[i].destination = t.destination
  BY <1>2, <1>4, <1>9 DEF MappedFacts, TermFacts
<1>11. Sagas!AmountOf({i}) = t.amount /\ Sagas!AmountOf({}) = 0
  BY <1>2, <1>4, AmountSum
<1>12. Funds' = [a \in ClientIds |-> Funds[a] + Sagas!AmountOf({j \in {i} : Terms[j].destination = a})]
  <2>1. \A a \in ClientIds : Funds[a] \in Int
    BY TransitIsHeld DEF IInv, Book, Funds
  <2>2. ASSUME NEW a \in ClientIds
        PROVE  Funds'[a] = Funds[a] + Sagas!AmountOf({j \in {i} : Terms[j].destination = a})
    <3>1. CASE a = t.destination
      <4>1. {j \in {i} : Terms[j].destination = a} = {i}
        BY <1>10, <3>1
      <4>2. Funds'[a] = Funds[a] + t.amount
        BY <1>7, <3>1 DEF Funds
      <4> QED
        BY <1>11, <4>1, <4>2
    <3>2. CASE a # t.destination
      <4>1. {j \in {i} : Terms[j].destination = a} = {}
        BY <1>10, <3>2
      <4>2. Funds'[a] = Funds[a]
        BY <1>7, <3>2 DEF Funds
      <4>3. \A x \in Int : x = x + 0
        OBVIOUS
      <4>4. Funds[a] = Funds[a] + 0
        BY <2>1, <4>3
      <4> QED
        BY <1>11, <4>1, <4>2, <4>4
    <3> QED
      BY <3>1, <3>2
  <2>3. Funds' = [a \in ClientIds |-> Funds'[a]]
    BY DEF Funds
  <2> QED
    BY <2>2, <2>3
<1>13. Transit' = Transit - Sagas!AmountOf({i})
  BY <1>7, <1>11
<1>14. {i} \in (SUBSET {j \in DOMAIN Terms : Terms[j].status = "pending"}) \ {{}}
  BY <1>10
<1> QED
  BY <1>8, <1>12, <1>13, <1>14 DEF Sagas!Arrive, Funds, Transit, Terms

\* ProcessOutbox compensates: the transfer is paid back.
LEMMA CompensatePaysBack ==
  ASSUME ClientsOwnAccounts, IInv, NEW p \in Pass, CompensateSource(p)
  PROVE  Sagas!PayBack
<1>1. PICK i : i = outbox[NextEvent].saga
  OBVIOUS
<1>2. PICK t : t = sagas[i].transfer
  OBVIOUS
<1>3. /\ TakeEvent(p) /\ outbox[NextEvent].step = "compensate_source"
      /\ AppendTransaction(WithClearing(t.sourceLedger),
           <<Debit(t.source, t.amount), Credit(Clearing[t.sourceLedger], t.amount)>>)
      /\ sagas' = [sagas EXCEPT ![i].refund = Len(transactions) + 1, ![i].status = "compensated"]
  BY <1>1, <1>2 DEF CompensateSource
<1>4. i \in DOMAIN sagas /\ sagas[i].status = "failed"
  BY <1>1, <1>3, WaitingSaga
<1>5. /\ sagas[i] \in SagaRow /\ t \in TransferTerms /\ t.amount \in Int /\ t.amount > 0
      /\ t.source \in DOMAIN accounts /\ LedgerOf[t.source] = t.sourceLedger
  BY <1>2, <1>4, AmountFacts DEF Accepted, SagaRow
<1>6. t.source \in ClientIds
  BY <1>5, TransferFacts
<1>7. Funds' = [Funds EXCEPT ![t.source] = Funds[t.source] + t.amount] /\ Transit' = Transit - t.amount
  BY <1>3, <1>5, <1>6, LegMoves
<1>8. Sagas!SetStatus({i}, "compensated")
  <2>1. /\ DOMAIN sagas' = DOMAIN sagas /\ \A j \in DOMAIN sagas : j # i => sagas'[j] = sagas[j]
    BY <1>3
  <2>2. sagas'[i] = [sagas[i] EXCEPT !.refund = Len(transactions) + 1, !.status = "compensated"]
    BY <1>3, <1>4
  <2>3. /\ sagas'[i].key = sagas[i].key /\ sagas'[i].transfer = sagas[i].transfer
        /\ sagas'[i].status = "compensated"
    BY <1>5, <2>2 DEF SagaRow
  <2> QED
    BY <1>4, <2>1, <2>3, StatusSet
<1>9. MappedFacts
  BY Mapped DEF IInv
<1>10. /\ i \in DOMAIN Terms /\ Terms[i].status = "failed"
       /\ Terms[i].source = t.source /\ Terms[i].amount = t.amount
  BY <1>2, <1>4, <1>9 DEF MappedFacts, TermFacts
<1>11. Funds' = [Funds EXCEPT ![Terms[i].source] = Funds[Terms[i].source] + Terms[i].amount]
       /\ Transit' = Transit - Terms[i].amount
  BY <1>7, <1>10
<1> QED
  BY <1>8, <1>10, <1>11 DEF Sagas!PayBack, Funds, Transit, Terms

\* ProcessOutbox gives the credit up.
LEMMA GiveUpGivesUp ==
  ASSUME ClientsOwnAccounts, IInv, NEW p \in Pass, GiveUp(p)
  PROVE  Sagas!GiveUp
<1>1. PICK i : i = outbox[NextEvent].saga
  OBVIOUS
<1>2. /\ TakeEvent(p) /\ outbox[NextEvent].step = "destination_credit"
      /\ sagas' = [sagas EXCEPT ![i].status = "failed"] /\ UNCHANGED <<accounts, transactions>>
  BY <1>1 DEF GiveUp, book
<1>3. i \in DOMAIN sagas /\ sagas[i].status = "pending"
  BY <1>1, <1>2, WaitingSaga
<1>4. Sagas!SetStatus({i}, "failed")
  <2>1. /\ DOMAIN sagas' = DOMAIN sagas /\ \A j \in DOMAIN sagas : j # i => sagas'[j] = sagas[j]
    BY <1>2
  <2>2. sagas'[i] = [sagas[i] EXCEPT !.status = "failed"] /\ sagas[i] \in SagaRow
    BY <1>2, <1>3, AmountFacts
  <2>3. /\ sagas'[i].key = sagas[i].key /\ sagas'[i].transfer = sagas[i].transfer
        /\ sagas'[i].status = "failed"
    BY <2>2 DEF SagaRow
  <2> QED
    BY <1>3, <2>1, <2>3, StatusSet
<1>5. i \in DOMAIN Terms /\ Terms[i].status = "pending"
  BY <1>3 DEF Terms
<1>6. UNCHANGED <<Funds, Transit>>
  BY <1>2 DEF Funds, Transit
<1> QED
  BY <1>4, <1>5, <1>6 DEF Sagas!GiveUp, Funds, Transit, Terms

\* CreateTransfer accepts a transfer: it begins.
LEMMA TransferBegins ==
  ASSUME ClientsOwnAccounts, IInv, NEW r \in Transfers, CreateTransferHandler(r)
  PROVE  Sagas!Begin \/ UNCHANGED <<accounts, sagas>>
<1>1. PICK k, t, n : k = TransferKey(r) /\ t = TransferOf(r) /\ n = Len(sagas) + 1
  OBVIOUS
<1>2. CreateTransfer(k, t) /\ k \in Key \cup {NoKey}
  BY <1>1, MemoryAssumption DEF CreateTransferHandler, TransferKey
<1>3. CASE TransferOutcome(k, t) \in {"existing", "conflict"}
  BY <1>2, <1>3 DEF CreateTransfer, book
<1>4. CASE TransferOutcome(k, t) = "created"
  <2> DEFINE row == [key |-> k, transfer |-> t, status |-> "pending", arrival |-> 0, refund |-> 0]
  <2>1. /\ k \in Key /\ k \notin DOMAIN transferKeys /\ Accepted(accounts, t)
        /\ t \in TransferTerms /\ t.amount \in Int /\ Transferable(t)
    BY <1>1, <1>2, <1>4, TransferAccepted
  <2>2. /\ t.source \in ClientIds /\ t.destination \in ClientIds
        /\ t.amount \in {q.amount : q \in Transfers}
    BY <2>1, TransferFacts
  <2>3. /\ sagas' = Append(sagas, row)
        /\ AppendTransaction(WithClearing(t.sourceLedger),
             <<Credit(t.source, t.amount), Debit(Clearing[t.sourceLedger], t.amount)>>)
    BY <1>1, <1>2, <1>4 DEF CreateTransfer
  <2>4. /\ t.source \in DOMAIN accounts /\ LedgerOf[t.source] = t.sourceLedger /\ t.amount > 0
        /\ LedgerOf[t.source] # LedgerOf[t.destination]
    BY <2>1 DEF Accepted
  <2>5. Funds' = [Funds EXCEPT ![t.source] = Funds[t.source] + (-t.amount)] /\ Transit' = Transit - (-t.amount)
    BY <2>1, <2>2, <2>3, <2>4, LegMoves
  <2>6. Funds[t.source] \in Int /\ Transit \in Int /\ Funds[t.source] = accounts[t.source]
    <3>1. Book(accounts, transactions) /\ ClearingIds \cap DOMAIN accounts \in SUBSET DOMAIN accounts
      BY DEF IInv
    <3>2. IsFiniteSet(ClearingIds \cap DOMAIN accounts)
      BY <3>1, RunningFacts, FS_Subset
    <3>3. Transit \in Int
      BY <3>1, <3>2, SumType DEF Transit, Book
    <3> QED
      BY <2>2, <2>4, <3>1, <3>3 DEF Funds, Book
  <2>7. PICK new : new = [key |-> k, source |-> t.source, destination |-> t.destination,
                          amount |-> t.amount, status |-> "pending"]
    OBVIOUS
  <2>8. /\ new \in Sagas!NewSaga /\ new \in Term /\ new.amount = t.amount /\ new.source = t.source
        /\ new.destination = t.destination /\ new.key = k
    BY <2>1, <2>2, <2>7 DEF Sagas!NewSaga, Term, Status
  <2>9. MappedFacts /\ Tables /\ KeysMatch
    BY Mapped DEF IInv
  <2>10. \A i \in DOMAIN Terms : Terms[i].key # new.key
    BY <2>1, <2>8, <2>9 DEF MappedFacts, TermFacts, KeysMatch
  <2>11. Sagas!DisplayedBalance(TypeOf[new.source], Funds[new.source] - new.amount) >= 0
    BY <2>1, <2>6, <2>8, SagaRules DEF Transferable, Affordable
  <2>12. /\ Funds' = [Funds EXCEPT ![new.source] = Funds[new.source] - new.amount]
         /\ Transit' = Transit + new.amount
    <3>1. Funds[t.source] + (-t.amount) = Funds[t.source] - t.amount
      BY <2>1, <2>6
    <3>2. Transit - (-t.amount) = Transit + t.amount
      BY <2>1, <2>6
    <3> QED
      BY <2>5, <2>8, <3>1, <3>2
  <2>13. Terms' = Append(Terms, new)
    <3>1. Len(sagas) \in Nat /\ DOMAIN sagas = 1..Len(sagas)
      BY <2>9, TableFacts
    <3>2. /\ DOMAIN sagas' = DOMAIN sagas \cup {n} /\ Len(sagas') = n /\ sagas'[n] = row
          /\ sagas' \in Seq(SagaRow) /\ \A i \in DOMAIN sagas : sagas'[i] = sagas[i]
      <4>1. row \in SagaRow
        BY <2>1 DEF SagaRow, Status
      <4> HIDE DEF row
      <4> QED
        BY <1>1, <2>3, <2>9, <4>1, Appended DEF Tables
    <3>3. PICK u : u = Terms'
      OBVIOUS
    <3>4. u \in Seq(Term) /\ Len(u) = n
      <4>1. Tables'
        BY TransferKeeps, IInvNext
      <4> QED
        BY <3>2, <3>3, <4>1, MappedNext DEF MappedFacts
    <3>5. /\ Append(Terms, new) \in Seq(Term) /\ Len(Append(Terms, new)) = n
          /\ \A i \in 1..Len(sagas) : Append(Terms, new)[i] = Terms[i]
          /\ Append(Terms, new)[n] = new
      BY <1>1, <2>8, <2>9, AppendProperties DEF MappedFacts
    <3>6. \A i \in DOMAIN sagas' :
            u[i] = [key |-> sagas'[i].key, source |-> sagas'[i].transfer.source,
                    destination |-> sagas'[i].transfer.destination,
                    amount |-> sagas'[i].transfer.amount, status |-> sagas'[i].status]
      BY <3>3 DEF Terms
    <3>7. \A i \in DOMAIN sagas : u[i] = Terms[i]
      BY <3>2, <3>6 DEF Terms
    <3>8. u[n] = new
      BY <2>7, <3>2, <3>6
    <3>9. \A i \in 1..n : i = n \/ i \in 1..Len(sagas)
      BY <1>1, <3>1
    <3>10. \A i \in 1..n : u[i] = Append(Terms, new)[i]
      BY <3>1, <3>5, <3>7, <3>8, <3>9
    <3>11. u = Append(Terms, new)
      BY <3>4, <3>5, <3>10, SeqEqual
    <3> QED
      BY <3>3, <3>11
  <2>14. new.amount > 0 /\ LedgerOf[new.source] # LedgerOf[new.destination]
    BY <2>4, <2>8
  <2>15. Sagas!Begin
    BY <2>8, <2>10, <2>11, <2>12, <2>13, <2>14 DEF Sagas!Begin, Funds, Transit, Terms
  <2> QED
    BY <2>15
<1> QED
  BY <1>2, <1>3, <1>4 DEF CreateTransfer

\* CreateTransaction posts: money moves within one ledger.
LEMMA PostingPosts ==
  ASSUME ClientsOwnAccounts, IInv, NEW r \in Postings, CreateTransactionHandler(r)
  PROVE  Sagas!Post \/ UNCHANGED <<accounts, sagas>>
<1>1. PICK k : k = PostingKey(r)
  OBVIOUS
<1>2. CreateTransaction(k, r.entries) /\ UNCHANGED sagas
  BY <1>1 DEF CreateTransactionHandler
<1>3. CASE TransactionOutcome(k, r.entries) \in {"existing", "conflict"}
  BY <1>2, <1>3 DEF CreateTransaction, book
<1>4. CASE TransactionOutcome(k, r.entries) = "created"
  <2>1. AppendTransaction(accounts, r.entries) /\ Postable(r.entries)
    BY <1>2, <1>4 DEF CreateTransaction, TransactionOutcome
  <2>2. Book(accounts, transactions)
    BY DEF IInv
  <2>3. PICK m : \A a \in AccountsOf(r.entries) : LedgerOf[a] = m
    BY <2>1, <2>2, OneLedger
  <2>4. /\ r.entries \in Seq(Entry) /\ ValidateTransaction(r.entries)
        /\ AccountsOf(r.entries) \subseteq DOMAIN accounts /\ AccountsOf(r.entries) \subseteq ClientIds
    BY <2>1, RequestAssumption DEF Postable, ClientsOwnAccounts
  <2>5. /\ DOMAIN accounts' = DOMAIN accounts
        /\ \A a \in DOMAIN accounts : accounts'[a] = accounts[a] + Change(r.entries, a)
    BY <2>1 DEF AppendTransaction, Updated
  <2>6. \A a : /\ Change(r.entries, a) \in Int
               /\ a \notin AccountsOf(r.entries) => Change(r.entries, a) = 0
    BY <2>4, ChangeFacts
  <2>7. ASSUME NEW a \in ClientIds
        PROVE  Funds[a] \in Int /\ Funds'[a] = Funds[a] + Change(r.entries, a)
    <3>1. CASE a \in DOMAIN accounts
      BY <2>2, <2>5, <3>1 DEF Funds, Book
    <3>2. CASE a \notin DOMAIN accounts
      <4>1. Change(r.entries, a) = 0
        BY <2>4, <2>6, <3>2
      <4> QED
        BY <2>5, <3>2, <4>1 DEF Funds
    <3> QED
      BY <3>1, <3>2
  <2>8. IsFiniteSet(ClientIds)
    <3>1. ClientIds \in SUBSET AccountId
      BY DEF ClientIds
    <3> QED
      BY <3>1, RequestAssumption, FS_Subset
  <2>9. PICK f, g : f = Funds /\ g = Funds'
    OBVIOUS
  <2>10. ASSUME NEW l
         PROVE  LET S == {a \in ClientIds : LedgerOf[a] = l}
                IN  Sagas!SumFunctionOnSet(g, S) = Sagas!SumFunctionOnSet(f, S)
    <3> DEFINE S == {a \in ClientIds : LedgerOf[a] = l}
               h == [a \in S |-> Change(r.entries, a)]
    <3>1. S \in SUBSET ClientIds
      OBVIOUS
    <3>2. IsFiniteSet(S)
      BY <2>8, <3>1, FS_Subset
    <3>3. \A a \in S : f[a] \in Int /\ h[a] \in Int /\ g[a] = f[a] + h[a]
      BY <2>6, <2>7, <2>9
    <3>4. SumFunctionOnSet(h, S) = 0
      <4>1. CASE l = m
        <5>1. AccountsOf(r.entries) \subseteq S
          BY <2>3, <2>4, <4>1
        <5> QED
          BY <2>4, <3>2, <5>1, ChangesCancel
      <4>2. CASE l # m
        <5>1. \A a \in S : h[a] = 0
          BY <2>3, <2>6, <4>2
        <5> HIDE DEF S, h
        <5> QED
          BY <3>2, <5>1, SumZero
      <4> QED
        BY <4>1, <4>2
    <3> HIDE DEF S, h
    <3>5. SumFunctionOnSet(g, S) = SumFunctionOnSet(f, S) + SumFunctionOnSet(h, S)
      BY <3>2, <3>3, SumPlus
    <3>6. SumFunctionOnSet(f, S) \in Int
      BY <3>2, <3>3, SumType
    <3>7. SumFunctionOnSet(g, S) = SumFunctionOnSet(f, S)
      BY <3>4, <3>5, <3>6
    <3>8. Sagas!SumFunctionOnSet(g, S) = Sagas!SumFunctionOnSet(f, S)
      BY <3>7, SagaRules
    <3> QED
      BY <3>8 DEF S
  <2>11. Funds' \in [ClientIds -> Int]
    <3>1. \A a \in ClientIds : Funds'[a] \in Int
      BY <2>6, <2>7
    <3>2. Funds' = [a \in ClientIds |-> Funds'[a]]
      BY DEF Funds
    <3> QED
      BY <3>1, <3>2
  <2>12. Transit' = Transit
    <3> DEFINE S == ClearingIds \cap DOMAIN accounts
    <3>1. S \in SUBSET DOMAIN accounts /\ IsFiniteSet(DOMAIN accounts)
      BY <2>2, RunningFacts
    <3>2. IsFiniteSet(S)
      BY <3>1, FS_Subset
    <3>3. PICK A : A = accounts'
      OBVIOUS
    <3>4. \A a \in S : accounts[a] \in Int /\ A[a] = accounts[a]
      <4> SUFFICES ASSUME NEW a \in S PROVE accounts[a] \in Int /\ A[a] = accounts[a]
        OBVIOUS
      <4>1. a \notin AccountsOf(r.entries) /\ accounts[a] \in Int
        BY <2>2, <2>4 DEF ClientIds, Book
      <4>2. Change(r.entries, a) = 0 /\ A[a] = accounts[a] + Change(r.entries, a)
        BY <2>5, <2>6, <3>3, <4>1
      <4> QED
        BY <4>1, <4>2
    <3>5. Transit = SumFunctionOnSet(accounts, S) /\ Transit' = SumFunctionOnSet(A, S)
      BY <2>5, <3>3 DEF Transit
    <3> HIDE DEF S
    <3>6. SumFunctionOnSet(A, S) = SumFunctionOnSet(accounts, S)
      BY <3>2, <3>4, SumEqual
    <3> QED
      BY <3>5, <3>6
  <2>13. Terms' = Terms
    BY <1>2 DEF Terms
  <2>14. \A l : Sagas!SumFunctionOnSet(Funds', {a \in ClientIds : LedgerOf[a] = l})
                = Sagas!SumFunctionOnSet(Funds, {a \in ClientIds : LedgerOf[a] = l})
    BY <2>9, <2>10
  <2>15. Sagas!Post
    BY <2>11, <2>12, <2>13, <2>14 DEF Sagas!Post, Funds, Transit, Terms
  <2> QED
    BY <2>15
<1> QED
  BY <1>2, <1>3, <1>4 DEF CreateTransaction

\* A step that leaves accounts and sagas alone, or opens an account, moves
\* nothing.
LEMMA StepStutters ==
  ASSUME IInv, UNCHANGED <<accounts, sagas>> \/ \E a \in ClientIds : CreateAccountInLedger(a)
  PROVE  UNCHANGED Sagas!vars
<1>1. CASE UNCHANGED <<accounts, sagas>>
  BY <1>1 DEF Sagas!vars
<1>2. ASSUME NEW a \in ClientIds, CreateAccountInLedger(a) PROVE UNCHANGED Sagas!vars
  <2>1. /\ a \notin DOMAIN accounts /\ a \notin ClearingIds /\ UNCHANGED sagas
        /\ accounts' = Bind(accounts, a, 0)
    BY <1>2 DEF CreateAccountInLedger, ClientIds
  <2>2. /\ DOMAIN accounts' = DOMAIN accounts \cup {a} /\ accounts'[a] = 0
        /\ \A b \in DOMAIN accounts : accounts'[b] = accounts[b]
    BY <2>1 DEF Bind
  <2>3. Funds' = Funds
    BY <2>1, <2>2 DEF Funds
  <2>4. Terms' = Terms
    BY <2>1 DEF Terms
  <2>5. Transit' = Transit
    <3> DEFINE S == ClearingIds \cap DOMAIN accounts
    <3>1. S \in SUBSET DOMAIN accounts /\ IsFiniteSet(DOMAIN accounts)
      BY RunningFacts DEF IInv
    <3>2. IsFiniteSet(S)
      BY <3>1, FS_Subset
    <3>3. PICK A : A = accounts'
      OBVIOUS
    <3>4. \A b \in S : accounts[b] \in Int /\ A[b] = accounts[b]
      BY <2>2, <3>3 DEF IInv, Book
    <3>5. Transit = SumFunctionOnSet(accounts, S) /\ Transit' = SumFunctionOnSet(A, S)
      <4>1. ClearingIds \cap DOMAIN accounts' = S
        BY <2>1, <2>2
      <4> QED
        BY <3>3, <4>1 DEF Transit
    <3> HIDE DEF S
    <3>6. SumFunctionOnSet(A, S) = SumFunctionOnSet(accounts, S)
      BY <3>2, <3>4, SumEqual
    <3> QED
      BY <3>5, <3>6
  <2> QED
    BY <2>3, <2>4, <2>5 DEF Sagas!vars, Funds, Transit, Terms
<1> QED
  BY <1>1, <1>2

\* An empty store is a specification without transfers.
LEMMA InitMapped == Init => Sagas!Init
<1> SUFFICES ASSUME Init PROVE Sagas!Init
  OBVIOUS
<1>1. DOMAIN accounts = {} /\ DOMAIN sagas = {}
  <2>1. DOMAIN <<>> = {}
    OBVIOUS
  <2> QED
    BY <2>1 DEF Init, Empty
<1>2. Funds \in [ClientIds -> Int]
  BY <1>1 DEF Funds
<1>3. Transit = 0
  <2>1. ClearingIds \cap DOMAIN accounts = {}
    BY <1>1
  <2> QED
    BY <2>1, SumEmpty DEF Transit
<1>4. Sagas!Unsettled = {}
  BY <1>1 DEF Sagas!Unsettled
<1>5. Sagas!AmountOf({}) = 0
  <2> DEFINE g == [j \in {} |-> Terms[j].amount]
  <2>1. Sagas!AmountOf({}) = Sagas!SumFunction(g) /\ DOMAIN g = {}
    BY DEF Sagas!AmountOf, Terms
  <2> HIDE DEF g
  <2> QED
    BY <2>1, SagaRules, SumEmpty
<1> QED
  BY <1>2, <1>3, <1>4, <1>5 DEF Sagas!Init, Funds, Transit

\* Every step is a step of a transfer, or changes nothing a client can see.
LEMMA NextMapped ==
  ASSUME ClientsOwnAccounts
  PROVE  IInv /\ [Next]_vars => [Sagas!Next]_(Sagas!vars)
<1> SUFFICES ASSUME IInv, [Next]_vars PROVE Sagas!Next \/ UNCHANGED Sagas!vars
  OBVIOUS
<1>1. CASE \E a \in ClientIds : CreateAccountInLedger(a)
  BY <1>1, StepStutters
<1>2. ASSUME NEW r \in Postings, CreateTransactionHandler(r) PROVE Sagas!Next \/ UNCHANGED Sagas!vars
  BY <1>2, PostingPosts, StepStutters DEF Sagas!Next
<1>3. ASSUME NEW r \in Transfers, CreateTransferHandler(r) PROVE Sagas!Next \/ UNCHANGED Sagas!vars
  BY <1>3, TransferBegins, StepStutters DEF Sagas!Next
<1>4. ASSUME NEW p \in Pass, PassStep(p) PROVE Sagas!Next \/ UNCHANGED Sagas!vars
  <2>1. CASE CreditDestination(p)
    BY <2>1, CreditArrives DEF Sagas!Next
  <2>2. CASE CompensateSource(p)
    BY <2>2, CompensatePaysBack DEF Sagas!Next
  <2>3. CASE GiveUp(p)
    BY <2>3, GiveUpGivesUp DEF Sagas!Next
  <2>4. CASE StartPass(p) \/ EndPass(p) \/ RetryLater(p)
    <3>1. UNCHANGED <<accounts, sagas>>
      BY <2>4 DEF StartPass, EndPass, RetryLater, book
    <3> QED
      BY <3>1, StepStutters
  <2> QED
    BY <1>4, <2>1, <2>2, <2>3, <2>4 DEF PassStep
<1>5. ASSUME NEW e \in DOMAIN outbox, BackoffEnds(e) PROVE UNCHANGED Sagas!vars
  BY <1>5, StepStutters DEF BackoffEnds, book
<1>6. CASE UNCHANGED vars
  BY <1>6, StepStutters DEF vars, book
<1> QED
  BY <1>1, <1>2, <1>3, <1>4, <1>5, <1>6 DEF Next

\* Transfers in memory are the same sagas as on PostgreSQL, as long as clients
\* post to their own accounts only: CreateTransfer begins one, ProcessOutbox
\* ends it or gives it up, and nothing else touches it.
THEOREM TransfersImplementSagas == ClientsOwnAccounts => (Spec => TransfersAreSagas)
<1> SUFFICES ASSUME ClientsOwnAccounts PROVE Spec => TransfersAreSagas
  OBVIOUS
<1>1. IInv /\ [Next]_vars => [Sagas!Next]_(Sagas!vars)
  BY NextMapped
<1> QED
  BY <1>1, InitMapped, Inductive, PTL DEF Spec, TransfersAreSagas, Sagas!Spec
=============================================================================
