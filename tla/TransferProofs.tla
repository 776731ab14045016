--------------------------- MODULE TransferProofs ---------------------------
(***************************************************************************)
(* Machine-checked proofs about Transfer, for every set of accounts,       *)
(* clients, workers and requests and for every number of failures.         *)
(*                                                                         *)
(* What compares the stored amount of a transfer with the requested one,   *)
(* or with a rounded balance, is proved for clients that send whole cents, *)
(* Grain = 1: NUMERIC(20,2) rounds the balance and the amount of any other *)
(* transfer separately.                                                    *)
(***************************************************************************)
EXTENDS TransferRefinement, LedgerRulesProofs, SumTheorems, SequenceTheorems

\* The types of the variables, by component.
TableTypes ==
  /\ created \subseteq AccountId
  /\ balance \in [AccountId -> Int]
  /\ sagas \in Seq(Saga)
  /\ legs \in Seq(Leg)

LockTypes ==
  /\ rowLock \in [AccountId -> Session \cup {Free}]
  /\ keyLock \in [Key -> Client \cup {Free}]
  /\ eventLock \in [1..MaxSagas -> Worker \cup {Free}]

SessionTypes ==
  /\ pc \in [Session -> PC]
  /\ call \in [Client -> Calls]
  /\ todo \in [Worker -> SUBSET AccountId]
  /\ batch \in [Worker -> SUBSET (1..MaxSagas)]
  /\ answer \in [Client -> Result]
  /\ faults \in 0..MaxFaults

\* Transfers run between ordinary accounts, and only one that was given up
\* awaits a refund.
SagasFit ==
  \A i \in DOMAIN sagas :
    /\ sagas[i].source \notin ClearingIds /\ sagas[i].destination \notin ClearingIds
    /\ sagas[i].refund = "pending" => sagas[i].status = "failed"

LegsNameSagas == \A n \in DOMAIN legs : legs[n].saga \in DOMAIN sagas

\* What CreateTransfer has checked and locked on its way.
CallAt(c) ==
  /\ pc[c] # "done" => answer[c].status = "open"
  /\ pc[c] \in {"lookup", "source", "clearing", "insert", "write", "post", "commit"} =>
       call[c].amount > 0 /\ call[c].sourceLedger # call[c].destinationLedger
  /\ pc[c] \in {"clearing", "insert", "write", "post", "commit"} =>
       /\ LedgerOf[call[c].source] = call[c].sourceLedger
       /\ LedgerOf[call[c].destination] = call[c].destinationLedger
       /\ rowLock[call[c].source] = c
       /\ DisplayedBalance(TypeOf[call[c].source], balance[call[c].source] - call[c].amount) >= 0
  /\ pc[c] \in {"post", "commit"} =>
       /\ keyLock[call[c].key] = c
       /\ Round(call[c].amount) # 0
       /\ \A i \in DOMAIN sagas : sagas[i].key # call[c].key

CallsAdvance == \A c \in Client : CallAt(c)

\* A worker's batch is its own, still to be paid, and by the time it is paid
\* every account it touches is locked.
BatchAt(w) ==
  /\ \A i \in batch[w] : i \in DOMAIN sagas /\ eventLock[i] = w /\ sagas[i].status = "pending"
  /\ pc[w] = "lock" => \A i \in batch[w] :
       /\ sagas[i].destination \in todo[w] \/ rowLock[sagas[i].destination] = w
       /\ DestinationClearing(i) \in todo[w] \/ rowLock[DestinationClearing(i)] = w

BatchesAreLocked == \A w \in Worker : BatchAt(w)

\* Answers name sagas that are there, and committed calls and new sagas are
\* as many.
AnswerAt(c) ==
  answer[c].status \in {"created", "existing"} =>
    /\ answer[c].saga \in DOMAIN sagas
    /\ sagas[answer[c].saga].key = call[c].key
    /\ Grain = 1 => SameTransfer(sagas[answer[c].saga], call[c])

AnswersNameSagas == \A c \in Client : AnswerAt(c)

CreatedOnce ==
  \A c, d \in Client :
    c # d /\ answer[c].status = "created" /\ answer[d].status = "created"
      => answer[c].saga # answer[d].saga

Committed == {c \in Client : answer[c].status \in {"created", "lost"}}
SagasAreCounted == Len(sagas) = Len(InitialSagas) + Cardinality(Committed)

\* The inductive invariant.
IInv ==
  /\ TypeOK
  /\ SagasFit
  /\ LegsNameSagas
  /\ CallsAdvance
  /\ BatchesAreLocked
  /\ AnswersNameSagas
  /\ CreatedOnce
  /\ SagasAreCounted
  /\ SagasPaidOnce
  /\ Grain = 1 => BalancesMatchLegs

-----------------------------------------------------------------------------
(* The two sides of the invariant.                                         *)

\* What concerns the committed tables alone, ...
TableInv ==
  /\ TableTypes /\ SagasFit /\ LegsNameSagas /\ SagasPaidOnce
  /\ Grain = 1 => BalancesMatchLegs

\* ... and what concerns the sessions.
SessionInv ==
  /\ LockTypes /\ SessionTypes
  /\ CallsAdvance /\ BatchesAreLocked
  /\ AnswersNameSagas /\ CreatedOnce /\ SagasAreCounted

\* The invariant, side by side.
LEMMA IInvParts == IInv <=> TableInv /\ SessionInv
  BY DEF IInv, TypeOK, TableInv, SessionInv, TableTypes, LockTypes, SessionTypes

\* The same in the next state.
LEMMA IInvPartsNext == IInv' <=> TableInv' /\ SessionInv'
  BY IInvParts, PTL

\* A function on 1..n is a sequence of length n.
LEMMA FunctionIsSeq ==
  ASSUME NEW S, NEW n \in Nat, NEW f \in [1..n -> S]
  PROVE  f \in Seq(S) /\ Len(f) = n
<1>1. f \in Seq(S)
  BY SeqDef
<1>2. DOMAIN f = 1..n /\ DOMAIN f = 1..Len(f) /\ Len(f) \in Nat
  BY <1>1, LenProperties
<1>3. \A k, m \in Nat : 1..k = 1..m => k = m
  OBVIOUS
<1> QED
  BY <1>1, <1>2, <1>3

\* The indices and the elements of the tables.
LEMMA TableFacts ==
  ASSUME TableTypes
  PROVE  /\ Len(sagas) \in Nat /\ DOMAIN sagas = 1..Len(sagas)
         /\ \A i \in DOMAIN sagas : sagas[i] \in Saga
         /\ Len(legs) \in Nat /\ DOMAIN legs = 1..Len(legs)
         /\ \A n \in DOMAIN legs : legs[n] \in Leg
  BY LenProperties, ElementOfSeq DEF TableTypes

\* The bound on the sagas is a number, and no table is longer.
LEMMA SagasBounded ==
  ASSUME SessionInv
  PROVE  /\ Len(InitialSagas) \in Nat /\ MaxSagas \in Nat
         /\ IsFiniteSet(Committed) /\ Cardinality(Committed) \in Nat
         /\ Len(sagas) \in Nat /\ Len(sagas) <= MaxSagas
         /\ \A c \in Client \ Committed : Len(sagas) + 1 <= MaxSagas
<1>1. Len(InitialSagas) \in Nat
  BY InitialAssumption, LenProperties
<1>2. /\ IsFiniteSet(Client) /\ Cardinality(Client) \in Nat
  BY TransferAssumption, FS_CardinalityType
<1>3. Committed \in SUBSET Client
  BY DEF Committed
<1>4. /\ IsFiniteSet(Committed) /\ Cardinality(Committed) \in Nat
      /\ Cardinality(Committed) <= Cardinality(Client)
      /\ Cardinality(Client) = Cardinality(Committed) => Client = Committed
  BY <1>2, <1>3, FS_Subset, FS_CardinalityType
<1>5. Len(sagas) = Len(InitialSagas) + Cardinality(Committed)
  BY DEF SessionInv, SagasAreCounted
<1>6. MaxSagas = Len(InitialSagas) + Cardinality(Client)
  BY DEF MaxSagas
<1>7. ASSUME NEW c \in Client \ Committed PROVE Len(sagas) + 1 <= MaxSagas
  BY <1>1, <1>2, <1>4, <1>5, <1>6
<1> QED
  BY <1>1, <1>2, <1>4, <1>5, <1>6, <1>7

\* A step that commits nothing.
LEMMA TablesKept ==
  ASSUME TableInv, UNCHANGED tables
  PROVE  TableInv'
<1> USE DEF tables
<1>1. TableTypes' /\ SagasFit' /\ LegsNameSagas'
  BY DEF TableInv, TableTypes, SagasFit, LegsNameSagas
<1>2. SagasPaidOnce'
  <2>1. \A i, k : LegsOf(i, k)' = LegsOf(i, k)
    BY DEF LegsOf
  <2> QED
    BY <2>1 DEF TableInv, SagasPaidOnce
<1>3. BalancesMatchLegs' <=> BalancesMatchLegs
  BY DEF BalancesMatchLegs, LegsBalance, LegEffect, Moved
<1> QED
  BY <1>1, <1>2, <1>3 DEF TableInv

-----------------------------------------------------------------------------
(* Locks.                                                                  *)

\* A session takes locks that are free and releases its own.
LocksKept(s) ==
  /\ \A a \in AccountId : \/ rowLock'[a] = rowLock[a]
                          \/ rowLock[a] \in {Free, s} /\ rowLock'[a] \in {Free, s}
  /\ \A k \in Key : \/ keyLock'[k] = keyLock[k]
                    \/ keyLock[k] \in {Free, s} /\ keyLock'[k] \in {Free, s}
  /\ \A i \in 1..MaxSagas : \/ eventLock'[i] = eventLock[i]
                            \/ eventLock[i] \in {Free, s} /\ eventLock'[i] \in {Free, s}

\* The end of a transaction.
LEMMA ReleaseKeeps ==
  ASSUME LockTypes, NEW s \in Session, ReleaseLocks(s)
  PROVE  LockTypes' /\ LocksKept(s)
<1>1. LockTypes'
  BY DEF LockTypes, ReleaseLocks
<1>2. LocksKept(s)
  BY DEF LocksKept, ReleaseLocks
<1> QED
  BY <1>1, <1>2

\* What a request names.
LEMMA RequestFacts ==
  ASSUME SessionTypes, NEW c \in Client
  PROVE  /\ call[c] \in Calls /\ call[c].key \in Key /\ call[c].amount \in Int
         /\ call[c].source \in AccountId /\ call[c].source \notin ClearingIds
         /\ call[c].destination \in AccountId /\ call[c].destination \notin ClearingIds
         /\ SourceClearing(c) \in ClearingIds /\ SourceClearing(c) \in AccountId
  BY RequestAssumption, AccountsAssumption DEF SessionTypes, SourceClearing, ClearingIds

\* A call that holds its locks does not see another session's step, unless it
\* changes the balance or takes the key that is locked.
LEMMA OtherCallKept ==
  ASSUME SessionInv, NEW c \in Client, NEW s, s # c, LocksKept(s),
         UNCHANGED <<pc[c], call, answer[c]>>,
         rowLock[call[c].source] = c => balance'[call[c].source] = balance[call[c].source],
         keyLock[call[c].key] = c =>
           \A i \in DOMAIN sagas' : sagas'[i].key = call[c].key => i \in DOMAIN sagas /\ sagas[i].key = call[c].key
  PROVE  CallAt(c)'
<1>1. CallAt(c) /\ LockTypes /\ SessionTypes
  BY DEF SessionInv, CallsAdvance
<1>2. call[c].source \in AccountId /\ call[c].key \in Key /\ c # Free /\ c # s
  BY <1>1, RequestFacts, TransferAssumption
<1>3. rowLock[call[c].source] = c => rowLock'[call[c].source] = c
  BY <1>2 DEF LocksKept
<1>4. keyLock[call[c].key] = c => keyLock'[call[c].key] = c
  BY <1>2 DEF LocksKept
<1> QED
  BY <1>1, <1>3, <1>4 DEF CallAt

\* A batch does not see another session's step that leaves its sagas alone.
LEMMA OtherBatchKept ==
  ASSUME SessionInv, TableTypes, NEW w \in Worker, NEW s, s # w, LocksKept(s),
         UNCHANGED <<pc[w], todo[w], batch[w]>>,
         DOMAIN sagas \subseteq DOMAIN sagas',
         \A i \in DOMAIN sagas : /\ sagas'[i].destination = sagas[i].destination
                                 /\ i \in batch[w] => sagas'[i].status = sagas[i].status
  PROVE  BatchAt(w)'
<1>1. BatchAt(w) /\ LockTypes /\ SessionTypes
  BY DEF SessionInv, BatchesAreLocked
<1>2. w # Free /\ w # s
  BY TransferAssumption
<1>3. ASSUME NEW i \in batch[w]
      PROVE  /\ i \in DOMAIN sagas' /\ eventLock'[i] = w /\ sagas'[i].status = "pending"
             /\ sagas'[i].destination = sagas[i].destination
             /\ DestinationClearing(i)' = DestinationClearing(i)
             /\ sagas[i].destination \in AccountId /\ DestinationClearing(i) \in AccountId
  <2>1. i \in 1..MaxSagas /\ i \in DOMAIN sagas /\ eventLock[i] = w /\ sagas[i].status = "pending"
    BY <1>1 DEF SessionTypes, BatchAt
  <2>2. eventLock'[i] = w
    BY <1>2, <2>1 DEF LocksKept
  <2>3. sagas[i].destination \in AccountId
    BY <2>1, TableFacts DEF Saga
  <2>4. DestinationClearing(i) \in AccountId
    BY <2>3, AccountsAssumption DEF DestinationClearing, ClearingIds
  <2>5. DestinationClearing(i)' = DestinationClearing(i)
    BY <2>1 DEF DestinationClearing
  <2> QED
    BY <2>1, <2>2, <2>3, <2>4, <2>5
<1>4. \A a \in AccountId : rowLock[a] = w => rowLock'[a] = w
  BY <1>2 DEF LocksKept
<1> QED
  BY <1>1, <1>3, <1>4 DEF BatchAt

-----------------------------------------------------------------------------
(* Steps that commit nothing.                                              *)

\* An answer to another call stands while no saga changes its terms.
LEMMA AnswerKept ==
  ASSUME NEW c \in Client, AnswerAt(c), UNCHANGED <<call, answer[c]>>,
         DOMAIN sagas \subseteq DOMAIN sagas',
         \A i \in DOMAIN sagas :
           UNCHANGED <<sagas[i].key, sagas[i].source, sagas[i].destination, sagas[i].amount>>
  PROVE  AnswerAt(c)'
  BY DEF AnswerAt, SameTransfer

\* A step of CreateTransfer that commits nothing: what it must provide.
LEMMA ClientFrame ==
  ASSUME IInv, NEW c \in Client, UNCHANGED <<tables, call, todo, batch>>,
         LockTypes', SessionTypes', LocksKept(c),
         \A s \in Session \ {c} : UNCHANGED pc[s],
         \A d \in Client \ {c} : UNCHANGED answer[d],
         CallAt(c)', AnswerAt(c)',
         answer[c].status \notin {"created", "lost"}, answer'[c].status \notin {"created", "lost"}
  PROVE  IInv'
<1>1. TableInv /\ SessionInv /\ TableTypes
  BY IInvParts DEF TableInv
<1>2. TableInv'
  BY <1>1, TablesKept
<1>3. CallsAdvance'
  <2>1. ASSUME NEW d \in Client \ {c} PROVE CallAt(d)'
    BY <1>1, OtherCallKept DEF tables, Session
  <2> QED
    BY <2>1 DEF CallsAdvance
<1>4. BatchesAreLocked'
  <2>1. ASSUME NEW w \in Worker PROVE BatchAt(w)'
    <3>1. w \in Session /\ c \in Session \ {w}
      BY TransferAssumption DEF Session
    <3> QED
      BY <1>1, <3>1, OtherBatchKept DEF tables
  <2> QED
    BY <2>1 DEF BatchesAreLocked
<1>5. AnswersNameSagas'
  <2>1. ASSUME NEW d \in Client \ {c} PROVE AnswerAt(d)'
    BY <1>1, AnswerKept DEF tables, SessionInv, AnswersNameSagas
  <2> QED
    BY <2>1 DEF AnswersNameSagas
<1>6. CreatedOnce' /\ SagasAreCounted'
  <2>1. Committed' = Committed
    BY DEF Committed
  <2>2. SagasAreCounted'
    BY <1>1, <2>1 DEF SessionInv, SagasAreCounted, tables
  <2>3. CreatedOnce'
    BY <1>1 DEF SessionInv, CreatedOnce
  <2> QED
    BY <2>2, <2>3
<1>7. SessionInv'
  BY <1>3, <1>4, <1>5, <1>6 DEF SessionInv
<1> QED
  BY <1>2, <1>7, IInvPartsNext

\* CreateTransfer returns without a saga of its own.
LEMMA ReturnKeeps ==
  ASSUME IInv, NEW c \in Client, NEW status \in {"existing", "conflict", "rejected", "error"},
         NEW saga \in 0..MaxSagas, ReturnOnly(c, status, saga), pc[c] # "done",
         faults' \in 0..MaxFaults,
         status = "existing" =>
           saga \in DOMAIN sagas /\ sagas[saga].key = call[c].key /\ SameTransfer(sagas[saga], call[c])
  PROVE  IInv'
<1>1. SessionInv /\ LockTypes /\ SessionTypes
  BY IInvParts DEF SessionInv
<1>2. c \in Session
  BY DEF Session
<1>3. LockTypes' /\ LocksKept(c)
  BY <1>1, <1>2, ReleaseKeeps DEF ReturnOnly, Return
<1>4. /\ pc' = [pc EXCEPT ![c] = "done"]
      /\ answer' = [answer EXCEPT ![c] = [status |-> status, saga |-> saga]]
      /\ UNCHANGED <<tables, call, todo, batch>>
  BY DEF ReturnOnly, Return
<1>5. SessionTypes'
  BY <1>1, <1>2, <1>4 DEF SessionTypes, PC, Result
<1>6. /\ pc'[c] = "done" /\ answer'[c] = [status |-> status, saga |-> saga]
      /\ \A s \in Session \ {c} : UNCHANGED pc[s]
      /\ \A d \in Client \ {c} : UNCHANGED answer[d]
  BY <1>1, <1>2, <1>4 DEF SessionTypes
<1>7. answer[c].status \notin {"created", "lost"} /\ answer'[c].status \notin {"created", "lost"}
  BY <1>1, <1>6 DEF SessionInv, CallsAdvance, CallAt
<1>8. CallAt(c)'
  BY <1>6 DEF CallAt
<1>9. AnswerAt(c)'
  BY <1>4, <1>6 DEF AnswerAt, SameTransfer, tables
<1> QED
  BY <1>3, <1>4, <1>5, <1>6, <1>7, <1>8, <1>9, ClientFrame

\* CreateTransfer goes on: what the next statement relies on is locked.
LEMMA GoToKeeps ==
  ASSUME IInv, NEW c \in Client, NEW label \in PC \ {"done"}, GoTo(c, label), pc[c] # "done",
         LockTypes', LocksKept(c), CallAt(c)'
  PROVE  IInv'
<1>1. SessionInv /\ SessionTypes
  BY IInvParts DEF SessionInv
<1>2. c \in Session
  BY DEF Session
<1>3. pc' = [pc EXCEPT ![c] = label] /\ UNCHANGED <<tables, call, todo, batch, answer, faults>>
  BY DEF GoTo
<1>4. SessionTypes' /\ \A s \in Session \ {c} : UNCHANGED pc[s]
  BY <1>1, <1>2, <1>3 DEF SessionTypes
<1>5. answer[c].status = "open"
  BY <1>1 DEF SessionInv, CallsAdvance, CallAt
<1>6. AnswerAt(c)'
  BY <1>3, <1>5 DEF AnswerAt
<1> QED
  BY <1>3, <1>4, <1>5, <1>6, ClientFrame

\* The requests that are refused at once, and the sagas a known key names.
LEMMA StartKeeps ==
  ASSUME IInv, NEW c \in Client, Submit(c) \/ Lookup(c)
  PROVE  IInv'
<1>1. SessionInv /\ SessionTypes /\ LockTypes /\ TableTypes /\ CallAt(c)
  BY IInvParts DEF SessionInv, CallsAdvance, TableInv
<1>2. 0 \in 0..MaxSagas /\ faults \in 0..MaxFaults /\ DOMAIN sagas \subseteq 0..MaxSagas
  BY <1>1, SagasBounded, TableFacts DEF SessionTypes
<1>3. pc[c] # "done" /\ c \in Session
  BY DEF Submit, Lookup, Session
<1>4. ASSUME NEW status \in {"rejected", "conflict"}, ReturnOnly(c, status, 0), UNCHANGED faults
      PROVE  IInv'
  BY <1>2, <1>3, <1>4, ReturnKeeps
<1>5. ASSUME NEW label \in {"lookup", "source"}, GoTo(c, label), UNCHANGED locks,
             call[c].amount > 0 /\ call[c].sourceLedger # call[c].destinationLedger
      PROVE  IInv'
  <2>1. LockTypes' /\ LocksKept(c)
    BY <1>1, <1>5 DEF locks, LockTypes, LocksKept
  <2>2. pc'[c] = label /\ UNCHANGED <<call, answer>>
    BY <1>1, <1>3, <1>5 DEF GoTo, SessionTypes
  <2>3. CallAt(c)'
    BY <1>1, <1>3, <1>5, <2>2 DEF CallAt
  <2>4. label \in PC \ {"done"}
    BY DEF PC
  <2> QED
    BY <1>3, <1>5, <2>1, <2>3, <2>4, GoToKeeps
<1>6. CASE Submit(c)
  BY <1>4, <1>5, <1>6 DEF Submit
<1>7. CASE Lookup(c)
  <2>1. CASE GoTo(c, "source") /\ UNCHANGED locks
    BY <1>1, <1>5, <1>7, <2>1 DEF Lookup, CallAt
  <2>2. ASSUME NEW i \in FoundSagas(call[c].key), SameTransfer(sagas[i], call[c]),
               ReturnOnly(c, "existing", i), UNCHANGED faults
        PROVE  IInv'
    <3>1. i \in DOMAIN sagas /\ sagas[i].key = call[c].key
      BY DEF FoundSagas
    <3> QED
      BY <1>2, <1>3, <2>2, <3>1, ReturnKeeps
  <2> QED
    BY <1>4, <1>7, <2>1, <2>2 DEF Lookup
<1> QED
  BY <1>6, <1>7

\* A refusal on the way.
LEMMA RefusalKeeps ==
  ASSUME IInv, NEW c \in Client, NEW status \in {"rejected", "error"},
         ReturnOnly(c, status, 0), UNCHANGED faults, pc[c] # "done"
  PROVE  IInv'
<1>1. SessionInv /\ SessionTypes
  BY IInvParts DEF SessionInv
<1>2. 0 \in 0..MaxSagas /\ faults \in 0..MaxFaults
  BY <1>1, SagasBounded DEF SessionTypes
<1> QED
  BY <1>2, ReturnKeeps

\* The source row is locked, and its balance is the one that was checked.
LEMMA LockSourceKeeps ==
  ASSUME IInv, NEW c \in Client, LockSource(c)
  PROVE  IInv'
<1>1. SessionInv /\ SessionTypes /\ LockTypes /\ CallAt(c)
  BY IInvParts DEF SessionInv, CallsAdvance
<1>2. pc[c] = "source" /\ c \in Session /\ call[c].source \in AccountId
  BY <1>1, RequestFacts DEF LockSource, Session
<1>3. CASE ReturnOnly(c, "rejected", 0) /\ UNCHANGED faults
  BY <1>2, <1>3, RefusalKeeps
<1>4. CASE /\ rowLock[call[c].source] = Free /\ SourceAccepts(call[c])
           /\ rowLock' = [rowLock EXCEPT ![call[c].source] = c]
           /\ GoTo(c, "clearing") /\ UNCHANGED <<keyLock, eventLock>>
  <2>1. LockTypes' /\ LocksKept(c) /\ rowLock'[call[c].source] = c
    BY <1>1, <1>2, <1>4 DEF LockTypes, LocksKept
  <2>2. pc'[c] = "clearing" /\ UNCHANGED <<call, answer, balance>>
    BY <1>1, <1>2, <1>4 DEF GoTo, SessionTypes, tables
  <2>3. CallAt(c)'
    BY <1>1, <1>2, <1>4, <2>1, <2>2 DEF CallAt, SourceAccepts
  <2>4. "clearing" \in PC \ {"done"}
    BY DEF PC
  <2> QED
    BY <1>2, <1>4, <2>1, <2>3, <2>4, GoToKeeps
<1> QED
  BY <1>3, <1>4 DEF LockSource

\* ensureClearing.
LEMMA ClearingKeeps ==
  ASSUME IInv, NEW c \in Client, FindClearing(c) \/ InsertClearing(c)
  PROVE  IInv'
<1>1. SessionInv /\ SessionTypes /\ LockTypes /\ CallAt(c)
  BY IInvParts DEF SessionInv, CallsAdvance
<1>2. /\ pc[c] \in {"clearing", "insert"} /\ c \in Session
      /\ call[c].source \in AccountId /\ SourceClearing(c) \in AccountId
      /\ call[c].source # SourceClearing(c)
  BY <1>1, RequestFacts DEF FindClearing, InsertClearing, Session
<1>3. PICK label \in {"write", "insert"} : GoTo(c, label)
  BY DEF FindClearing, InsertClearing
<1>4. /\ LockTypes' /\ LocksKept(c)
      /\ rowLock'[call[c].source] = rowLock[call[c].source]
  BY <1>1, <1>2 DEF FindClearing, InsertClearing, locks, LockTypes, LocksKept
<1>5. pc'[c] = label /\ UNCHANGED <<call, answer, balance>>
  BY <1>1, <1>2, <1>3 DEF GoTo, SessionTypes, tables
<1>6. CallAt(c)'
  BY <1>1, <1>2, <1>4, <1>5 DEF CallAt
<1>7. label \in PC \ {"done"}
  BY DEF PC
<1> QED
  BY <1>2, <1>3, <1>4, <1>6, <1>7, GoToKeeps

\* The unique index: nobody has the key, and nobody else will get it.
LEMMA InsertSagaKeeps ==
  ASSUME IInv, NEW c \in Client, InsertSaga(c)
  PROVE  IInv'
<1>1. SessionInv /\ SessionTypes /\ LockTypes /\ CallAt(c)
  BY IInvParts DEF SessionInv, CallsAdvance
<1>2. pc[c] = "write" /\ c \in Session /\ call[c].key \in Key
  BY <1>1, RequestFacts DEF InsertSaga, Session
<1>3. CASE ReturnOnly(c, "error", 0) /\ UNCHANGED faults
  BY <1>2, <1>3, RefusalKeeps
<1>4. CASE /\ keyLock[call[c].key] = Free /\ Round(call[c].amount) # 0
           /\ \A i \in DOMAIN sagas : sagas[i].key # call[c].key
           /\ keyLock' = [keyLock EXCEPT ![call[c].key] = c]
           /\ GoTo(c, "post") /\ UNCHANGED <<rowLock, eventLock>>
  <2>1. LockTypes' /\ LocksKept(c) /\ keyLock'[call[c].key] = c /\ UNCHANGED rowLock
    BY <1>1, <1>2, <1>4 DEF LockTypes, LocksKept
  <2>2. pc'[c] = "post" /\ UNCHANGED <<call, answer, balance, sagas>>
    BY <1>1, <1>2, <1>4 DEF GoTo, SessionTypes, tables
  <2>3. CallAt(c)'
    BY <1>1, <1>2, <1>4, <2>1, <2>2 DEF CallAt
  <2>4. "post" \in PC \ {"done"}
    BY DEF PC
  <2> QED
    BY <1>2, <1>4, <2>1, <2>3, <2>4, GoToKeeps
<1> QED
  BY <1>3, <1>4 DEF InsertSaga

\* Both balances are updated, in the transaction.
LEMMA UpdateBalancesKeeps ==
  ASSUME IInv, NEW c \in Client, UpdateBalances(c)
  PROVE  IInv'
<1>1. SessionInv /\ SessionTypes /\ LockTypes /\ CallAt(c)
  BY IInvParts DEF SessionInv, CallsAdvance
<1>2. /\ pc[c] = "post" /\ c \in Session
      /\ call[c].source \in AccountId /\ SourceClearing(c) \in AccountId
      /\ call[c].source # SourceClearing(c)
  BY <1>1, RequestFacts DEF UpdateBalances, Session
<1>3. CASE ReturnOnly(c, "error", 0) /\ UNCHANGED faults
  BY <1>2, <1>3, RefusalKeeps
<1>4. CASE /\ rowLock[SourceClearing(c)] \in {Free, c}
           /\ rowLock' = [rowLock EXCEPT ![SourceClearing(c)] = c]
           /\ GoTo(c, "commit") /\ UNCHANGED <<keyLock, eventLock>>
  <2>1. /\ LockTypes' /\ LocksKept(c) /\ UNCHANGED keyLock
        /\ rowLock'[call[c].source] = rowLock[call[c].source]
    BY <1>1, <1>2, <1>4 DEF LockTypes, LocksKept
  <2>2. pc'[c] = "commit" /\ UNCHANGED <<call, answer, balance, sagas>>
    BY <1>1, <1>2, <1>4 DEF GoTo, SessionTypes, tables
  <2>3. CallAt(c)'
    BY <1>1, <1>2, <1>4, <2>1, <2>2 DEF CallAt
  <2>4. "commit" \in PC \ {"done"}
    BY DEF PC
  <2> QED
    BY <1>2, <1>4, <2>1, <2>3, <2>4, GoToKeeps
<1> QED
  BY <1>3, <1>4 DEF UpdateBalances

\* A step of a worker that commits nothing: what it must provide.
LEMMA WorkerFrame ==
  ASSUME IInv, NEW w \in Worker, UNCHANGED <<tables, call, answer>>,
         LockTypes', SessionTypes', LocksKept(w),
         \A s \in Session \ {w} : UNCHANGED pc[s],
         \A v \in Worker \ {w} : UNCHANGED <<todo[v], batch[v]>>,
         BatchAt(w)'
  PROVE  IInv'
<1>1. TableInv /\ SessionInv /\ TableTypes
  BY IInvParts DEF TableInv
<1>2. TableInv'
  BY <1>1, TablesKept
<1>3. CallsAdvance'
  <2>1. ASSUME NEW d \in Client PROVE CallAt(d)'
    <3>1. d \in Session /\ w \in Session \ {d}
      BY TransferAssumption DEF Session
    <3> QED
      BY <1>1, <3>1, OtherCallKept DEF tables
  <2> QED
    BY <2>1 DEF CallsAdvance
<1>4. BatchesAreLocked'
  <2>1. ASSUME NEW v \in Worker \ {w} PROVE BatchAt(v)'
    BY <1>1, OtherBatchKept DEF tables, Session
  <2> QED
    BY <2>1 DEF BatchesAreLocked
<1>5. AnswersNameSagas'
  <2>1. ASSUME NEW d \in Client PROVE AnswerAt(d)'
    BY <1>1, AnswerKept DEF tables, SessionInv, AnswersNameSagas
  <2> QED
    BY <2>1 DEF AnswersNameSagas
<1>6. CreatedOnce' /\ SagasAreCounted'
  BY <1>1 DEF SessionInv, CreatedOnce, SagasAreCounted, Committed, tables
<1>7. SessionInv'
  BY <1>3, <1>4, <1>5, <1>6 DEF SessionInv
<1> QED
  BY <1>2, <1>7, IInvPartsNext

\* SKIP LOCKED: the events a worker picks are nobody else's.
LEMMA PickKeeps ==
  ASSUME IInv, NEW w \in Worker, Pick(w)
  PROVE  IInv'
<1> DEFINE S == Oldest(BatchLimit, Eligible)
<1>1. SessionInv /\ SessionTypes /\ LockTypes /\ TableTypes
  BY IInvParts DEF SessionInv, TableInv
<1>2. \A i \in S : i \in DOMAIN sagas /\ sagas[i].status = "pending" /\ eventLock[i] = Free
  BY DEF Oldest, Eligible
<1>3. S \subseteq 1..MaxSagas
  BY <1>1, <1>2, SagasBounded, TableFacts
<1>4. /\ batch' = [batch EXCEPT ![w] = S]
      /\ eventLock' = [i \in 1..MaxSagas |-> IF i \in S THEN w ELSE eventLock[i]]
      /\ pc' = [pc EXCEPT ![w] = "clearing"]
      /\ UNCHANGED <<tables, rowLock, keyLock, call, todo, answer, faults>>
  BY DEF Pick
<1> HIDE DEF S
<1>5. LockTypes' /\ LocksKept(w)
  BY <1>1, <1>2, <1>4 DEF LockTypes, LocksKept
<1>6. w \in Session
  BY DEF Session
<1>7. /\ SessionTypes' /\ pc'[w] = "clearing" /\ batch'[w] = S
      /\ \A s \in Session \ {w} : UNCHANGED pc[s]
      /\ \A v \in Worker \ {w} : UNCHANGED <<todo[v], batch[v]>>
  BY <1>1, <1>3, <1>4, <1>6 DEF SessionTypes, PC
<1>8. BatchAt(w)'
  BY <1>2, <1>3, <1>4, <1>7 DEF BatchAt, tables
<1> QED
  BY <1>4, <1>5, <1>7, <1>8, WorkerFrame

\* Clearing accounts are inserted, accounts are locked in the order of their
\* IDs.
LEMMA LockingKeeps ==
  ASSUME IInv, NEW w \in Worker, InsertMissing(w) \/ BeginLocking(w) \/ LockRow(w)
  PROVE  IInv'
<1>1. SessionInv /\ SessionTypes /\ LockTypes /\ TableTypes /\ BatchAt(w)
  BY IInvParts DEF SessionInv, TableInv, BatchesAreLocked
<1>2. w \in Session
  BY DEF Session
<1>3. /\ UNCHANGED <<tables, keyLock, eventLock, call, batch, answer, faults>>
      /\ pc' \in [Session -> PC] /\ \A s \in Session \ {w} : UNCHANGED pc[s]
  BY <1>1, <1>2 DEF InsertMissing, BeginLocking, LockRow, locks, SessionTypes, PC
<1>4. LockTypes' /\ LocksKept(w) /\ \A a \in AccountId : rowLock[a] = w => rowLock'[a] = w
  <2>1. CASE UNCHANGED rowLock
    BY <1>1, <1>3, <2>1 DEF LockTypes, LocksKept
  <2>2. ASSUME NEW a \in AccountId, rowLock[a] \in {Free, w}, rowLock' = [rowLock EXCEPT ![a] = w]
        PROVE  LockTypes' /\ LocksKept(w) /\ \A b \in AccountId : rowLock[b] = w => rowLock'[b] = w
    BY <1>1, <1>2, <1>3, <2>2 DEF LockTypes, LocksKept
  <2> QED
    BY <2>1, <2>2 DEF InsertMissing, BeginLocking, LockRow, locks
<1>5. \A i \in batch[w] : sagas[i].destination \in AccountId /\ DestinationClearing(i) \in AccountId
  <2>1. ASSUME NEW i \in batch[w]
        PROVE  sagas[i].destination \in AccountId
    <3>1. i \in DOMAIN sagas
      BY <1>1 DEF BatchAt
    <3> QED
      BY <1>1, <3>1, TableFacts DEF Saga
  <2> QED
    BY <2>1, AccountsAssumption DEF DestinationClearing, ClearingIds
<1>6. todo' \in [Worker -> SUBSET AccountId] /\ \A v \in Worker \ {w} : UNCHANGED todo[v]
  BY <1>1, <1>5 DEF InsertMissing, BeginLocking, LockRow, SessionTypes, BatchClearings
<1>7. SessionTypes'
  BY <1>1, <1>3, <1>6 DEF SessionTypes
<1>8. /\ batch'[w] = batch[w]
      /\ \A i \in batch[w] : DestinationClearing(i)' = DestinationClearing(i)
  BY <1>3 DEF tables, DestinationClearing
<1>9. ASSUME pc'[w] = "lock", NEW i \in batch[w], NEW a \in {sagas[i].destination, DestinationClearing(i)}
      PROVE  a \in todo'[w] \/ rowLock'[a] = w
  <2>1. a \in AccountId
    BY <1>5
  <2>2. CASE InsertMissing(w)
    BY <1>1, <1>9, <2>2 DEF InsertMissing, SessionTypes
  <2>3. CASE BeginLocking(w)
    BY <1>1, <2>3 DEF BeginLocking, SessionTypes, BatchClearings
  <2>4. CASE LockRow(w)
    <3>1. a \in todo[w] \/ rowLock[a] = w
      BY <1>1, <2>4 DEF LockRow, BatchAt
    <3>2. PICK b \in AccountId :
            /\ rowLock' = [rowLock EXCEPT ![b] = w]
            /\ todo' = [todo EXCEPT ![w] = @ \ {b}]
      BY <2>4 DEF LockRow
    <3>3. rowLock'[b] = w /\ todo'[w] = todo[w] \ {b}
      BY <1>1, <3>2 DEF LockTypes, SessionTypes
    <3> QED
      BY <1>4, <2>1, <3>1, <3>3
  <2> QED
    BY <2>2, <2>3, <2>4
<1>10. BatchAt(w)'
  BY <1>1, <1>3, <1>8, <1>9 DEF BatchAt, tables
<1> QED
  BY <1>3, <1>4, <1>6, <1>7, <1>10, WorkerFrame

\* A pass ends without a commit.
LEMMA EndPassKeeps ==
  ASSUME IInv, NEW w \in Worker, EndPass(w), UNCHANGED tables, faults' \in 0..MaxFaults
  PROVE  IInv'
<1>1. SessionInv /\ SessionTypes /\ LockTypes
  BY IInvParts DEF SessionInv
<1>2. w \in Session
  BY DEF Session
<1>3. LockTypes' /\ LocksKept(w)
  BY <1>1, <1>2, ReleaseKeeps DEF EndPass
<1>4. /\ SessionTypes' /\ pc'[w] = "idle" /\ batch'[w] = {}
      /\ \A s \in Session \ {w} : UNCHANGED pc[s]
      /\ \A v \in Worker \ {w} : UNCHANGED <<todo[v], batch[v]>>
  BY <1>1, <1>2 DEF EndPass, SessionTypes, PC
<1>5. BatchAt(w)'
  BY <1>4 DEF BatchAt
<1> QED
  BY <1>3, <1>4, <1>5, WorkerFrame DEF EndPass

\* Deadlock victims and failures: the transaction is rolled back.
LEMMA AbortKeeps ==
  ASSUME IInv, NEW s \in Session, DeadlockVictim(s) \/ DatabaseError(s)
  PROVE  IInv'
<1>1. SessionInv /\ SessionTypes
  BY IInvParts DEF SessionInv
<1>2. faults' \in 0..MaxFaults
  BY <1>1, TransferAssumption DEF DeadlockVictim, DatabaseError, Fault, SessionTypes
<1>3. Abort(s)
  BY DEF DeadlockVictim, DatabaseError
<1>4. 0 \in 0..MaxSagas
  BY <1>1, SagasBounded
<1>5. CASE s \in Client
  <2>1. pc[s] # "done"
    <3>1. CASE DatabaseError(s)
      BY <3>1 DEF DatabaseError
    <3>2. CASE DeadlockVictim(s)
      <4>1. \E u : WaitsFor(s, u)
        BY <3>2 DEF DeadlockVictim, Deadlocked
      <4> QED
        BY <1>5, <4>1, TransferAssumption DEF WaitsFor
    <3> QED
      BY <3>1, <3>2
  <2> QED
    BY <1>2, <1>3, <1>4, <1>5, <2>1, ReturnKeeps DEF Abort
<1>6. CASE s \notin Client
  BY <1>2, <1>3, <1>6, EndPassKeeps DEF Abort, Session
<1> QED
  BY <1>5, <1>6

-----------------------------------------------------------------------------
(* Postings.                                                               *)

\* What a leg adds to a balance is a number.
LEMMA EffectType ==
  ASSUME NEW leg \in Leg, NEW a
  PROVE  LegEffect(leg, a) \in Int
<1>1. leg.amount \in Int
  BY DEF Leg
<1>2. Moved(leg) \in Int
  BY <1>1 DEF Moved
<1> QED
  BY <1>2 DEF LegEffect

\* New legs: what they add to the balances and to the legs of a saga.
LEMMA LegsGrow ==
  ASSUME TableTypes, legs' \in Seq(Leg), NEW N, IsFiniteSet(N), DOMAIN legs \cap N = {},
         DOMAIN legs' = DOMAIN legs \cup N,
         \A n \in DOMAIN legs : legs'[n] = legs[n]
  PROVE  /\ \A i, k : LegsOf(i, k)' = LegsOf(i, k) \cup {n \in N : legs'[n].saga = i /\ legs'[n].kind = k}
         /\ \A i, k : IsFiniteSet(LegsOf(i, k))
         /\ \A a \in AccountId :
              /\ LegsBalance(legs, a) \in Int
              /\ LegsBalance(legs', a)
                   = LegsBalance(legs, a) + SumFunctionOnSet([n \in N |-> LegEffect(legs'[n], a)], N)
<1>1. DOMAIN legs = 1..Len(legs) /\ Len(legs) \in Nat /\ \A n \in DOMAIN legs : legs[n] \in Leg
  BY TableFacts
<1>2. IsFiniteSet(DOMAIN legs)
  BY <1>1, FS_Interval
<1>3. \A n \in DOMAIN legs' : legs'[n] \in Leg
  <2> DEFINE new == legs'
  <2>1. new \in Seq(Leg)
    OBVIOUS
  <2> HIDE DEF new
  <2>2. \A n \in DOMAIN new : new[n] \in Leg
    BY ONLY <2>1, LenProperties, ElementOfSeq
  <2> QED
    BY <2>2 DEF new
<1>4. \A i, k : LegsOf(i, k)' = LegsOf(i, k) \cup {n \in N : legs'[n].saga = i /\ legs'[n].kind = k}
  BY DEF LegsOf
<1>5. \A i, k : IsFiniteSet(LegsOf(i, k))
  <2>1. \A i, k : LegsOf(i, k) \in SUBSET DOMAIN legs
    BY DEF LegsOf
  <2> QED
    BY <1>2, <2>1, FS_Subset
<1>6. ASSUME NEW a \in AccountId
      PROVE  /\ LegsBalance(legs, a) \in Int
             /\ LegsBalance(legs', a)
                  = LegsBalance(legs, a) + SumFunctionOnSet([n \in N |-> LegEffect(legs'[n], a)], N)
  <2> DEFINE D == DOMAIN legs
             f == [n \in DOMAIN legs |-> LegEffect(legs[n], a)]
             g == [n \in DOMAIN legs' |-> LegEffect(legs'[n], a)]
             h == [n \in N |-> LegEffect(legs'[n], a)]
  <2>1. /\ LegsBalance(legs, a) = Opening[a] + SumFunctionOnSet(f, D)
        /\ LegsBalance(legs', a) = Opening[a] + SumFunctionOnSet(g, D \cup N)
    BY DEF LegsBalance, SumFunction
  <2>2. \A n \in D \cup N : g[n] \in Int
    BY <1>3, EffectType
  <2>3. \A n \in D : g[n] \in Int /\ f[n] = g[n]
    BY <2>2
  <2>4. \A n \in N : g[n] \in Int /\ h[n] = g[n]
    BY <2>2
  <2>5. IsFiniteSet(D) /\ D \cap N = {}
    BY <1>2
  <2>6. Opening[a] \in Int
    BY AccountsAssumption
  <2> HIDE DEF D, f, g, h
  <2>7. SumFunctionOnSet(g, D \cup N) = SumFunctionOnSet(g, D) + SumFunctionOnSet(g, N)
    BY <2>2, <2>5, SumUnion
  <2>8. SumFunctionOnSet(f, D) = SumFunctionOnSet(g, D) /\ SumFunctionOnSet(h, N) = SumFunctionOnSet(g, N)
    BY <2>3, <2>4, <2>5, SumEqual
  <2>9. SumFunctionOnSet(g, D) \in Int /\ SumFunctionOnSet(g, N) \in Int
    BY <2>2, <2>5, SumType
  <2>10. /\ LegsBalance(legs, a) \in Int
         /\ LegsBalance(legs', a) = LegsBalance(legs, a) + SumFunctionOnSet(h, N)
    BY <2>1, <2>6, <2>7, <2>8, <2>9
  <2> QED
    BY <2>10 DEF h
<1> QED
  BY <1>4, <1>5, <1>6

\* One leg more.
LEMMA LegAdded ==
  ASSUME TableTypes, NEW leg \in Leg, legs' = Append(legs, leg)
  PROVE  /\ legs' \in Seq(Leg) /\ DOMAIN legs' = DOMAIN legs \cup {Len(legs) + 1}
         /\ Len(legs) + 1 \notin DOMAIN legs /\ legs'[Len(legs) + 1] = leg
         /\ \A n \in DOMAIN legs : legs'[n] = legs[n]
         /\ \A i, k : LegsOf(i, k)' = LegsOf(i, k) \cup (IF leg.saga = i /\ leg.kind = k THEN {Len(legs) + 1} ELSE {})
         /\ \A i, k : IsFiniteSet(LegsOf(i, k)) /\ Len(legs) + 1 \notin LegsOf(i, k)
         /\ \A a \in AccountId :
              LegsBalance(legs, a) \in Int /\ LegsBalance(legs', a) = LegsBalance(legs, a) + LegEffect(leg, a)
<1> DEFINE m == Len(legs) + 1
<1>1. DOMAIN legs = 1..Len(legs) /\ Len(legs) \in Nat
  BY TableFacts
<1>2. /\ legs' \in Seq(Leg) /\ Len(legs') = m /\ legs'[m] = leg
      /\ \A n \in 1..Len(legs) : legs'[n] = legs[n]
  BY <1>1, AppendProperties DEF TableTypes
<1>3. DOMAIN legs' = 1..m
  BY <1>2, LenProperties
<1>4. DOMAIN legs' = DOMAIN legs \cup {m} /\ DOMAIN legs \cap {m} = {}
  <2>1. \A k \in Nat : 1..(k + 1) = (1..k) \cup {k + 1} /\ (1..k) \cap {k + 1} = {}
    OBVIOUS
  <2> QED
    BY <1>1, <1>3, <2>1
<1>5. IsFiniteSet({m})
  BY FS_Singleton
<1> HIDE DEF m
<1>6. /\ \A i, k : LegsOf(i, k)' = LegsOf(i, k) \cup {n \in {m} : legs'[n].saga = i /\ legs'[n].kind = k}
      /\ \A i, k : IsFiniteSet(LegsOf(i, k))
      /\ \A a \in AccountId :
           /\ LegsBalance(legs, a) \in Int
           /\ LegsBalance(legs', a)
                = LegsBalance(legs, a) + SumFunctionOnSet([n \in {m} |-> LegEffect(legs'[n], a)], {m})
  BY <1>1, <1>2, <1>4, <1>5, LegsGrow
<1>7. ASSUME NEW a PROVE SumFunctionOnSet([n \in {m} |-> LegEffect(legs'[n], a)], {m}) = LegEffect(leg, a)
  <2> DEFINE h == [n \in {m} |-> LegEffect(legs'[n], a)]
  <2>1. h[m] = LegEffect(leg, a) /\ h[m] \in Int
    BY <1>2, EffectType
  <2> HIDE DEF h
  <2>2. SumFunctionOnSet(h, {m}) = h[m]
    BY <2>1, SumSingleton
  <2> QED
    BY <2>1, <2>2 DEF h
<1>8. \A i, k : LegsOf(i, k)' = LegsOf(i, k) \cup (IF leg.saga = i /\ leg.kind = k THEN {m} ELSE {})
  BY <1>2, <1>6
<1>9. \A i, k : m \notin LegsOf(i, k)
  BY <1>4 DEF LegsOf
<1> QED
  BY <1>1, <1>2, <1>4, <1>6, <1>7, <1>8, <1>9 DEF m

-----------------------------------------------------------------------------
(* CreateTransfer commits.                                                 *)

\* The new saga, its source leg and the two balances.
LEMMA CommitFacts ==
  ASSUME IInv, NEW c \in Client, pc[c] = "commit", SourceCommit(c)
  PROVE  /\ Len(sagas) + 1 \in 1..MaxSagas /\ Len(sagas) + 1 \notin DOMAIN sagas
         /\ NewSaga(c) \in Saga
         /\ sagas' \in Seq(Saga) /\ Len(sagas') = Len(sagas) + 1
         /\ DOMAIN sagas' = DOMAIN sagas \cup {Len(sagas) + 1}
         /\ sagas'[Len(sagas) + 1] = NewSaga(c)
         /\ \A i \in DOMAIN sagas : sagas'[i] = sagas[i]
         /\ balance' \in [AccountId -> Int]
         /\ balance'[call[c].source] = Round(balance[call[c].source] - call[c].amount)
         /\ balance'[SourceClearing(c)] = Round(balance[SourceClearing(c)] + call[c].amount)
         /\ \A a \in AccountId \ {call[c].source, SourceClearing(c)} : balance'[a] = balance[a]
<1> DEFINE m == Len(sagas) + 1
<1>1. TableTypes /\ SessionInv /\ SessionTypes
  BY IInvParts DEF TableInv, SessionInv
<1>2. c \in Client \ Committed
  BY <1>1 DEF SessionInv, CallsAdvance, CallAt, Committed
<1>3. Len(sagas) \in Nat /\ m <= MaxSagas /\ MaxSagas \in Nat
  BY <1>1, <1>2, SagasBounded
<1>4. NewSaga(c) \in Saga
  BY <1>1, RequestFacts, RoundSign DEF NewSaga, Saga
<1>5. DOMAIN sagas = 1..Len(sagas)
  BY <1>1, TableFacts
<1>6. /\ sagas' \in Seq(Saga) /\ Len(sagas') = m /\ sagas'[m] = NewSaga(c)
      /\ \A i \in 1..Len(sagas) : sagas'[i] = sagas[i]
  BY <1>1, <1>4, AppendProperties DEF TableTypes, SourceCommit
<1>7. DOMAIN sagas' = DOMAIN sagas \cup {m} /\ m \notin DOMAIN sagas
  <2>1. \A k \in Nat : 1..(k + 1) = (1..k) \cup {k + 1} /\ k + 1 \notin 1..k
    OBVIOUS
  <2>2. DOMAIN sagas' = 1..m
    BY <1>6, LenProperties
  <2> QED
    BY <1>3, <1>5, <2>1, <2>2
<1>8. /\ balance' \in [AccountId -> Int]
      /\ balance'[call[c].source] = Round(balance[call[c].source] - call[c].amount)
      /\ balance'[SourceClearing(c)] = Round(balance[SourceClearing(c)] + call[c].amount)
      /\ \A a \in AccountId \ {call[c].source, SourceClearing(c)} : balance'[a] = balance[a]
  <2>1. /\ call[c].source \in AccountId /\ SourceClearing(c) \in AccountId
        /\ call[c].source # SourceClearing(c) /\ call[c].amount \in Int
    BY <1>1, RequestFacts
  <2>2. /\ balance[call[c].source] - call[c].amount \in Int
        /\ balance[SourceClearing(c)] + call[c].amount \in Int
    BY <1>1, <2>1 DEF TableTypes
  <2>3. /\ Round(balance[call[c].source] - call[c].amount) \in Int
        /\ Round(balance[SourceClearing(c)] + call[c].amount) \in Int
    BY <2>2, RoundSign
  <2>4. balance' = [balance EXCEPT
          ![call[c].source] = Round(balance[call[c].source] - call[c].amount),
          ![SourceClearing(c)] = Round(balance[SourceClearing(c)] + call[c].amount)]
    BY <1>1, <2>1 DEF SourceCommit, TableTypes
  <2> QED
    BY <1>1, <2>1, <2>3, <2>4 DEF TableTypes
<1>9. m \in 1..MaxSagas
  BY <1>3
<1> QED
  BY <1>4, <1>5, <1>6, <1>7, <1>8, <1>9

\* The tables after the commit.
LEMMA CommitTables ==
  ASSUME IInv, NEW c \in Client, pc[c] = "commit", SourceCommit(c)
  PROVE  TableInv'
<1>0. PICK m : m = Len(sagas) + 1
  OBVIOUS
<1> DEFINE leg == [kind |-> "source", saga |-> Len(sagas) + 1,
                   account |-> call[c].source, amount |-> Round(call[c].amount)]
<1>1. TableInv /\ TableTypes /\ SessionInv /\ SessionTypes /\ CallAt(c)
  BY IInvParts DEF TableInv, SessionInv, CallsAdvance
<1>2. /\ m \in 1..MaxSagas /\ m \notin DOMAIN sagas
      /\ sagas' \in Seq(Saga) /\ DOMAIN sagas' = DOMAIN sagas \cup {m}
      /\ sagas'[m] = NewSaga(c) /\ \A i \in DOMAIN sagas : sagas'[i] = sagas[i]
      /\ balance' \in [AccountId -> Int]
  BY <1>0, CommitFacts
<1>3. leg \in Leg
  BY <1>0, <1>1, <1>2, RequestFacts, RoundSign DEF Leg
<1>4. legs' = Append(legs, leg)
  BY DEF SourceCommit
<1>5. leg.kind = "source" /\ leg.saga = m /\ leg.account = call[c].source /\ leg.amount = Round(call[c].amount)
  BY <1>0
<1> HIDE DEF leg
<1>6. /\ legs' \in Seq(Leg) /\ DOMAIN legs' = DOMAIN legs \cup {Len(legs) + 1}
      /\ Len(legs) + 1 \notin DOMAIN legs /\ legs'[Len(legs) + 1] = leg
      /\ \A n \in DOMAIN legs : legs'[n] = legs[n]
      /\ \A i, k : LegsOf(i, k)' = LegsOf(i, k) \cup (IF leg.saga = i /\ leg.kind = k THEN {Len(legs) + 1} ELSE {})
  BY <1>1, <1>3, <1>4, LegAdded
<1>7. TableTypes'
  BY <1>1, <1>2, <1>6, RequestFacts DEF TableTypes, SourceCommit
<1>8. SagasFit'
  BY <1>1, <1>2, RequestFacts DEF TableInv, SagasFit, NewSaga
<1>9. LegsNameSagas'
  BY <1>1, <1>2, <1>5, <1>6 DEF TableInv, LegsNameSagas
<1>10. SagasPaidOnce'
  <2>1. \A n \in DOMAIN legs' : legs'[n].amount = sagas'[legs'[n].saga].amount
    BY <1>1, <1>2, <1>5, <1>6 DEF TableInv, LegsNameSagas, SagasPaidOnce, NewSaga
  <2>2. ASSUME NEW i \in DOMAIN sagas
        PROVE  /\ Cardinality(LegsOf(i, "source")') = 1
               /\ Cardinality(LegsOf(i, "destination")') = IF sagas'[i].status = "completed" THEN 1 ELSE 0
               /\ Cardinality(LegsOf(i, "refund")') = IF sagas'[i].status = "compensated" THEN 1 ELSE 0
    <3>1. \A k : LegsOf(i, k)' = LegsOf(i, k)
      BY <1>2, <1>5, <1>6
    <3> QED
      BY <1>1, <1>2, <3>1 DEF TableInv, SagasPaidOnce
  <2>3. /\ Cardinality(LegsOf(m, "source")') = 1
        /\ Cardinality(LegsOf(m, "destination")') = 0
        /\ Cardinality(LegsOf(m, "refund")') = 0
    <3>1. \A k : LegsOf(m, k) = {}
      BY <1>1, <1>2 DEF TableInv, LegsNameSagas, LegsOf
    <3>2. LegsOf(m, "source")' = {Len(legs) + 1} /\ LegsOf(m, "destination")' = {} /\ LegsOf(m, "refund")' = {}
      BY <1>5, <1>6, <3>1
    <3> QED
      BY <3>2, FS_EmptySet, FS_Singleton
  <2>4. sagas'[m].status = "pending"
    BY <1>2 DEF NewSaga
  <2> QED
    BY <1>2, <2>1, <2>2, <2>3, <2>4 DEF SagasPaidOnce
<1>11. ASSUME Grain = 1 PROVE BalancesMatchLegs'
  <2>1. ASSUME NEW a \in AccountId PROVE balance'[a] = LegsBalance(legs', a)
    <3>1. /\ LegsBalance(legs, a) \in Int /\ LegsBalance(legs', a) = LegsBalance(legs, a) + LegEffect(leg, a)
      BY <1>1, <1>3, <1>4, LegAdded
    <3>2. balance[a] = LegsBalance(legs, a)
      BY <1>1, <1>11 DEF TableInv, BalancesMatchLegs
    <3>3. /\ call[c].amount \in Int /\ call[c].source # SourceClearing(c)
          /\ call[c].source \in AccountId /\ SourceClearing(c) \in AccountId
      BY <1>1, RequestFacts
    <3>4. SourceClearing(c) = Clearing[LedgerOf[leg.account]]
      BY <1>1, <1>5 DEF CallAt, SourceClearing
    <3>5. LegEffect(leg, a) = (IF a = call[c].source THEN -call[c].amount ELSE 0)
                              - (IF a = SourceClearing(c) THEN -call[c].amount ELSE 0)
      BY <1>5, <1>11, <3>3, <3>4, RoundWhole DEF LegEffect, Moved
    <3>6. balance'[a] = balance[a] + LegEffect(leg, a)
      <4>1. CASE a = call[c].source
        <5>1. balance'[a] = Round(balance[a] - call[c].amount)
          BY <4>1, CommitFacts
        <5>2. balance[a] \in Int /\ balance[a] - call[c].amount \in Int
          BY <3>1, <3>2, <3>3
        <5>3. balance'[a] = balance[a] - call[c].amount
          BY <1>11, <5>1, <5>2, RoundWhole
        <5> QED
          BY <3>3, <3>5, <4>1, <5>2, <5>3
      <4>2. CASE a = SourceClearing(c)
        <5>1. balance'[a] = Round(balance[a] + call[c].amount)
          BY <4>2, CommitFacts
        <5>2. balance[a] \in Int /\ balance[a] + call[c].amount \in Int
          BY <3>1, <3>2, <3>3
        <5>3. balance'[a] = balance[a] + call[c].amount
          BY <1>11, <5>1, <5>2, RoundWhole
        <5> QED
          BY <3>3, <3>5, <4>2, <5>2, <5>3
      <4>3. CASE a \notin {call[c].source, SourceClearing(c)}
        <5>1. balance'[a] = balance[a]
          BY <4>3, CommitFacts
        <5>2. LegEffect(leg, a) = 0
          BY <3>5, <4>3
        <5> QED
          BY <3>1, <3>2, <5>1, <5>2
      <4> QED
        BY <4>1, <4>2, <4>3
    <3> QED
      BY <3>1, <3>2, <3>6
  <2> QED
    BY <2>1 DEF BalancesMatchLegs, LegsBalance, LegEffect, Moved
<1> QED
  BY <1>7, <1>8, <1>9, <1>10, <1>11 DEF TableInv

\* The sessions after the commit: the other calls hold other sources and
\* other keys.
LEMMA CommitKeeps ==
  ASSUME IInv, NEW c \in Client, NEW status \in {"created", "lost"}, NEW saga,
         status = "created" => saga = Len(sagas) + 1, status = "lost" => saga = 0,
         pc[c] = "commit", SourceCommit(c), Return(c, status, saga), faults' \in 0..MaxFaults
  PROVE  IInv'
<1> DEFINE m == Len(sagas) + 1
<1>1. TableInv /\ TableTypes /\ SessionInv /\ SessionTypes /\ LockTypes /\ CallAt(c)
  BY IInvParts DEF TableInv, SessionInv, CallsAdvance
<1>2. TableInv'
  BY CommitTables
<1>3. /\ m \in 1..MaxSagas /\ m \notin DOMAIN sagas /\ Len(sagas') = m
      /\ DOMAIN sagas' = DOMAIN sagas \cup {m}
      /\ sagas'[m] = NewSaga(c) /\ \A i \in DOMAIN sagas : sagas'[i] = sagas[i]
      /\ \A a \in AccountId \ {call[c].source, SourceClearing(c)} : balance'[a] = balance[a]
  BY CommitFacts
<1>4. c \in Session
  BY DEF Session
<1>5. LockTypes' /\ LocksKept(c)
  BY <1>1, <1>4, ReleaseKeeps DEF Return
<1>6. /\ pc' = [pc EXCEPT ![c] = "done"]
      /\ answer' = [answer EXCEPT ![c] = [status |-> status, saga |-> saga]]
      /\ UNCHANGED <<call, todo, batch>>
  BY DEF Return
<1>7. saga \in 0..MaxSagas
  <2>1. 0 \in 0..MaxSagas /\ m \in 0..MaxSagas
    BY <1>1, <1>3, SagasBounded
  <2> QED
    BY <2>1
<1>8. SessionTypes'
  BY <1>1, <1>4, <1>6, <1>7 DEF SessionTypes, PC, Result
<1>9. /\ pc'[c] = "done" /\ answer'[c].status = status /\ answer'[c].saga = saga
      /\ \A s \in Session \ {c} : UNCHANGED pc[s]
      /\ \A d \in Client \ {c} : UNCHANGED answer[d]
  BY <1>1, <1>4, <1>6 DEF SessionTypes
<1> HIDE DEF m
<1>10. CallsAdvance'
  <2>1. CallAt(c)'
    BY <1>9 DEF CallAt
  <2>2. ASSUME NEW d \in Client \ {c} PROVE CallAt(d)'
    <3>1. d \in Session /\ c \in Session \ {d}
      BY DEF Session
    <3>2. ASSUME rowLock[call[d].source] = d PROVE balance'[call[d].source] = balance[call[d].source]
      <4>1. /\ call[d].source \in AccountId /\ call[d].source # SourceClearing(c)
        BY <1>1, RequestFacts
      <4>2. call[d].source # call[c].source
        BY <1>1, <3>2 DEF CallAt
      <4> QED
        BY <1>3, <4>1, <4>2
    <3>3. ASSUME keyLock[call[d].key] = d, NEW i \in DOMAIN sagas', sagas'[i].key = call[d].key
          PROVE  i \in DOMAIN sagas /\ sagas[i].key = call[d].key
      <4>1. call[d].key # call[c].key
        BY <1>1, <3>3 DEF CallAt
      <4> QED
        BY <1>3, <3>3, <4>1 DEF NewSaga
    <3> QED
      BY <1>1, <1>5, <1>6, <1>9, <3>1, <3>2, <3>3, OtherCallKept
  <2> QED
    BY <2>1, <2>2 DEF CallsAdvance
<1>11. BatchesAreLocked'
  <2>1. ASSUME NEW w \in Worker PROVE BatchAt(w)'
    <3>1. w \in Session /\ c \in Session \ {w}
      BY TransferAssumption DEF Session
    <3> QED
      BY <1>1, <1>3, <1>5, <1>6, <1>9, <3>1, OtherBatchKept
  <2> QED
    BY <2>1 DEF BatchesAreLocked
<1>12. AnswersNameSagas'
  <2>1. ASSUME NEW d \in Client \ {c} PROVE AnswerAt(d)'
    BY <1>1, <1>3, <1>6, <1>9, AnswerKept DEF SessionInv, AnswersNameSagas
  <2>2. AnswerAt(c)'
    <3>1. SUFFICES ASSUME status = "created"
                   PROVE  /\ saga = m /\ sagas'[m].key = call[c].key
                          /\ Grain = 1 => SameTransfer(sagas'[m], call[c])
      BY <1>3, <1>6, <1>9 DEF AnswerAt, SameTransfer
    <3>2. Grain = 1 => Round(call[c].amount) = call[c].amount
      BY <1>1, RequestFacts, RoundWhole
    <3> QED
      BY <1>1, <1>3, <3>1, <3>2 DEF NewSaga, SameTransfer, CallAt, m
  <2> QED
    BY <2>1, <2>2 DEF AnswersNameSagas
<1>13. CreatedOnce'
  <2>1. \A d \in Client \ {c} : answer[d].status = "created" => answer[d].saga \in DOMAIN sagas
    BY <1>1 DEF SessionInv, AnswersNameSagas, AnswerAt
  <2>2. status = "created" => saga \notin DOMAIN sagas
    BY <1>3 DEF m
  <2> QED
    BY <1>1, <1>9, <2>1, <2>2 DEF SessionInv, CreatedOnce
<1>14. SagasAreCounted'
  <2>1. c \notin Committed /\ IsFiniteSet(Committed) /\ Cardinality(Committed) \in Nat /\ Len(InitialSagas) \in Nat
    BY <1>1, SagasBounded DEF CallAt, Committed
  <2>2. Committed' = Committed \cup {c}
    BY <1>9 DEF Committed
  <2>3. Cardinality(Committed') = Cardinality(Committed) + 1
    BY <2>1, <2>2, FS_AddElement
  <2>4. Len(sagas) = Len(InitialSagas) + Cardinality(Committed)
    BY <1>1 DEF SessionInv, SagasAreCounted
  <2>5. Len(sagas') = Len(InitialSagas) + Cardinality(Committed')
    BY <1>3, <2>1, <2>3, <2>4 DEF m
  <2> QED
    BY <2>5 DEF SagasAreCounted
<1>15. SessionInv'
  BY <1>5, <1>8, <1>10, <1>11, <1>12, <1>13, <1>14 DEF SessionInv
<1> QED
  BY <1>2, <1>15, IInvPartsNext

\* The commit, acknowledged or not.
LEMMA SourceCommitKeeps ==
  ASSUME IInv, NEW c \in Client, Commit(c) \/ CommitUnacknowledged(c)
  PROVE  IInv'
<1>1. faults \in 0..MaxFaults
  BY IInvParts DEF SessionInv, SessionTypes
<1>2. faults' \in 0..MaxFaults
  BY <1>1, TransferAssumption DEF Commit, CommitUnacknowledged, Fault
<1>3. CASE Commit(c)
  BY <1>2, <1>3, CommitKeeps DEF Commit
<1>4. CASE CommitUnacknowledged(c)
  BY <1>2, <1>4, CommitKeeps DEF CommitUnacknowledged
<1> QED
  BY <1>3, <1>4

-----------------------------------------------------------------------------
(* A worker pays its batch.                                                *)

CreditLeg(i) ==
  [kind |-> "destination", saga |-> i, account |-> sagas[i].destination, amount |-> sagas[i].amount]

\* What is in a batch.
LEMMA BatchFacts ==
  ASSUME IInv, NEW w \in Worker
  PROVE  /\ IsFiniteSet(batch[w]) /\ batch[w] \subseteq Int
         /\ \A i \in batch[w] :
              /\ i \in 1..MaxSagas /\ i \in DOMAIN sagas /\ sagas[i] \in Saga
              /\ sagas[i].status = "pending" /\ eventLock[i] = w
              /\ sagas[i].amount \in Int /\ CreditLeg(i) \in Leg
              /\ sagas[i].destination \in AccountId /\ sagas[i].destination \notin ClearingIds
              /\ DestinationClearing(i) \in ClearingIds /\ DestinationClearing(i) \in AccountId
<1>1. TableTypes /\ SagasFit /\ SessionInv /\ SessionTypes /\ BatchAt(w)
  BY IInvParts DEF TableInv, SessionInv, BatchesAreLocked
<1>2. batch[w] \in SUBSET (1..MaxSagas) /\ MaxSagas \in Nat
  BY <1>1, SagasBounded DEF SessionTypes
<1>3. IsFiniteSet(batch[w]) /\ batch[w] \subseteq Int
  <2>1. IsFiniteSet(1..MaxSagas)
    BY <1>2, FS_Interval
  <2> QED
    BY <1>2, <2>1, FS_Subset
<1>4. ASSUME NEW i \in batch[w]
      PROVE  /\ i \in 1..MaxSagas /\ i \in DOMAIN sagas /\ sagas[i] \in Saga
             /\ sagas[i].status = "pending" /\ eventLock[i] = w
             /\ sagas[i].amount \in Int /\ CreditLeg(i) \in Leg
             /\ sagas[i].destination \in AccountId /\ sagas[i].destination \notin ClearingIds
             /\ DestinationClearing(i) \in ClearingIds /\ DestinationClearing(i) \in AccountId
  <2>1. i \in 1..MaxSagas /\ i \in DOMAIN sagas /\ sagas[i].status = "pending" /\ eventLock[i] = w
    BY <1>1, <1>2 DEF BatchAt
  <2>2. sagas[i] \in Saga
    BY <1>1, <2>1, TableFacts
  <2>3. sagas[i].amount \in Int /\ sagas[i].destination \in AccountId
    BY <2>2 DEF Saga
  <2>4. CreditLeg(i) \in Leg
    BY <2>1, <2>3 DEF CreditLeg, Leg
  <2>5. DestinationClearing(i) \in ClearingIds /\ DestinationClearing(i) \in AccountId
    BY <2>3, AccountsAssumption DEF DestinationClearing, ClearingIds
  <2> QED
    BY <1>1, <2>1, <2>2, <2>3, <2>4, <2>5 DEF SagasFit
<1> QED
  BY <1>3, <1>4

\* The legs of a batch list its sagas, each once.
LEMMA BatchIsListed ==
  ASSUME IInv, NEW w \in Worker
  PROVE  \E pos \in [1..Cardinality(batch[w]) -> batch[w]] :
           /\ Cardinality(batch[w]) \in Nat
           /\ \A m, n \in 1..Cardinality(batch[w]) : pos[m] = pos[n] => m = n
           /\ \A i \in batch[w] : \E n \in 1..Cardinality(batch[w]) : pos[n] = i
           /\ BatchLegs(w) = [n \in 1..Cardinality(batch[w]) |-> CreditLeg(pos[n])]
<1> DEFINE S == batch[w]
           N == Cardinality(S)
           rank(j) == Cardinality({k \in S : k < j})
           pos == [n \in 1..N |-> CHOOSE j \in S : rank(j) = n - 1]
<1>1. /\ N \in Nat
      /\ \A i \in S : rank(i) \in 0..(N - 1)
      /\ \A i, j \in S : rank(i) = rank(j) => i = j
      /\ \A n \in 1..N : \E i \in S : rank(i) = n - 1
  <2>1. IsFiniteSet(S) /\ S \subseteq Int
    BY BatchFacts
  <2> HIDE DEF S
  <2>2. /\ Cardinality(S) \in Nat
        /\ \A x \in S : Cardinality({z \in S : z < x}) \in 0..(Cardinality(S) - 1)
        /\ \A x, y \in S : Cardinality({z \in S : z < x}) = Cardinality({z \in S : z < y}) => x = y
        /\ \A n \in 1..Cardinality(S) : \E x \in S : Cardinality({z \in S : z < x}) = n - 1
    BY <2>1, RankIsOneToOne, ZenonT(120)
  <2> QED
    BY <2>2, Zenon
<1>2. BatchLegs(w) = [n \in 1..N |-> CreditLeg(pos[n])]
  BY DEF BatchLegs, CreditLeg
<1> HIDE DEF S, N, rank
<1>3. \A n \in 1..N : pos[n] \in S /\ rank(pos[n]) = n - 1
  BY <1>1
<1>4. pos \in [1..N -> S]
  BY <1>3
<1> HIDE DEF pos
<1>5. \A m, n \in 1..N : pos[m] = pos[n] => m = n
  <2>1. ASSUME NEW m \in 1..N, NEW n \in 1..N, pos[m] = pos[n] PROVE m = n
    <3>1. m - 1 = n - 1
      BY <1>3, <2>1
    <3> QED
      BY <1>1, <3>1
  <2> QED
    BY <2>1
<1>6. ASSUME NEW i \in S PROVE \E n \in 1..N : pos[n] = i
  <2>1. rank(i) \in 0..(N - 1)
    BY <1>1
  <2>2. rank(i) + 1 \in 1..N /\ (rank(i) + 1) - 1 = rank(i)
    BY <1>1, <2>1
  <2>3. pos[rank(i) + 1] = i
    BY <1>1, <1>3, <2>2
  <2> QED
    BY <2>2, <2>3
<1> QED
  BY <1>1, <1>2, <1>4, <1>5, <1>6 DEF S, N

\* The legs after a batch: one new leg for every saga in it.
LEMMA BatchLegsAdded ==
  ASSUME IInv, NEW w \in Worker, legs' = legs \o BatchLegs(w)
  PROVE  /\ legs' \in Seq(Leg)
         /\ \E N : \E q \in [N -> batch[w]] :
              /\ IsFiniteSet(N) /\ DOMAIN legs \cap N = {} /\ DOMAIN legs' = DOMAIN legs \cup N
              /\ \A m, n \in N : q[m] = q[n] => m = n
              /\ \A i \in batch[w] : \E n \in N : q[n] = i
              /\ \A n \in N : legs'[n] = CreditLeg(q[n])
              /\ \A n \in DOMAIN legs : legs'[n] = legs[n]
<1> DEFINE B == BatchLegs(w)
           C == Cardinality(batch[w])
           L == Len(legs)
           N == (L + 1)..(L + C)
<1>1. TableTypes /\ legs \in Seq(Leg)
  BY IInvParts DEF TableInv, TableTypes
<1>2. PICK pos \in [1..C -> batch[w]] :
        /\ C \in Nat
        /\ \A m, n \in 1..C : pos[m] = pos[n] => m = n
        /\ \A i \in batch[w] : \E n \in 1..C : pos[n] = i
        /\ B = [n \in 1..C |-> CreditLeg(pos[n])]
  BY BatchIsListed
<1>3. B \in Seq(Leg) /\ Len(B) = C
  <2>1. B \in [1..C -> Leg]
    BY <1>2, BatchFacts
  <2>2. C \in Nat
    BY <1>2
  <2> HIDE DEF B, C
  <2> QED
    BY <2>1, <2>2, FunctionIsSeq
<1>4. L \in Nat /\ DOMAIN legs = 1..L
  BY <1>1, TableFacts
<1>5. /\ legs' \in Seq(Leg) /\ Len(legs') = L + C
      /\ \A n \in 1..(L + C) : legs'[n] = IF n <= L THEN legs[n] ELSE B[n - L]
  <2>1. legs' = legs \o B
    OBVIOUS
  <2> HIDE DEF B, C
  <2> QED
    BY <1>1, <1>3, <2>1, ConcatProperties
<1>6. DOMAIN legs' = 1..(L + C)
  BY <1>5, LenProperties
<1> HIDE DEF L, C, B
<1>7. 1..(L + C) = (1..L) \cup N /\ (1..L) \cap N = {}
  BY <1>2, <1>4
<1>8. IsFiniteSet(N)
  <2>1. L + 1 \in Int /\ L + C \in Int
    BY <1>2, <1>4
  <2> QED
    BY <2>1, FS_Interval
<1> DEFINE q == [n \in N |-> pos[n - L]]
<1>9. \A n \in N : n - L \in 1..C /\ n \in 1..(L + C) /\ ~(n <= L)
  BY <1>2, <1>4
<1>10. q \in [N -> batch[w]]
  BY <1>2, <1>9
<1>11. \A n \in N : legs'[n] = CreditLeg(q[n])
  <2>1. \A n \in N : legs'[n] = B[n - L]
    BY <1>5, <1>9
  <2> QED
    BY <1>2, <1>9, <2>1
<1>12. \A m, n \in N : q[m] = q[n] => m = n
  <2>1. ASSUME NEW m \in N, NEW n \in N, q[m] = q[n] PROVE m = n
    <3>1. m - L = n - L
      BY <1>2, <1>9, <2>1
    <3> QED
      BY <1>2, <1>4, <3>1
  <2> QED
    BY <2>1
<1>13. ASSUME NEW i \in batch[w] PROVE \E n \in N : q[n] = i
  <2>1. PICK n \in 1..C : pos[n] = i
    BY <1>2
  <2>2. L + n \in N /\ (L + n) - L = n
    BY <1>2, <1>4, <2>1
  <2>3. q[L + n] = i
    BY <2>1, <2>2
  <2> QED
    BY <2>2, <2>3
<1>14. \A n \in DOMAIN legs : legs'[n] = legs[n]
  <2>1. \A n \in 1..L : n \in 1..(L + C) /\ n <= L
    BY <1>2, <1>4
  <2> QED
    BY <1>4, <1>5, <2>1
<1>15. DOMAIN legs \cap N = {} /\ DOMAIN legs' = DOMAIN legs \cup N
  BY <1>4, <1>6, <1>7
<1> HIDE DEF N, q
<1> QED
  BY <1>5, <1>8, <1>10, <1>11, <1>12, <1>13, <1>14, <1>15

\* What the combined update adds to an account is what the legs of the batch
\* stand for.
LEMMA DeltaIsEffects ==
  ASSUME IInv, NEW w \in Worker, NEW a
  PROVE  /\ CreditDelta(w, a) \in Int
         /\ SumFunctionOnSet([i \in batch[w] |-> LegEffect(CreditLeg(i), a)], batch[w]) = CreditDelta(w, a)
<1> DEFINE S == batch[w]
           x == [i \in S |-> IF sagas[i].destination = a THEN sagas[i].amount ELSE 0]
           y == [i \in S |-> IF DestinationClearing(i) = a THEN sagas[i].amount ELSE 0]
           e == [i \in S |-> LegEffect(CreditLeg(i), a)]
<1>1. CreditDelta(w, a) = SumFunctionOnSet(x, S) - SumFunctionOnSet(y, S)
  BY DEF CreditDelta, SumFunction
<1>2. IsFiniteSet(S) /\ \A i \in S : sagas[i].amount \in Int
  BY BatchFacts
<1>3. ASSUME NEW i \in S PROVE e[i] \in Int /\ y[i] \in Int /\ x[i] \in Int /\ x[i] = e[i] + y[i]
  <2>1. LegEffect(CreditLeg(i), a) = (IF a = sagas[i].destination THEN sagas[i].amount ELSE 0)
                                     - (IF a = DestinationClearing(i) THEN sagas[i].amount ELSE 0)
    BY <1>2 DEF LegEffect, CreditLeg, Moved, DestinationClearing
  <2> QED
    BY <1>2, <2>1
<1> HIDE DEF S, x, y, e
<1>4. SumFunctionOnSet(x, S) = SumFunctionOnSet(e, S) + SumFunctionOnSet(y, S)
  BY <1>2, <1>3, SumPlus
<1>5. SumFunctionOnSet(e, S) \in Int /\ SumFunctionOnSet(y, S) \in Int /\ SumFunctionOnSet(x, S) \in Int
  BY <1>2, <1>3, SumType
<1>6. SumFunctionOnSet(e, S) = CreditDelta(w, a) /\ CreditDelta(w, a) \in Int
  BY <1>1, <1>4, <1>5
<1> QED
  BY <1>6 DEF e, S

\* Accounts the batch does not name stay as they are.
LEMMA DeltaElsewhere ==
  ASSUME IInv, NEW w \in Worker, NEW a,
         \A i \in batch[w] : sagas[i].destination # a /\ DestinationClearing(i) # a
  PROVE  CreditDelta(w, a) = 0
<1> DEFINE S == batch[w]
           x == [i \in S |-> IF sagas[i].destination = a THEN sagas[i].amount ELSE 0]
           y == [i \in S |-> IF DestinationClearing(i) = a THEN sagas[i].amount ELSE 0]
<1>1. CreditDelta(w, a) = SumFunctionOnSet(x, S) - SumFunctionOnSet(y, S)
  BY DEF CreditDelta, SumFunction
<1>2. IsFiniteSet(S) /\ \A i \in S : x[i] = 0 /\ y[i] = 0
  BY BatchFacts
<1> HIDE DEF S, x, y
<1>3. SumFunctionOnSet(x, S) = 0 /\ SumFunctionOnSet(y, S) = 0
  BY <1>2, SumZero
<1> QED
  BY <1>1, <1>3

\* The sagas of the batch complete, the others stay as they are.
LEMMA CreditFacts ==
  ASSUME IInv, NEW w \in Worker, Credit(w)
  PROVE  /\ sagas' \in Seq(Saga) /\ DOMAIN sagas' = DOMAIN sagas /\ Len(sagas') = Len(sagas)
         /\ \A i \in DOMAIN sagas :
              /\ UNCHANGED <<sagas[i].key, sagas[i].source, sagas[i].destination, sagas[i].amount, sagas[i].refund>>
              /\ i \in batch[w] => sagas'[i].status = "completed"
              /\ i \notin batch[w] => sagas'[i] = sagas[i]
         /\ balance' \in [AccountId -> Int]
         /\ \A a \in AccountId : balance'[a] = balance[a] + CreditDelta(w, a)
<1>1. TableTypes
  BY IInvParts DEF TableInv
<1>2. Len(sagas) \in Nat /\ DOMAIN sagas = 1..Len(sagas) /\ \A i \in DOMAIN sagas : sagas[i] \in Saga
  BY <1>1, TableFacts
<1>3. /\ DOMAIN sagas' = DOMAIN sagas
      /\ \A i \in DOMAIN sagas :
           /\ i \in batch[w] => sagas'[i] = [sagas[i] EXCEPT !.status = "completed", !.credit = "processed"]
           /\ i \notin batch[w] => sagas'[i] = sagas[i]
  BY DEF Credit
<1>4. ASSUME NEW i \in DOMAIN sagas
      PROVE  /\ sagas'[i] \in Saga
             /\ UNCHANGED <<sagas[i].key, sagas[i].source, sagas[i].destination, sagas[i].amount, sagas[i].refund>>
             /\ i \in batch[w] => sagas'[i].status = "completed"
             /\ i \notin batch[w] => sagas'[i] = sagas[i]
  <2>1. CASE i \in batch[w]
    <3>1. ASSUME NEW x \in Saga, NEW y, y = [x EXCEPT !.status = "completed", !.credit = "processed"]
          PROVE  /\ y \in Saga /\ y.key = x.key /\ y.source = x.source /\ y.destination = x.destination
                 /\ y.amount = x.amount /\ y.refund = x.refund /\ y.status = "completed"
      BY <3>1 DEF Saga
    <3>2. sagas[i] \in Saga /\ sagas'[i] = [sagas[i] EXCEPT !.status = "completed", !.credit = "processed"]
      BY <1>2, <1>3, <2>1
    <3> QED
      BY <2>1, <3>1, <3>2
  <2>2. CASE i \notin batch[w]
    BY <1>2, <1>3, <2>2
  <2> QED
    BY <2>1, <2>2
<1>5. sagas' \in [1..Len(sagas) -> Saga]
  <2>1. sagas' = [i \in DOMAIN sagas |-> sagas'[i]]
    BY DEF Credit
  <2> QED
    BY <1>2, <1>4, <2>1
<1>6. sagas' \in Seq(Saga) /\ Len(sagas') = Len(sagas)
  BY <1>2, <1>5, FunctionIsSeq
<1>7. /\ balance' \in [AccountId -> Int]
      /\ \A a \in AccountId : balance'[a] = balance[a] + CreditDelta(w, a)
  <2>1. balance' = [a \in AccountId |-> balance[a] + CreditDelta(w, a)]
    BY DEF Credit
  <2>2. \A a \in AccountId : CreditDelta(w, a) \in Int
    BY DeltaIsEffects
  <2> QED
    BY <1>1, <2>1, <2>2 DEF TableTypes
<1> QED
  BY <1>3, <1>4, <1>6, <1>7

\* The tables after a batch.
LEMMA CreditTables ==
  ASSUME IInv, NEW w \in Worker, Credit(w)
  PROVE  TableInv'
<1>1. TableInv /\ TableTypes /\ SagasFit /\ LegsNameSagas /\ SagasPaidOnce
  BY IInvParts DEF TableInv
<1>2. /\ sagas' \in Seq(Saga) /\ DOMAIN sagas' = DOMAIN sagas
      /\ \A i \in DOMAIN sagas :
           /\ sagas'[i].source = sagas[i].source /\ sagas'[i].destination = sagas[i].destination
           /\ sagas'[i].amount = sagas[i].amount /\ sagas'[i].refund = sagas[i].refund
           /\ i \in batch[w] => sagas'[i].status = "completed"
           /\ i \notin batch[w] => sagas'[i] = sagas[i]
      /\ balance' \in [AccountId -> Int]
      /\ \A a \in AccountId : balance'[a] = balance[a] + CreditDelta(w, a)
  BY CreditFacts
<1>3. \A i \in batch[w] : /\ i \in DOMAIN sagas /\ sagas[i].status = "pending"
                          /\ DestinationClearing(i) \in AccountId
  BY BatchFacts
<1>4. legs' \in Seq(Leg) /\ created' = created \cup BatchClearings(w)
  BY BatchLegsAdded DEF Credit
<1>5. PICK N : \E q \in [N -> batch[w]] :
        /\ IsFiniteSet(N) /\ DOMAIN legs \cap N = {} /\ DOMAIN legs' = DOMAIN legs \cup N
        /\ \A m, n \in N : q[m] = q[n] => m = n
        /\ \A i \in batch[w] : \E n \in N : q[n] = i
        /\ \A n \in N : legs'[n] = CreditLeg(q[n])
        /\ \A n \in DOMAIN legs : legs'[n] = legs[n]
  BY BatchLegsAdded DEF Credit
<1>6. PICK q \in [N -> batch[w]] :
        /\ IsFiniteSet(N) /\ DOMAIN legs \cap N = {} /\ DOMAIN legs' = DOMAIN legs \cup N
        /\ \A m, n \in N : q[m] = q[n] => m = n
        /\ \A i \in batch[w] : \E n \in N : q[n] = i
        /\ \A n \in N : legs'[n] = CreditLeg(q[n])
        /\ \A n \in DOMAIN legs : legs'[n] = legs[n]
  BY <1>5
<1>7. /\ \A i, k : LegsOf(i, k)' = LegsOf(i, k) \cup {n \in N : legs'[n].saga = i /\ legs'[n].kind = k}
      /\ \A i, k : IsFiniteSet(LegsOf(i, k))
      /\ \A a \in AccountId :
           /\ LegsBalance(legs, a) \in Int
           /\ LegsBalance(legs', a)
                = LegsBalance(legs, a) + SumFunctionOnSet([n \in N |-> LegEffect(legs'[n], a)], N)
  BY <1>1, <1>4, <1>6, LegsGrow
<1>8. \A n \in N : /\ legs'[n].kind = "destination" /\ legs'[n].saga = q[n]
                   /\ legs'[n].amount = sagas[q[n]].amount
                   /\ q[n] \in batch[w]
  BY <1>6 DEF CreditLeg
<1>9. TableTypes'
  BY <1>1, <1>2, <1>3, <1>4 DEF TableTypes, BatchClearings
<1>10. SagasFit'
  BY <1>1, <1>2, <1>3 DEF SagasFit
<1>11. LegsNameSagas'
  BY <1>1, <1>2, <1>3, <1>6, <1>8 DEF LegsNameSagas
<1>12. SagasPaidOnce'
  <2>1. \A n \in DOMAIN legs' : legs'[n].amount = sagas'[legs'[n].saga].amount
    <3>1. \A n \in N : legs'[n].amount = sagas'[legs'[n].saga].amount
      BY <1>2, <1>3, <1>8
    <3>2. \A n \in DOMAIN legs : legs'[n].amount = sagas'[legs'[n].saga].amount
      BY <1>1, <1>2, <1>6 DEF LegsNameSagas, SagasPaidOnce
    <3> QED
      BY <1>6, <3>1, <3>2
  <2>2. ASSUME NEW i \in DOMAIN sagas
        PROVE  /\ Cardinality(LegsOf(i, "source")') = 1
               /\ Cardinality(LegsOf(i, "destination")') = IF sagas'[i].status = "completed" THEN 1 ELSE 0
               /\ Cardinality(LegsOf(i, "refund")') = IF sagas'[i].status = "compensated" THEN 1 ELSE 0
    <3>1. /\ Cardinality(LegsOf(i, "source")) = 1
          /\ Cardinality(LegsOf(i, "destination")) = IF sagas[i].status = "completed" THEN 1 ELSE 0
          /\ Cardinality(LegsOf(i, "refund")) = IF sagas[i].status = "compensated" THEN 1 ELSE 0
      BY <1>1 DEF SagasPaidOnce
    <3>2. LegsOf(i, "source")' = LegsOf(i, "source") /\ LegsOf(i, "refund")' = LegsOf(i, "refund")
      BY <1>7, <1>8
    <3>3. CASE i \in batch[w]
      <4>1. PICK n \in N : q[n] = i
        BY <1>6, <3>3
      <4>2. {m \in N : legs'[m].saga = i /\ legs'[m].kind = "destination"} = {n}
        BY <1>6, <1>8, <4>1
      <4>3. LegsOf(i, "destination") = {}
        <5>1. Cardinality(LegsOf(i, "destination")) = 0 /\ IsFiniteSet(LegsOf(i, "destination"))
          BY <1>3, <1>7, <3>1, <3>3
        <5> QED
          BY <5>1, FS_EmptySet
      <4>4. LegsOf(i, "destination")' = {n}
        BY <1>7, <4>2, <4>3
      <4>5. Cardinality(LegsOf(i, "destination")') = 1
        BY <4>4, FS_Singleton
      <4> QED
        BY <1>2, <1>3, <3>1, <3>2, <3>3, <4>5
    <3>4. CASE i \notin batch[w]
      <4>1. {m \in N : legs'[m].saga = i /\ legs'[m].kind = "destination"} = {}
        BY <1>8, <3>4
      <4>2. LegsOf(i, "destination")' = LegsOf(i, "destination")
        BY <1>7, <4>1
      <4> QED
        BY <1>2, <3>1, <3>2, <3>4, <4>2
    <3> QED
      BY <3>3, <3>4
  <2> QED
    BY <1>2, <2>1, <2>2 DEF SagasPaidOnce
<1>13. ASSUME Grain = 1 PROVE BalancesMatchLegs'
  <2>1. ASSUME NEW a \in AccountId PROVE balance'[a] = LegsBalance(legs', a)
    <3> DEFINE f == [i \in batch[w] |-> LegEffect(CreditLeg(i), a)]
               g == [n \in N |-> LegEffect(legs'[n], a)]
    <3>1. balance[a] = LegsBalance(legs, a) /\ balance[a] \in Int
      BY <1>1, <1>13 DEF TableInv, BalancesMatchLegs, TableTypes
    <3>2. SumFunctionOnSet(f, batch[w]) = CreditDelta(w, a) /\ CreditDelta(w, a) \in Int
      BY DeltaIsEffects
    <3>3. \A i \in batch[w] : f[i] \in Int
      BY BatchFacts, EffectType
    <3>4. \A n \in N : f[q[n]] \in Int /\ g[n] = f[q[n]]
      BY <1>6, <1>8, <3>3
    <3>5. {q[n] : n \in N} = batch[w]
      BY <1>6, <1>8
    <3>6. LegsBalance(legs', a) = LegsBalance(legs, a) + SumFunctionOnSet(g, N)
      BY <1>7
    <3> HIDE DEF f, g
    <3>7. SumFunctionOnSet(g, N) = SumFunctionOnSet(f, {q[n] : n \in N})
      BY <1>6, <3>4, SumRenamed
    <3>8. LegsBalance(legs', a) = LegsBalance(legs, a) + CreditDelta(w, a)
      BY <3>2, <3>5, <3>6, <3>7
    <3> QED
      BY <1>2, <3>1, <3>8
  <2> QED
    BY <2>1 DEF BalancesMatchLegs, LegsBalance, LegEffect, Moved
<1> QED
  BY <1>9, <1>10, <1>11, <1>12, <1>13 DEF TableInv

\* The sessions after a batch: nobody else holds an account or an event of it.
LEMMA CreditKeeps ==
  ASSUME IInv, NEW w \in Worker, Credit(w) \/ CreditFails(w)
  PROVE  IInv'
<1>1. TableInv /\ TableTypes /\ SessionInv /\ SessionTypes /\ LockTypes /\ BatchAt(w)
  BY IInvParts DEF TableInv, SessionInv, BatchesAreLocked
<1>2. faults \in 0..MaxFaults /\ w \in Session
  BY <1>1 DEF SessionTypes, Session
<1>3. CASE CreditFails(w)
  BY <1>2, <1>3, EndPassKeeps DEF CreditFails
<1>4. CASE Credit(w)
  <2>1. TableInv'
    BY <1>4, CreditTables
  <2>2. /\ DOMAIN sagas' = DOMAIN sagas /\ Len(sagas') = Len(sagas)
        /\ \A i \in DOMAIN sagas :
             /\ UNCHANGED <<sagas[i].key, sagas[i].source, sagas[i].destination, sagas[i].amount>>
             /\ i \notin batch[w] => sagas'[i] = sagas[i]
        /\ \A a \in AccountId : balance'[a] = balance[a] + CreditDelta(w, a)
    BY <1>4, CreditFacts
  <2>3. LockTypes' /\ LocksKept(w)
    BY <1>1, <1>2, <1>4, ReleaseKeeps DEF Credit, EndPass
  <2>4. /\ SessionTypes' /\ pc'[w] = "idle" /\ batch'[w] = {}
        /\ \A s \in Session \ {w} : UNCHANGED pc[s]
        /\ \A v \in Worker \ {w} : UNCHANGED <<todo[v], batch[v]>>
        /\ UNCHANGED <<call, answer>>
    BY <1>1, <1>2, <1>4 DEF Credit, EndPass, SessionTypes, PC
  <2>5. \A i \in batch[w] : /\ rowLock[sagas[i].destination] = w
                            /\ rowLock[DestinationClearing(i)] = w
                            /\ eventLock[i] = w
    BY <1>1, <1>4 DEF Credit, BatchAt
  <2>6. CallsAdvance'
    <3>1. ASSUME NEW c \in Client PROVE CallAt(c)'
      <4>1. c # w /\ c \in Session
        BY TransferAssumption DEF Session
      <4>2. ASSUME rowLock[call[c].source] = c
            PROVE  balance'[call[c].source] = balance[call[c].source]
        <5>1. \A i \in batch[w] : /\ sagas[i].destination # call[c].source
                                  /\ DestinationClearing(i) # call[c].source
          BY <2>5, <4>1, <4>2
        <5>2. CreditDelta(w, call[c].source) = 0
          BY <5>1, DeltaElsewhere
        <5>3. call[c].source \in AccountId
          BY <1>1, RequestFacts
        <5> QED
          BY <1>1, <2>2, <5>2, <5>3 DEF TableTypes
      <4>3. \A i \in DOMAIN sagas' : sagas'[i].key = call[c].key => i \in DOMAIN sagas /\ sagas[i].key = call[c].key
        BY <2>2
      <4>4. UNCHANGED <<pc[c], call, answer[c]>>
        BY <2>4, <4>1
      <4> QED
        BY <1>1, <2>3, <4>1, <4>2, <4>3, <4>4, OtherCallKept
    <3> QED
      BY <3>1 DEF CallsAdvance
  <2>7. BatchesAreLocked'
    <3>1. BatchAt(w)'
      BY <2>4 DEF BatchAt
    <3>2. ASSUME NEW v \in Worker \ {w} PROVE BatchAt(v)'
      <4>1. \A i \in batch[v] : eventLock[i] = v
        BY <1>1 DEF SessionInv, BatchesAreLocked, BatchAt
      <4>2. \A i \in DOMAIN sagas : /\ sagas'[i].destination = sagas[i].destination
                                    /\ i \in batch[v] => sagas'[i].status = sagas[i].status
        BY <2>2, <2>5, <4>1
      <4>3. UNCHANGED <<pc[v], todo[v], batch[v]>> /\ v # w
        BY <2>4 DEF Session
      <4> QED
        BY <1>1, <2>2, <2>3, <4>2, <4>3, OtherBatchKept
    <3> QED
      BY <3>1, <3>2 DEF BatchesAreLocked
  <2>8. AnswersNameSagas'
    <3>1. ASSUME NEW c \in Client PROVE AnswerAt(c)'
      BY <1>1, <2>2, <2>4, AnswerKept DEF SessionInv, AnswersNameSagas
    <3> QED
      BY <3>1 DEF AnswersNameSagas
  <2>9. CreatedOnce' /\ SagasAreCounted'
    BY <1>1, <2>2, <2>4 DEF SessionInv, CreatedOnce, SagasAreCounted, Committed
  <2>10. SessionInv'
    BY <2>3, <2>4, <2>6, <2>7, <2>8, <2>9 DEF SessionInv
  <2> QED
    BY <2>1, <2>10, IInvPartsNext
<1> QED
  BY <1>3, <1>4

-----------------------------------------------------------------------------
(* The compensation worker pays a source back.                             *)

\* The saga it compensates and the two balances.
LEMMA RefundFacts ==
  ASSUME IInv, NEW i \in DOMAIN sagas, sagas[i].refund = "pending",
         balance' = RefundBalance(i),
         sagas' = [sagas EXCEPT ![i].status = "compensated", ![i].refund = "processed"]
  PROVE  /\ i \in 1..MaxSagas /\ sagas[i] \in Saga /\ sagas[i].status = "failed"
         /\ sagas[i].source \in AccountId /\ sagas[i].source \notin ClearingIds
         /\ Clearing[LedgerOf[sagas[i].source]] \in ClearingIds
         /\ Clearing[LedgerOf[sagas[i].source]] \in AccountId
         /\ sagas' \in Seq(Saga) /\ DOMAIN sagas' = DOMAIN sagas /\ Len(sagas') = Len(sagas)
         /\ \A j \in DOMAIN sagas :
              /\ UNCHANGED <<sagas[j].key, sagas[j].source, sagas[j].destination, sagas[j].amount>>
              /\ j # i => sagas'[j] = sagas[j]
         /\ sagas'[i].status = "compensated" /\ sagas'[i].refund = "processed"
         /\ balance' \in [AccountId -> Int]
         /\ balance'[sagas[i].source] = balance[sagas[i].source] + sagas[i].amount
         /\ balance'[Clearing[LedgerOf[sagas[i].source]]]
              = balance[Clearing[LedgerOf[sagas[i].source]]] - sagas[i].amount
         /\ \A a \in AccountId \ {sagas[i].source, Clearing[LedgerOf[sagas[i].source]]} : balance'[a] = balance[a]
<1>1. TableTypes /\ SagasFit /\ SessionInv
  BY IInvParts DEF TableInv
<1>2. Len(sagas) \in Nat /\ DOMAIN sagas = 1..Len(sagas) /\ \A j \in DOMAIN sagas : sagas[j] \in Saga
  BY <1>1, TableFacts
<1>3. i \in 1..MaxSagas
  BY <1>1, <1>2, SagasBounded
<1>4. sagas[i] \in Saga /\ sagas[i].status = "failed" /\ sagas[i].source \notin ClearingIds
  BY <1>1, <1>2 DEF SagasFit
<1>5. sagas[i].source \in AccountId /\ sagas[i].amount \in Int
  BY <1>4 DEF Saga
<1>6. Clearing[LedgerOf[sagas[i].source]] \in ClearingIds /\ Clearing[LedgerOf[sagas[i].source]] \in AccountId
  BY <1>5, AccountsAssumption DEF ClearingIds
<1>7. PICK x : x = [sagas[i] EXCEPT !.status = "compensated", !.refund = "processed"]
  OBVIOUS
<1>8. /\ x \in Saga /\ x.status = "compensated" /\ x.refund = "processed"
      /\ x.key = sagas[i].key /\ x.source = sagas[i].source
      /\ x.destination = sagas[i].destination /\ x.amount = sagas[i].amount
  <2>1. ASSUME NEW y \in Saga, x = [y EXCEPT !.status = "compensated", !.refund = "processed"]
        PROVE  /\ x \in Saga /\ x.status = "compensated" /\ x.refund = "processed"
               /\ x.key = y.key /\ x.source = y.source /\ x.destination = y.destination /\ x.amount = y.amount
    BY <2>1 DEF Saga
  <2> QED
    BY <1>4, <1>7, <2>1
<1>9. sagas' = [sagas EXCEPT ![i] = x]
  BY <1>1, <1>7 DEF TableTypes
<1>10. /\ sagas' \in Seq(Saga) /\ DOMAIN sagas' = DOMAIN sagas /\ Len(sagas') = Len(sagas)
       /\ sagas'[i] = x /\ \A j \in DOMAIN sagas : j # i => sagas'[j] = sagas[j]
  <2>1. DOMAIN sagas' = DOMAIN sagas /\ sagas'[i] = x /\ \A j \in DOMAIN sagas : j # i => sagas'[j] = sagas[j]
    BY <1>9
  <2>2. sagas' \in [1..Len(sagas) -> Saga]
    <3>1. sagas' = [j \in DOMAIN sagas |-> sagas'[j]]
      BY <1>9
    <3>2. \A j \in DOMAIN sagas : sagas'[j] \in Saga
      BY <1>2, <1>8, <2>1
    <3> QED
      BY <1>2, <3>1, <3>2
  <2>3. PICK t : t = sagas'
    OBVIOUS
  <2>4. t \in [1..Len(sagas) -> Saga]
    BY <2>2, <2>3
  <2>5. t \in Seq(Saga) /\ Len(t) = Len(sagas)
    BY <1>2, <2>4, FunctionIsSeq
  <2> QED
    BY <2>1, <2>3, <2>5
<1>11. /\ balance' \in [AccountId -> Int]
       /\ balance'[sagas[i].source] = balance[sagas[i].source] + sagas[i].amount
       /\ balance'[Clearing[LedgerOf[sagas[i].source]]]
            = balance[Clearing[LedgerOf[sagas[i].source]]] - sagas[i].amount
       /\ \A a \in AccountId \ {sagas[i].source, Clearing[LedgerOf[sagas[i].source]]} : balance'[a] = balance[a]
  BY <1>1, <1>4, <1>5, <1>6 DEF RefundBalance, TableTypes
<1> QED
  BY <1>3, <1>4, <1>5, <1>6, <1>8, <1>10, <1>11

\* The tables after a refund.
LEMMA RefundTables ==
  ASSUME IInv, NEW i \in DOMAIN sagas, sagas[i].refund = "pending",
         balance' = RefundBalance(i),
         sagas' = [sagas EXCEPT ![i].status = "compensated", ![i].refund = "processed"],
         legs' = Append(legs, [kind |-> "refund", saga |-> i, account |-> sagas[i].source,
                               amount |-> sagas[i].amount]),
         UNCHANGED created
  PROVE  TableInv'
<1>1. TableInv /\ TableTypes /\ SagasFit /\ LegsNameSagas /\ SagasPaidOnce
  BY IInvParts DEF TableInv
<1>2. PICK leg : leg = [kind |-> "refund", saga |-> i, account |-> sagas[i].source, amount |-> sagas[i].amount]
  OBVIOUS
<1>3. PICK cl : cl = Clearing[LedgerOf[sagas[i].source]]
  OBVIOUS
<1>4. /\ i \in 1..MaxSagas /\ sagas[i] \in Saga /\ sagas[i].status = "failed"
      /\ sagas[i].source \in AccountId /\ sagas[i].source \notin ClearingIds
      /\ cl \in ClearingIds /\ cl \in AccountId
      /\ sagas' \in Seq(Saga) /\ DOMAIN sagas' = DOMAIN sagas
      /\ \A j \in DOMAIN sagas :
           /\ sagas'[j].source = sagas[j].source /\ sagas'[j].destination = sagas[j].destination
           /\ sagas'[j].amount = sagas[j].amount
           /\ j # i => sagas'[j] = sagas[j]
      /\ sagas'[i].status = "compensated" /\ sagas'[i].refund = "processed"
      /\ balance' \in [AccountId -> Int]
      /\ balance'[sagas[i].source] = balance[sagas[i].source] + sagas[i].amount
      /\ balance'[cl] = balance[cl] - sagas[i].amount
      /\ \A a \in AccountId \ {sagas[i].source, cl} : balance'[a] = balance[a]
  BY <1>3, RefundFacts
<1>5. sagas[i].amount \in Int
  BY <1>4 DEF Saga
<1>6. leg \in Leg /\ leg.kind = "refund" /\ leg.saga = i /\ leg.account = sagas[i].source /\ leg.amount = sagas[i].amount
  BY <1>2, <1>4, <1>5 DEF Leg
<1>7. legs' = Append(legs, leg)
  BY <1>2
<1>8. /\ legs' \in Seq(Leg) /\ DOMAIN legs' = DOMAIN legs \cup {Len(legs) + 1}
      /\ legs'[Len(legs) + 1] = leg
      /\ \A n \in DOMAIN legs : legs'[n] = legs[n]
      /\ \A j, k : LegsOf(j, k)' = LegsOf(j, k) \cup (IF leg.saga = j /\ leg.kind = k THEN {Len(legs) + 1} ELSE {})
      /\ \A j, k : IsFiniteSet(LegsOf(j, k)) /\ Len(legs) + 1 \notin LegsOf(j, k)
      /\ \A a \in AccountId :
           LegsBalance(legs, a) \in Int /\ LegsBalance(legs', a) = LegsBalance(legs, a) + LegEffect(leg, a)
  BY <1>1, <1>6, <1>7, LegAdded
<1>9. TableTypes'
  BY <1>1, <1>4, <1>8 DEF TableTypes
<1>10. SagasFit'
  BY <1>1, <1>4 DEF SagasFit
<1>11. LegsNameSagas'
  BY <1>1, <1>4, <1>6, <1>8 DEF LegsNameSagas
<1>12. SagasPaidOnce'
  <2>1. \A n \in DOMAIN legs' : legs'[n].amount = sagas'[legs'[n].saga].amount
    BY <1>1, <1>4, <1>6, <1>8 DEF LegsNameSagas, SagasPaidOnce
  <2>2. ASSUME NEW j \in DOMAIN sagas
        PROVE  /\ Cardinality(LegsOf(j, "source")') = 1
               /\ Cardinality(LegsOf(j, "destination")') = IF sagas'[j].status = "completed" THEN 1 ELSE 0
               /\ Cardinality(LegsOf(j, "refund")') = IF sagas'[j].status = "compensated" THEN 1 ELSE 0
    <3>1. /\ Cardinality(LegsOf(j, "source")) = 1
          /\ Cardinality(LegsOf(j, "destination")) = IF sagas[j].status = "completed" THEN 1 ELSE 0
          /\ Cardinality(LegsOf(j, "refund")) = IF sagas[j].status = "compensated" THEN 1 ELSE 0
      BY <1>1 DEF SagasPaidOnce
    <3>2. LegsOf(j, "source")' = LegsOf(j, "source") /\ LegsOf(j, "destination")' = LegsOf(j, "destination")
      BY <1>6, <1>8
    <3>3. CASE j = i
      <4>1. LegsOf(i, "refund") = {}
        <5>1. Cardinality(LegsOf(i, "refund")) = 0 /\ IsFiniteSet(LegsOf(i, "refund"))
          BY <1>4, <1>8, <3>1, <3>3
        <5> QED
          BY <5>1, FS_EmptySet
      <4>2. LegsOf(i, "refund")' = {Len(legs) + 1}
        BY <1>6, <1>8, <4>1
      <4>3. Cardinality(LegsOf(i, "refund")') = 1
        BY <4>2, FS_Singleton
      <4> QED
        BY <1>4, <3>1, <3>2, <3>3, <4>3
    <3>4. CASE j # i
      <4>1. LegsOf(j, "refund")' = LegsOf(j, "refund")
        BY <1>6, <1>8, <3>4
      <4> QED
        BY <1>4, <3>1, <3>2, <3>4, <4>1
    <3> QED
      BY <3>3, <3>4
  <2> QED
    BY <1>4, <2>1, <2>2 DEF SagasPaidOnce
<1>13. ASSUME Grain = 1 PROVE BalancesMatchLegs'
  <2>1. ASSUME NEW a \in AccountId PROVE balance'[a] = LegsBalance(legs', a)
    <3>1. balance[a] = LegsBalance(legs, a) /\ balance[a] \in Int
      BY <1>1, <1>13 DEF TableInv, BalancesMatchLegs, TableTypes
    <3>2. LegsBalance(legs', a) = LegsBalance(legs, a) + LegEffect(leg, a)
      BY <1>8
    <3>3. LegEffect(leg, a) = (IF a = sagas[i].source THEN sagas[i].amount ELSE 0)
                              - (IF a = cl THEN sagas[i].amount ELSE 0)
      BY <1>3, <1>6 DEF LegEffect, Moved
    <3>4. balance'[a] = balance[a] + LegEffect(leg, a)
      BY <1>4, <1>5, <3>1, <3>3
    <3> QED
      BY <3>1, <3>2, <3>4
  <2> QED
    BY <2>1 DEF BalancesMatchLegs, LegsBalance, LegEffect, Moved
<1> QED
  BY <1>9, <1>10, <1>11, <1>12, <1>13 DEF TableInv

\* The sessions after a refund: the rows it changed were free, and the saga
\* it paid back is in nobody's batch.
LEMMA CompensateKeeps ==
  ASSUME IInv, Compensate
  PROVE  IInv'
<1>1. TableInv /\ TableTypes /\ SessionInv /\ SessionTypes /\ LockTypes
  BY IInvParts DEF TableInv, SessionInv
<1>2. PICK i \in DOMAIN sagas :
        /\ sagas[i].refund = "pending" /\ rowLock[sagas[i].source] = Free
        /\ balance' = RefundBalance(i)
        /\ legs' = Append(legs, [kind |-> "refund", saga |-> i, account |-> sagas[i].source,
                                 amount |-> sagas[i].amount])
        /\ sagas' = [sagas EXCEPT ![i].status = "compensated", ![i].refund = "processed"]
  BY DEF Compensate
<1>3. UNCHANGED <<created, locks, pc, call, todo, batch, answer, faults>>
  BY DEF Compensate
<1>4. TableInv'
  BY <1>2, <1>3, RefundTables
<1>5. /\ sagas[i].status = "failed" /\ Clearing[LedgerOf[sagas[i].source]] \in ClearingIds
      /\ DOMAIN sagas' = DOMAIN sagas /\ Len(sagas') = Len(sagas)
      /\ \A j \in DOMAIN sagas :
           /\ UNCHANGED <<sagas[j].key, sagas[j].source, sagas[j].destination, sagas[j].amount>>
           /\ j # i => sagas'[j] = sagas[j]
      /\ \A a \in AccountId \ {sagas[i].source, Clearing[LedgerOf[sagas[i].source]]} : balance'[a] = balance[a]
  BY <1>2, RefundFacts
<1>6. LockTypes' /\ SessionTypes' /\ LocksKept(Free)
  BY <1>1, <1>3 DEF locks, LockTypes, SessionTypes, LocksKept
<1>7. CallsAdvance'
  <2>1. ASSUME NEW c \in Client PROVE CallAt(c)'
    <3>1. Free # c
      BY TransferAssumption
    <3>2. ASSUME rowLock[call[c].source] = c
          PROVE  balance'[call[c].source] = balance[call[c].source]
      <4>1. call[c].source \in AccountId /\ call[c].source \notin ClearingIds
        BY <1>1, RequestFacts
      <4> QED
        BY <1>2, <1>5, <3>1, <3>2, <4>1
    <3>3. \A j \in DOMAIN sagas' : sagas'[j].key = call[c].key => j \in DOMAIN sagas /\ sagas[j].key = call[c].key
      BY <1>5
    <3> QED
      BY <1>1, <1>3, <1>6, <3>1, <3>2, <3>3, OtherCallKept
  <2> QED
    BY <2>1 DEF CallsAdvance
<1>8. BatchesAreLocked'
  <2>1. ASSUME NEW w \in Worker PROVE BatchAt(w)'
    <3>1. Free # w
      BY TransferAssumption
    <3>2. i \notin batch[w]
      BY <1>1, <1>5 DEF SessionInv, BatchesAreLocked, BatchAt
    <3>3. \A j \in DOMAIN sagas : /\ sagas'[j].destination = sagas[j].destination
                                  /\ j \in batch[w] => sagas'[j].status = sagas[j].status
      BY <1>5, <3>2
    <3> QED
      BY <1>1, <1>3, <1>5, <1>6, <3>1, <3>3, OtherBatchKept
  <2> QED
    BY <2>1 DEF BatchesAreLocked
<1>9. AnswersNameSagas'
  <2>1. ASSUME NEW c \in Client PROVE AnswerAt(c)'
    BY <1>1, <1>3, <1>5, AnswerKept DEF SessionInv, AnswersNameSagas
  <2> QED
    BY <2>1 DEF AnswersNameSagas
<1>10. CreatedOnce' /\ SagasAreCounted'
  BY <1>1, <1>3, <1>5 DEF SessionInv, CreatedOnce, SagasAreCounted, Committed
<1>11. SessionInv'
  BY <1>6, <1>7, <1>8, <1>9, <1>10 DEF SessionInv
<1> QED
  BY <1>4, <1>11, IInvPartsNext

-----------------------------------------------------------------------------
(* The invariant.                                                          *)

\* The sagas an earlier release left behind, with their source legs.
LEMMA InitIInv == Init => IInv
<1> SUFFICES ASSUME Init PROVE IInv
  OBVIOUS
<1>1. /\ Len(InitialSagas) \in Nat /\ DOMAIN InitialSagas = 1..Len(InitialSagas)
      /\ \A i \in DOMAIN InitialSagas : InitialSagas[i] \in Saga
  BY InitialAssumption, LenProperties, ElementOfSeq
<1>2. Cardinality(Client) \in Nat
  BY TransferAssumption, FS_CardinalityType
<1>3. MaxSagas \in Nat /\ DOMAIN InitialSagas \subseteq 1..MaxSagas
  BY <1>1, <1>2 DEF MaxSagas
<1>4. /\ DOMAIN InitialLegs = DOMAIN InitialSagas
      /\ \A i \in DOMAIN InitialSagas :
           /\ InitialLegs[i] \in Leg /\ InitialLegs[i].kind = "source" /\ InitialLegs[i].saga = i
           /\ InitialLegs[i].amount = InitialSagas[i].amount
  <2>1. ASSUME NEW i \in DOMAIN InitialSagas
        PROVE  /\ InitialLegs[i] \in Leg /\ InitialLegs[i].kind = "source" /\ InitialLegs[i].saga = i
               /\ InitialLegs[i].amount = InitialSagas[i].amount
    <3>1. InitialSagas[i].source \in AccountId /\ InitialSagas[i].amount \in Int
      BY <1>1 DEF Saga
    <3>2. InitialLegs[i] = [kind |-> "source", saga |-> i, account |-> InitialSagas[i].source,
                            amount |-> InitialSagas[i].amount]
      BY DEF InitialLegs
    <3> QED
      BY <1>3, <3>1, <3>2 DEF Leg
  <2> QED
    BY <2>1 DEF InitialLegs
<1>5. InitialLegs \in Seq(Leg)
  <2>1. InitialLegs = [i \in 1..Len(InitialSagas) |-> InitialLegs[i]]
    BY <1>1 DEF InitialLegs
  <2>2. InitialLegs \in [1..Len(InitialSagas) -> Leg]
    BY <1>1, <1>4, <2>1
  <2> QED
    BY <1>1, <2>2, FunctionIsSeq
<1>6. ASSUME NEW a \in AccountId PROVE LegsBalance(InitialLegs, a) \in Int
  <2> DEFINE D == DOMAIN InitialLegs
             f == [n \in D |-> LegEffect(InitialLegs[n], a)]
  <2>1. IsFiniteSet(D)
    <3>1. D = 1..Len(InitialSagas)
      BY <1>1, <1>4
    <3>2. IsFiniteSet(1..Len(InitialSagas))
      BY <1>1, FS_Interval
    <3> QED
      BY <3>1, <3>2
  <2>2. \A n \in D : f[n] \in Int
    BY <1>4, EffectType
  <2>3. LegsBalance(InitialLegs, a) = Opening[a] + SumFunctionOnSet(f, D)
    BY DEF LegsBalance, SumFunction
  <2>4. Opening[a] \in Int
    BY AccountsAssumption
  <2> HIDE DEF D, f
  <2>5. SumFunctionOnSet(f, D) \in Int
    BY <2>1, <2>2, SumType
  <2> QED
    BY <2>3, <2>4, <2>5
<1>7. sagas = InitialSagas /\ legs = InitialLegs
  BY DEF Init
<1>8. TableTypes
  <2>1. balance \in [AccountId -> Int]
    BY <1>6 DEF Init
  <2> QED
    BY <1>5, <1>7, <2>1, InitialAssumption, TransferAssumption DEF TableTypes, Init
<1>9. SagasFit /\ LegsNameSagas
  <2>1. SagasFit
    BY <1>7, InitialAssumption DEF SagasFit
  <2>2. LegsNameSagas
    BY <1>4, <1>7 DEF LegsNameSagas
  <2> QED
    BY <2>1, <2>2
<1>10. SagasPaidOnce
  <2>1. ASSUME NEW i \in DOMAIN sagas
        PROVE  /\ LegsOf(i, "source") = {i} /\ LegsOf(i, "destination") = {} /\ LegsOf(i, "refund") = {}
               /\ sagas[i].status \in {"pending", "failed"}
    BY <1>4, <1>7, InitialAssumption DEF LegsOf
  <2>2. \A i \in DOMAIN sagas : Cardinality({i}) = 1
    BY FS_Singleton
  <2>3. Cardinality({}) = 0
    BY FS_EmptySet
  <2>4. \A n \in DOMAIN legs : legs[n].amount = sagas[legs[n].saga].amount
    BY <1>4, <1>7
  <2> QED
    BY <2>1, <2>2, <2>3, <2>4 DEF SagasPaidOnce
<1>11. BalancesMatchLegs
  BY DEF Init, BalancesMatchLegs
<1>12. LockTypes
  BY DEF Init, LockTypes
<1>13. SessionTypes
  <2>1. 0 \in 0..MaxSagas /\ 0 \in 0..MaxFaults
    BY <1>3, TransferAssumption
  <2> QED
    BY <2>1 DEF Init, SessionTypes, PC, Result
<1>14. CallsAdvance
  BY DEF Init, CallsAdvance, CallAt, Session
<1>15. BatchesAreLocked
  BY DEF Init, BatchesAreLocked, BatchAt, Session
<1>16. AnswersNameSagas /\ CreatedOnce
  BY DEF Init, AnswersNameSagas, AnswerAt, CreatedOnce
<1>17. SagasAreCounted
  <2>1. Committed = {}
    BY DEF Init, Committed
  <2>2. Cardinality(Committed) = 0
    BY <2>1, FS_EmptySet
  <2> QED
    BY <1>1, <1>7, <2>2 DEF SagasAreCounted
<1> QED
  BY <1>8, <1>9, <1>10, <1>11, <1>12, <1>13, <1>14, <1>15, <1>16, <1>17, IInvParts DEF TableInv, SessionInv

\* Steps that change nothing.
LEMMA StutterKeeps ==
  ASSUME IInv, UNCHANGED vars
  PROVE  IInv'
<1>1. TableInv /\ SessionInv
  BY IInvParts
<1>2. UNCHANGED <<tables, locks, pc, call, todo, batch, answer, faults>>
  BY DEF vars
<1>3. TableInv'
  BY <1>1, <1>2, TablesKept
<1>4. LockTypes' /\ SessionTypes'
  BY <1>1, <1>2 DEF SessionInv, LockTypes, SessionTypes, locks
<1>5. CallsAdvance'
  BY <1>1, <1>2 DEF SessionInv, CallsAdvance, CallAt, tables, locks
<1>6. BatchesAreLocked'
  BY <1>1, <1>2 DEF SessionInv, BatchesAreLocked, BatchAt, DestinationClearing, tables, locks
<1>7. AnswersNameSagas' /\ CreatedOnce' /\ SagasAreCounted'
  BY <1>1, <1>2 DEF SessionInv, AnswersNameSagas, AnswerAt, SameTransfer, CreatedOnce, SagasAreCounted,
                    Committed, tables
<1>8. SessionInv'
  BY <1>4, <1>5, <1>6, <1>7 DEF SessionInv
<1> QED
  BY <1>3, <1>8, IInvPartsNext

\* Every step of every session.
LEMMA NextKeeps == IInv /\ [Next]_vars => IInv'
<1> SUFFICES ASSUME IInv, [Next]_vars PROVE IInv'
  OBVIOUS
<1>1. ASSUME NEW c \in Client, Submit(c) \/ ClientStep(c) \/ CommitUnacknowledged(c) PROVE IInv'
  BY <1>1, StartKeeps, LockSourceKeeps, ClearingKeeps, InsertSagaKeeps, UpdateBalancesKeeps,
     SourceCommitKeeps DEF ClientStep
<1>2. ASSUME NEW w \in Worker, WorkerStep(w) PROVE IInv'
  BY <1>2, PickKeeps, LockingKeeps, CreditKeeps DEF WorkerStep
<1>3. CASE Compensate
  BY <1>3, CompensateKeeps
<1>4. ASSUME NEW s \in Session, DeadlockVictim(s) \/ DatabaseError(s) PROVE IInv'
  BY <1>4, AbortKeeps
<1>5. CASE Finished \/ UNCHANGED vars
  BY <1>5, StutterKeeps DEF Finished
<1> QED
  BY <1>1, <1>2, <1>3, <1>4, <1>5 DEF Next

\* The invariant holds throughout: of the transfers, whatever the order of the
\* statements of the calls, the workers and the compensation.
THEOREM Inductive == Spec => []IInv
  BY InitIInv, NextKeeps, PTL DEF Spec

\* Type correctness of CreateTransfer, the credit workers and the compensation
\* worker.
THEOREM TypeCorrect == Spec => []TypeOK
<1>1. IInv => TypeOK
  BY DEF IInv
<1> QED
  BY <1>1, Inductive, PTL

\* However workers race, fail and repeat, a saga is debited once, and credited
\* or refunded exactly as its status says: eventLock and the status test of
\* processDestinationCreditBatch are enough.
THEOREM PaidOnce == Spec => []SagasPaidOnce
<1>1. IInv => SagasPaidOnce
  BY DEF IInv
<1> QED
  BY <1>1, Inductive, PTL

\* For amounts in whole cents the stored balances are what the posted legs add
\* up to: no update of a shared clearing account is lost.
THEOREM BalancesAreLegs == Grain = 1 => (Spec => []BalancesMatchLegs)
<1> SUFFICES ASSUME Grain = 1 PROVE Spec => []BalancesMatchLegs
  OBVIOUS
<1>1. IInv => BalancesMatchLegs
  BY DEF IInv
<1> QED
  BY <1>1, Inductive, PTL

\* For amounts in whole cents every answer of CreateTransfer is what happened:
\* a saga of that key for that very request, claimed by one call, and nothing
\* debited for a call that failed.
THEOREM AnswersAreTrue == Grain = 1 => (Spec => []AnswersTruthful)
<1> SUFFICES ASSUME Grain = 1 PROVE Spec => []AnswersTruthful
  OBVIOUS
<1>1. IInv => AnswersTruthful
  <2> SUFFICES ASSUME IInv PROVE AnswersTruthful
    OBVIOUS
  <2>1. SessionInv
    BY IInvParts
  <2>2. Len(sagas) = Len(InitialSagas) + Cardinality(Committed) /\ Len(InitialSagas) \in Nat
        /\ Cardinality(Committed) \in Nat
    BY <2>1, SagasBounded DEF SessionInv, SagasAreCounted
  <2>3. Len(sagas) - Len(InitialSagas) = Cardinality(Committed)
    BY <2>2
  <2> QED
    BY <2>1, <2>3 DEF SessionInv, AnswersNameSagas, AnswerAt, CreatedOnce, AnswersTruthful, Committed
<1> QED
  BY <1>1, Inductive, PTL

-----------------------------------------------------------------------------
(* Transfer implements SagaSpec.                                           *)

\* What the refinement shows of the tables.
Funds == [a \in AccountId \ ClearingIds |-> balance[a]]
Held  == [a \in ClearingIds |-> balance[a] - Opening[a]]
Terms == [i \in DOMAIN sagas |->
            [key |-> sagas[i].key, source |-> sagas[i].source,
             destination |-> sagas[i].destination, amount |-> sagas[i].amount,
             status |-> sagas[i].status]]

Term == [key : Key, source : AccountId, destination : AccountId, amount : Int,
         status : {"pending", "completed", "failed", "compensated"}]

\* Sums and displayed balances of the abstract specification are the ones of
\* this module.
LEMMA SagaRules ==
  /\ \A f : Sagas!SumFunction(f) = SumFunctionOnSet(f, DOMAIN f)
  /\ \A t, x : Sagas!DisplayedBalance(t, x) = DisplayedBalance(t, x)
<1>1. ASSUME NEW f PROVE Sagas!SumFunction(f) = SumFunctionOnSet(f, DOMAIN f)
  BY DEF Sagas!SumFunction, Sagas!SumFunctionOnSet, Sagas!FoldFunctionOnSet, Sagas!MapThenFoldSet,
         SumFunctionOnSet, FoldFunctionOnSet, MapThenFoldSet
<1>2. ASSUME NEW t, NEW x PROVE Sagas!DisplayedBalance(t, x) = DisplayedBalance(t, x)
  BY DEF Sagas!DisplayedBalance, Sagas!DebitNormal, DebitNormal, DisplayedBalance
<1> QED
  BY <1>1, <1>2

\* The variables of the abstract specification.
LEMMA SagaVars == Sagas!vars = <<Funds, SumFunctionOnSet(Held, ClearingIds), Terms>>
  BY DEF Sagas!vars, Funds, Held, Terms, SumFunction

\* The mapped tables, field by field.
MappedFacts ==
  /\ Terms \in Seq(Term) /\ Len(Terms) = Len(sagas) /\ DOMAIN Terms = DOMAIN sagas
  /\ \A i \in DOMAIN sagas :
       Terms[i] = [key |-> sagas[i].key, source |-> sagas[i].source,
                   destination |-> sagas[i].destination, amount |-> sagas[i].amount,
                   status |-> sagas[i].status]
  /\ \A a \in ClearingIds : a \in AccountId /\ Held[a] = balance[a] - Opening[a] /\ Held[a] \in Int
  /\ Funds \in [AccountId \ ClearingIds -> Int]
  /\ \A a \in AccountId \ ClearingIds : Funds[a] = balance[a]

\* The mapped tables are well typed, ...
LEMMA Mapped == TableTypes => MappedFacts
<1> SUFFICES ASSUME TableTypes PROVE MappedFacts
  OBVIOUS
<1>1. Len(sagas) \in Nat /\ DOMAIN sagas = 1..Len(sagas) /\ \A i \in DOMAIN sagas : sagas[i] \in Saga
  BY TableFacts
<1>2. Terms \in [1..Len(sagas) -> Term]
  BY <1>1 DEF Terms, Term, Saga
<1>3. Terms \in Seq(Term) /\ Len(Terms) = Len(sagas)
  BY <1>1, <1>2, FunctionIsSeq
<1>4. \A a \in ClearingIds : a \in AccountId /\ Held[a] = balance[a] - Opening[a] /\ Held[a] \in Int
  BY AccountsAssumption DEF Held, TableTypes
<1>5. /\ Funds \in [AccountId \ ClearingIds -> Int]
      /\ \A a \in AccountId \ ClearingIds : Funds[a] = balance[a]
  BY DEF Funds, TableTypes
<1> QED
  BY <1>3, <1>4, <1>5 DEF MappedFacts, Terms

\* ... also after a step.
LEMMA MappedNext == TableTypes' => MappedFacts'
  BY Mapped, PTL

\* CreateTransfer commits: a transfer begins.
LEMMA CommitBegins ==
  ASSUME IInv, Grain = 1, NEW c \in Client, pc[c] = "commit", SourceCommit(c)
  PROVE  Sagas!Begin
<1>1. TableTypes /\ SessionTypes /\ CallAt(c) /\ TableTypes'
  BY IInvParts, CommitTables DEF TableInv, SessionInv, CallsAdvance
<1>2. MappedFacts /\ MappedFacts'
  BY <1>1, Mapped, MappedNext
<1>3. PICK m : m = Len(sagas) + 1
  OBVIOUS
<1>4. /\ m \notin DOMAIN sagas /\ Len(sagas') = m
      /\ DOMAIN sagas' = DOMAIN sagas \cup {m}
      /\ sagas'[m] = NewSaga(c) /\ \A i \in DOMAIN sagas : sagas'[i] = sagas[i]
      /\ balance'[call[c].source] = Round(balance[call[c].source] - call[c].amount)
      /\ balance'[SourceClearing(c)] = Round(balance[SourceClearing(c)] + call[c].amount)
      /\ \A a \in AccountId \ {call[c].source, SourceClearing(c)} : balance'[a] = balance[a]
  BY <1>3, CommitFacts
<1>5. /\ call[c] \in Calls /\ call[c].key \in Key /\ call[c].amount \in Int
      /\ call[c].source \in AccountId \ ClearingIds /\ call[c].destination \in AccountId \ ClearingIds
      /\ SourceClearing(c) \in ClearingIds /\ SourceClearing(c) \in AccountId
  BY <1>1, RequestFacts
<1>6. /\ Round(call[c].amount) = call[c].amount
      /\ Round(balance[call[c].source] - call[c].amount) = balance[call[c].source] - call[c].amount
      /\ Round(balance[SourceClearing(c)] + call[c].amount) = balance[SourceClearing(c)] + call[c].amount
      /\ balance[call[c].source] \in Int /\ balance[SourceClearing(c)] \in Int
  <2>1. balance[call[c].source] \in Int /\ balance[SourceClearing(c)] \in Int
    BY <1>1, <1>5 DEF TableTypes
  <2> QED
    BY <1>1, <1>5, <2>1, RoundWhole, SMTT(30)
<1>7. PICK new : new = [key |-> call[c].key, source |-> call[c].source,
                        destination |-> call[c].destination, amount |-> Round(call[c].amount),
                        status |-> "pending"]
  OBVIOUS
<1>8. new \in Sagas!NewSaga /\ new \in Term
  BY <1>5, <1>6, <1>7 DEF Sagas!NewSaga, Term
<1>9. /\ new.amount = call[c].amount /\ new.amount > 0
      /\ new.source = call[c].source /\ new.key = call[c].key
      /\ LedgerOf[new.source] # LedgerOf[new.destination]
  BY <1>1, <1>6, <1>7 DEF CallAt
<1>10. \A i \in DOMAIN Terms : Terms[i].key # new.key
  BY <1>1, <1>2, <1>9 DEF CallAt, MappedFacts
<1>11. Sagas!DisplayedBalance(TypeOf[new.source], Funds[new.source] - new.amount) >= 0
  BY <1>1, <1>2, <1>5, <1>9, SagaRules DEF CallAt, MappedFacts
<1>12. Terms' = Append(Terms, new)
  <2>1. Terms \in Seq(Term) /\ Len(Terms) = Len(sagas) /\ Len(sagas) \in Nat /\ DOMAIN sagas = 1..Len(sagas)
    BY <1>1, <1>2, TableFacts DEF MappedFacts
  <2>2. PICK t : t = Terms'
    OBVIOUS
  <2>3. t \in Seq(Term) /\ Len(t) = m
    BY <1>2, <1>4, <2>2 DEF MappedFacts
  <2>4. /\ Append(Terms, new) \in Seq(Term) /\ Len(Append(Terms, new)) = m
        /\ \A i \in 1..Len(sagas) : Append(Terms, new)[i] = Terms[i]
        /\ Append(Terms, new)[m] = new
    BY <1>3, <1>8, <2>1, AppendProperties
  <2>5. \A i \in DOMAIN sagas' :
          t[i] = [key |-> sagas'[i].key, source |-> sagas'[i].source,
                  destination |-> sagas'[i].destination, amount |-> sagas'[i].amount,
                  status |-> sagas'[i].status]
    BY <2>2 DEF Terms
  <2>6. \A i \in DOMAIN sagas : t[i] = Terms[i]
    BY <1>4, <2>5 DEF Terms
  <2>7. t[m] = new
    <3>1. /\ sagas'[m].key = call[c].key /\ sagas'[m].source = call[c].source
          /\ sagas'[m].destination = call[c].destination
          /\ sagas'[m].amount = Round(call[c].amount) /\ sagas'[m].status = "pending"
      BY <1>4 DEF NewSaga
    <3>2. t[m] = [key |-> sagas'[m].key, source |-> sagas'[m].source,
                  destination |-> sagas'[m].destination, amount |-> sagas'[m].amount,
                  status |-> sagas'[m].status]
      BY <1>4, <2>5
    <3> QED
      BY <1>7, <3>1, <3>2
  <2>8. \A i \in 1..m : i = m \/ i \in 1..Len(sagas)
    BY <1>3, <2>1
  <2>9. \A i \in 1..m : t[i] = Append(Terms, new)[i]
    BY <2>1, <2>4, <2>6, <2>7, <2>8
  <2>10. t = Append(Terms, new)
    BY <2>3, <2>4, <2>9, SeqEqual
  <2> QED
    BY <2>2, <2>10
<1>13. Funds' = [Funds EXCEPT ![new.source] = Funds[new.source] - new.amount]
  <2>1. \A a \in AccountId \ ClearingIds :
          balance'[a] = IF a = new.source THEN Funds[new.source] - new.amount ELSE Funds[a]
    BY <1>4, <1>5, <1>6, <1>9 DEF Funds
  <2>2. Funds' = [a \in AccountId \ ClearingIds |-> balance'[a]]
    BY DEF Funds
  <2>3. Funds = [a \in AccountId \ ClearingIds |-> Funds[a]] /\ new.source \in AccountId \ ClearingIds
    BY <1>5, <1>9 DEF Funds
  <2> QED
    BY <2>1, <2>2, <2>3
<1>14. SumFunctionOnSet(Held', ClearingIds) = SumFunctionOnSet(Held, ClearingIds) + new.amount
  <2>1. PICK h : h = Held'
    OBVIOUS
  <2>2. IsFiniteSet(ClearingIds) /\ Opening[SourceClearing(c)] \in Int
    BY <1>5, AccountsAssumption
  <2>3. \A a \in ClearingIds : h[a] \in Int /\ Held[a] \in Int
    BY <1>2, <2>1 DEF MappedFacts
  <2>4. \A a \in ClearingIds \ {SourceClearing(c)} : h[a] = Held[a]
    BY <1>4, <1>5, <2>1, AccountsAssumption DEF Held
  <2>5. h[SourceClearing(c)] = Held[SourceClearing(c)] + call[c].amount
    BY <1>2, <1>4, <1>5, <1>6, <2>1, <2>2 DEF MappedFacts
  <2>6. SumFunctionOnSet(h, ClearingIds) = SumFunctionOnSet(Held, ClearingIds) + h[SourceClearing(c)] - Held[SourceClearing(c)]
    BY <1>5, <2>2, <2>3, <2>4, SumOneChanged
  <2>7. SumFunctionOnSet(Held, ClearingIds) \in Int
    BY <2>2, <2>3, SumType
  <2>8. SumFunctionOnSet(h, ClearingIds) = SumFunctionOnSet(Held, ClearingIds) + new.amount
    BY <1>5, <1>9, <2>3, <2>5, <2>6, <2>7
  <2> QED
    BY <2>1, <2>8
<1> QED
  BY <1>8, <1>9, <1>10, <1>11, <1>12, <1>13, <1>14
     DEF Sagas!Begin, Funds, Terms, Held, SumFunction

\* The amounts of some sagas, added up.
LEMMA AmountSum ==
  ASSUME MappedFacts, NEW S \in SUBSET DOMAIN sagas
  PROVE  Sagas!AmountOf(S) = SumFunctionOnSet([i \in S |-> sagas[i].amount], S)
<1>1. [i \in S |-> Terms[i].amount] = [i \in S |-> sagas[i].amount]
  BY DEF MappedFacts
<1>2. Sagas!AmountOf(S) = Sagas!SumFunction([i \in S |-> Terms[i].amount])
  BY DEF Sagas!AmountOf, Terms
<1>3. DOMAIN [i \in S |-> sagas[i].amount] = S
  OBVIOUS
<1> QED
  BY <1>1, <1>2, <1>3, SagaRules

\* The terms after the sagas of a set have changed their status.
LEMMA StatusSet ==
  ASSUME NEW S \in SUBSET DOMAIN sagas, NEW status, DOMAIN sagas' = DOMAIN sagas,
         \A i \in DOMAIN sagas :
           /\ UNCHANGED <<sagas[i].key, sagas[i].source, sagas[i].destination, sagas[i].amount>>
           /\ i \in S => sagas'[i].status = status
           /\ i \notin S => sagas'[i] = sagas[i]
  PROVE  Sagas!SetStatus(S, status)
<1>1. ASSUME NEW i \in DOMAIN sagas
      PROVE  Terms'[i] = IF i \in S THEN [Terms[i] EXCEPT !.status = status] ELSE Terms[i]
  <2>1. Terms'[i] = [key |-> sagas'[i].key, source |-> sagas'[i].source,
                     destination |-> sagas'[i].destination, amount |-> sagas'[i].amount,
                     status |-> sagas'[i].status]
    BY DEF Terms
  <2>2. Terms[i] = [key |-> sagas[i].key, source |-> sagas[i].source,
                    destination |-> sagas[i].destination, amount |-> sagas[i].amount,
                    status |-> sagas[i].status]
    BY DEF Terms
  <2> QED
    BY <2>1, <2>2
<1>2. DOMAIN Terms = DOMAIN sagas
  BY DEF Terms
<1>3. Terms' = [i \in DOMAIN sagas |-> Terms'[i]]
  BY DEF Terms
<1>4. Terms' = [i \in DOMAIN Terms |-> IF i \in S THEN [Terms[i] EXCEPT !.status = status] ELSE Terms[i]]
  BY <1>1, <1>2, <1>3
<1> QED
  BY <1>4 DEF Sagas!SetStatus, Terms

\* A worker pays its batch: its transfers arrive.
LEMMA CreditArrives ==
  ASSUME IInv, NEW w \in Worker, Credit(w)
  PROVE  Sagas!Arrive \/ UNCHANGED Sagas!vars
<1> DEFINE S == batch[w]
<1>1. TableTypes /\ TableTypes'
  BY IInvParts, CreditTables DEF TableInv
<1>2. MappedFacts /\ MappedFacts'
  BY <1>1, Mapped, MappedNext
<1>3. /\ DOMAIN sagas' = DOMAIN sagas
      /\ \A i \in DOMAIN sagas :
           /\ UNCHANGED <<sagas[i].key, sagas[i].source, sagas[i].destination, sagas[i].amount>>
           /\ i \in S => sagas'[i].status = "completed"
           /\ i \notin S => sagas'[i] = sagas[i]
      /\ \A a \in AccountId : balance'[a] = balance[a] + CreditDelta(w, a)
  BY CreditFacts
<1>4. /\ IsFiniteSet(S) /\ S \in SUBSET DOMAIN sagas
      /\ \A i \in S : /\ sagas[i].status = "pending" /\ sagas[i].amount \in Int
                      /\ sagas[i].destination \notin ClearingIds
                      /\ DestinationClearing(i) \in ClearingIds
  BY BatchFacts
<1>5. ASSUME NEW a
      PROVE  CreditDelta(w, a)
               = SumFunctionOnSet([i \in S |-> IF sagas[i].destination = a THEN sagas[i].amount ELSE 0], S)
                 - SumFunctionOnSet([i \in S |-> IF DestinationClearing(i) = a THEN sagas[i].amount ELSE 0], S)
  BY DEF CreditDelta, SumFunction
<1>6. Sagas!SetStatus(S, "completed")
  BY <1>3, <1>4, StatusSet
<1>7. Funds' = [a \in AccountId \ ClearingIds |->
                  Funds[a] + Sagas!AmountOf({i \in S : Terms[i].destination = a})]
  <2>1. ASSUME NEW a \in AccountId \ ClearingIds
        PROVE  balance'[a] = Funds[a] + Sagas!AmountOf({i \in S : Terms[i].destination = a})
    <3> DEFINE T == {i \in S : sagas[i].destination = a}
               x == [i \in S |-> IF sagas[i].destination = a THEN sagas[i].amount ELSE 0]
               y == [i \in S |-> IF DestinationClearing(i) = a THEN sagas[i].amount ELSE 0]
               f == [i \in T |-> sagas[i].amount]
    <3>1. {i \in S : Terms[i].destination = a} = T
      BY <1>2, <1>4 DEF MappedFacts
    <3>2. Sagas!AmountOf(T) = SumFunctionOnSet(f, T)
      BY <1>2, <1>4, AmountSum
    <3>3. \A i \in S : y[i] = 0 /\ x[i] \in Int
      BY <1>4
    <3>4. \A i \in T : f[i] \in Int /\ x[i] = f[i]
      BY <1>4
    <3>5. \A i \in S \ T : x[i] = 0
      OBVIOUS
    <3>6. T \in SUBSET S
      OBVIOUS
    <3>7. CreditDelta(w, a) = SumFunctionOnSet(x, S) - SumFunctionOnSet(y, S)
      BY <1>5
    <3>8. balance[a] = Funds[a] /\ balance[a] \in Int
      BY <1>1 DEF Funds, TableTypes
    <3> HIDE DEF S, T, x, y, f
    <3>9. SumFunctionOnSet(y, S) = 0
      BY <1>4, <3>3, SumZero
    <3>10. SumFunctionOnSet(x, S) = SumFunctionOnSet(f, T)
      BY <1>4, <3>4, <3>5, <3>6, SumSelected
    <3>11. SumFunctionOnSet(x, S) \in Int
      BY <1>4, <3>3, SumType
    <3>12. CreditDelta(w, a) = SumFunctionOnSet(f, T)
      BY <3>7, <3>9, <3>10, <3>11
    <3> QED
      BY <1>3, <3>1, <3>2, <3>8, <3>12
  <2> QED
    BY <2>1 DEF Funds
<1>8. SumFunctionOnSet(Held', ClearingIds) = SumFunctionOnSet(Held, ClearingIds) - Sagas!AmountOf(S)
  <2> DEFINE f == [i \in S |-> sagas[i].amount]
             group == [i \in S |-> DestinationClearing(i)]
             y == [a \in ClearingIds |->
                     [i \in S |-> IF DestinationClearing(i) = a THEN sagas[i].amount ELSE 0]]
             h == [a \in ClearingIds |-> SumFunctionOnSet(y[a], S)]
  <2>1. PICK g : g = Held'
    OBVIOUS
  <2>2. IsFiniteSet(ClearingIds)
    BY AccountsAssumption
  <2>3. \A i \in S : f[i] \in Int /\ group[i] \in ClearingIds
    BY <1>4
  <2>4. \A a \in ClearingIds : \A i \in S : y[a][i] = IF group[i] = a THEN f[i] ELSE 0
    OBVIOUS
  <2>5. ASSUME NEW a \in ClearingIds PROVE h[a] \in Int /\ g[a] \in Int /\ Held[a] = g[a] + h[a]
    <3> DEFINE x == [i \in S |-> IF sagas[i].destination = a THEN sagas[i].amount ELSE 0]
    <3>1. \A i \in S : x[i] = 0 /\ y[a][i] \in Int
      BY <1>4
    <3>2. CreditDelta(w, a) = SumFunctionOnSet(x, S) - SumFunctionOnSet(y[a], S)
      BY <1>5
    <3>3. h[a] = SumFunctionOnSet(y[a], S)
      OBVIOUS
    <3>4. /\ a \in AccountId /\ Held[a] = balance[a] - Opening[a] /\ Held[a] \in Int
          /\ g[a] = balance'[a] - Opening[a] /\ g[a] \in Int
      BY <1>2, <2>1 DEF MappedFacts
    <3>5. balance[a] \in Int /\ Opening[a] \in Int /\ balance'[a] = balance[a] + CreditDelta(w, a)
      BY <1>1, <1>3, <3>4, AccountsAssumption DEF TableTypes
    <3> HIDE DEF S, x, y, h
    <3>6. SumFunctionOnSet(x, S) = 0 /\ SumFunctionOnSet(y[a], S) \in Int
      BY <1>4, <3>1, SumZero, SumType
    <3> QED
      BY <3>2, <3>3, <3>4, <3>5, <3>6
  <2>6. Sagas!AmountOf(S) = SumFunctionOnSet(f, S)
    BY <1>2, <1>4, AmountSum
  <2>12. \A a \in ClearingIds : h[a] = SumFunctionOnSet(y[a], S)
    OBVIOUS
  <2> HIDE DEF S, f, group, y, h
  <2>7. SumFunctionOnSet(h, ClearingIds) = SumFunctionOnSet(f, S)
    <3>1. Grouped(f, S, ClearingIds, group, y, h)
      BY <1>4, <2>2, <2>3, <2>4, <2>12 DEF Grouped
    <3> QED
      BY <3>1, SumByGroup
  <2>8. SumFunctionOnSet(Held, ClearingIds) = SumFunctionOnSet(g, ClearingIds) + SumFunctionOnSet(h, ClearingIds)
    BY <2>2, <2>5, SumPlus
  <2>9. SumFunctionOnSet(g, ClearingIds) \in Int /\ SumFunctionOnSet(h, ClearingIds) \in Int
    BY <2>2, <2>5, SumType
  <2>10. SumFunctionOnSet(g, ClearingIds) = SumFunctionOnSet(Held, ClearingIds) - Sagas!AmountOf(S)
    BY <2>6, <2>7, <2>8, <2>9
  <2> QED
    BY <2>1, <2>10
<1>9. CASE S # {}
  <2>1. S \in (SUBSET {i \in DOMAIN Terms : Terms[i].status = "pending"}) \ {{}}
    <3>1. \A i \in S : i \in DOMAIN Terms /\ Terms[i].status = "pending"
      BY <1>2, <1>4 DEF MappedFacts
    <3> QED
      BY <1>9, <3>1
  <2> HIDE DEF S
  <2>2. Sagas!Arrive
    BY <1>6, <1>7, <1>8, <2>1 DEF Sagas!Arrive, Funds, Terms, Held, SumFunction
  <2> QED
    BY <2>2
<1>10. CASE S = {}
  <2>1. \A a \in AccountId : CreditDelta(w, a) = 0
    BY <1>10, DeltaElsewhere
  <2>2. \A a \in AccountId : balance'[a] = balance[a] /\ balance[a] \in Int
    BY <1>1, <1>3, <2>1 DEF TableTypes
  <2>3. Funds' = Funds
    BY <2>2 DEF Funds
  <2>4. Held' = Held
    BY <2>2, AccountsAssumption DEF Held
  <2>5. Terms' = Terms
    BY <1>3, <1>10 DEF Terms
  <2> QED
    BY <2>3, <2>4, <2>5 DEF Sagas!vars, Funds, Held, Terms
<1> QED
  BY <1>9, <1>10

\* The compensation worker pays a source back.
LEMMA CompensatePaysBack ==
  ASSUME IInv, Compensate
  PROVE  Sagas!PayBack
<1>1. PICK i \in DOMAIN sagas :
        /\ sagas[i].refund = "pending"
        /\ balance' = RefundBalance(i)
        /\ legs' = Append(legs, [kind |-> "refund", saga |-> i, account |-> sagas[i].source,
                                 amount |-> sagas[i].amount])
        /\ sagas' = [sagas EXCEPT ![i].status = "compensated", ![i].refund = "processed"]
  BY DEF Compensate
<1>2. TableTypes /\ TableTypes'
  BY <1>1, IInvParts, RefundTables DEF TableInv, Compensate
<1>3. MappedFacts /\ MappedFacts'
  BY <1>2, Mapped, MappedNext
<1>4. PICK cl : cl = Clearing[LedgerOf[sagas[i].source]]
  OBVIOUS
<1>5. /\ sagas[i] \in Saga /\ sagas[i].status = "failed"
      /\ sagas[i].source \in AccountId /\ sagas[i].source \notin ClearingIds
      /\ cl \in ClearingIds /\ cl \in AccountId
      /\ DOMAIN sagas' = DOMAIN sagas
      /\ \A j \in DOMAIN sagas :
           /\ UNCHANGED <<sagas[j].key, sagas[j].source, sagas[j].destination, sagas[j].amount>>
           /\ j # i => sagas'[j] = sagas[j]
      /\ sagas'[i].status = "compensated"
      /\ balance'[sagas[i].source] = balance[sagas[i].source] + sagas[i].amount
      /\ balance'[cl] = balance[cl] - sagas[i].amount
      /\ \A a \in AccountId \ {sagas[i].source, cl} : balance'[a] = balance[a]
  BY <1>1, <1>4, RefundFacts
<1>6. sagas[i].amount \in Int
  BY <1>5 DEF Saga
<1>7. /\ i \in DOMAIN Terms /\ Terms[i].status = "failed"
      /\ Terms[i].source = sagas[i].source /\ Terms[i].amount = sagas[i].amount
  BY <1>3, <1>5 DEF MappedFacts
<1>8. Sagas!SetStatus({i}, "compensated")
  BY <1>5, StatusSet
<1>9. Funds' = [Funds EXCEPT ![Terms[i].source] = Funds[Terms[i].source] + Terms[i].amount]
  <2>1. \A a \in AccountId \ ClearingIds :
          balance'[a] = IF a = Terms[i].source THEN Funds[Terms[i].source] + Terms[i].amount ELSE Funds[a]
    BY <1>5, <1>7 DEF Funds
  <2>2. Funds' = [a \in AccountId \ ClearingIds |-> balance'[a]]
    BY DEF Funds
  <2>3. /\ Funds = [a \in AccountId \ ClearingIds |-> Funds[a]]
        /\ Terms[i].source \in AccountId \ ClearingIds
    BY <1>5, <1>7 DEF Funds
  <2> QED
    BY <2>1, <2>2, <2>3
<1>10. SumFunctionOnSet(Held', ClearingIds) = SumFunctionOnSet(Held, ClearingIds) - Terms[i].amount
  <2>1. PICK h : h = Held'
    OBVIOUS
  <2>2. IsFiniteSet(ClearingIds) /\ Opening[cl] \in Int /\ balance[cl] \in Int
    BY <1>2, <1>5, AccountsAssumption DEF TableTypes
  <2>3. \A a \in ClearingIds : h[a] \in Int /\ Held[a] \in Int
    BY <1>3, <2>1 DEF MappedFacts
  <2>4. \A a \in ClearingIds \ {cl} : h[a] = Held[a]
    BY <1>5, <2>1, AccountsAssumption DEF Held
  <2>5. h[cl] = Held[cl] - sagas[i].amount
    <3>1. h[cl] = balance'[cl] - Opening[cl] /\ Held[cl] = balance[cl] - Opening[cl]
      BY <1>5, <2>1 DEF Held
    <3> QED
      BY <1>5, <1>6, <2>2, <3>1
  <2>6. SumFunctionOnSet(h, ClearingIds) = SumFunctionOnSet(Held, ClearingIds) + h[cl] - Held[cl]
    BY <1>5, <2>2, <2>3, <2>4, SumOneChanged
  <2>7. SumFunctionOnSet(Held, ClearingIds) \in Int
    BY <2>2, <2>3, SumType
  <2>8. SumFunctionOnSet(h, ClearingIds) = SumFunctionOnSet(Held, ClearingIds) - Terms[i].amount
    BY <1>5, <1>6, <1>7, <2>3, <2>5, <2>6, <2>7
  <2> QED
    BY <2>1, <2>8
<1> QED
  BY <1>7, <1>8, <1>9, <1>10 DEF Sagas!PayBack, Funds, Terms, Held, SumFunction

\* Every other step leaves the tables alone.
LEMMA OtherStepsStutter ==
  ASSUME [Next]_vars,
         \A c \in Client : ~Commit(c) /\ ~CommitUnacknowledged(c),
         \A w \in Worker : ~Credit(w), ~Compensate
  PROVE  UNCHANGED tables /\ UNCHANGED Sagas!vars
<1>1. UNCHANGED tables
  <2>1. ASSUME NEW c \in Client, Submit(c) \/ ClientStep(c) PROVE UNCHANGED tables
    BY <2>1 DEF ClientStep, Submit, Lookup, LockSource, FindClearing, InsertClearing, InsertSaga,
                UpdateBalances, GoTo, ReturnOnly
  <2>2. ASSUME NEW w \in Worker, WorkerStep(w) PROVE UNCHANGED tables
    BY <2>2 DEF WorkerStep, Pick, InsertMissing, BeginLocking, LockRow, CreditFails
  <2>3. ASSUME NEW s \in Session, DeadlockVictim(s) \/ DatabaseError(s) PROVE UNCHANGED tables
    BY <2>3 DEF DeadlockVictim, DatabaseError, Abort, ReturnOnly
  <2>4. CASE Finished \/ UNCHANGED vars
    BY <2>4 DEF Finished, vars
  <2> QED
    BY <2>1, <2>2, <2>3, <2>4 DEF Next
<1> QED
  BY <1>1 DEF tables, Sagas!vars

\* What the sagas of an earlier release left in transit is what their legs
\* put into the clearing accounts.
LEMMA InitMapped == Init => Sagas!Init
<1> SUFFICES ASSUME Init PROVE Sagas!Init
  OBVIOUS
<1>1. TableTypes /\ SagasFit
  BY InitIInv, IInvParts DEF TableInv
<1>2. MappedFacts
  BY <1>1, Mapped
<1> DEFINE D == DOMAIN sagas
<1>3. IsFiniteSet(D)
  <2>1. D = 1..Len(sagas) /\ Len(sagas) \in Nat
    BY <1>1, TableFacts
  <2>2. IsFiniteSet(1..Len(sagas))
    BY <2>1, FS_Interval
  <2> QED
    BY <2>1, <2>2
<1>4. Sagas!Unsettled = D
  <2>1. \A i \in D : sagas[i].status \in {"pending", "failed"}
    BY InitialAssumption DEF Init
  <2>2. Sagas!Unsettled = {i \in DOMAIN Terms : Terms[i].status \in {"pending", "failed"}}
    BY DEF Sagas!Unsettled, Terms
  <2> QED
    BY <1>2, <2>1, <2>2 DEF MappedFacts
<1>5. SumFunctionOnSet(Held, ClearingIds) = Sagas!AmountOf(D)
  <2> DEFINE f == [i \in D |-> sagas[i].amount]
             group == [i \in D |-> Clearing[LedgerOf[sagas[i].source]]]
             part == [a \in ClearingIds |-> [i \in D |-> LegEffect(InitialLegs[i], a)]]
  <2>1. Sagas!AmountOf(D) = SumFunctionOnSet(f, D)
    BY <1>2, AmountSum
  <2>2. ASSUME NEW i \in D
        PROVE  /\ f[i] \in Int /\ group[i] \in ClearingIds
               /\ \A a \in ClearingIds : part[a][i] = IF group[i] = a THEN f[i] ELSE 0
    <3>1. sagas[i] \in Saga /\ sagas[i].source \notin ClearingIds
      BY <1>1, TableFacts DEF SagasFit
    <3>2. sagas[i].amount \in Int /\ sagas[i].source \in AccountId
      BY <3>1 DEF Saga
    <3>3. Clearing[LedgerOf[sagas[i].source]] \in ClearingIds
      BY <3>2, AccountsAssumption DEF ClearingIds
    <3>4. /\ InitialLegs[i].kind = "source" /\ InitialLegs[i].account = sagas[i].source
          /\ InitialLegs[i].amount = sagas[i].amount
      BY DEF InitialLegs, Init
    <3>5. ASSUME NEW a \in ClearingIds
          PROVE  LegEffect(InitialLegs[i], a) = IF group[i] = a THEN f[i] ELSE 0
      <4>1. LegEffect(InitialLegs[i], a) = 0 - (IF a = group[i] THEN -f[i] ELSE 0)
        BY <3>1, <3>2, <3>4 DEF LegEffect, Moved
      <4> QED
        BY <3>2, <4>1
    <3> QED
      BY <3>2, <3>3, <3>5
  <2>3. ASSUME NEW a \in ClearingIds PROVE Held[a] = SumFunctionOnSet(part[a], D)
    <3>1. a \in AccountId /\ Held[a] = balance[a] - Opening[a] /\ Opening[a] \in Int
      BY <1>2, AccountsAssumption DEF MappedFacts
    <3>2. balance[a] = LegsBalance(InitialLegs, a) /\ DOMAIN InitialLegs = D
      BY <3>1 DEF Init, InitialLegs
    <3>3. part[a] = [i \in D |-> LegEffect(InitialLegs[i], a)]
      OBVIOUS
    <3>4. balance[a] = Opening[a] + SumFunctionOnSet(part[a], D)
      BY <3>2, <3>3 DEF LegsBalance, SumFunction
    <3>5. \A i \in D : part[a][i] \in Int
      BY <2>2
    <3> HIDE DEF D, part
    <3>6. SumFunctionOnSet(part[a], D) \in Int
      BY <1>3, <3>5, SumType
    <3> QED
      BY <3>1, <3>4, <3>6
  <2>4. IsFiniteSet(ClearingIds)
    BY AccountsAssumption
  <2> HIDE DEF D, f, group, part
  <2>5. Grouped(f, D, ClearingIds, group, part, Held)
    BY <1>3, <2>2, <2>3, <2>4 DEF Grouped
  <2> QED
    BY <2>1, <2>5, SumByGroup
<1>6. Funds \in [AccountId \ ClearingIds -> Int]
  BY <1>2 DEF MappedFacts
<1> HIDE DEF D
<1> QED
  BY <1>4, <1>5, <1>6 DEF Sagas!Init, Funds, Held, Terms, SumFunction

\* Every step is a step of a transfer, or changes nothing a client can see.
LEMMA NextMapped ==
  ASSUME Grain = 1
  PROVE  IInv /\ [Next]_vars => [Sagas!Next]_(Sagas!vars)
<1> SUFFICES ASSUME IInv, [Next]_vars PROVE Sagas!Next \/ UNCHANGED Sagas!vars
  OBVIOUS
<1>1. ASSUME NEW c \in Client, Commit(c) \/ CommitUnacknowledged(c) PROVE Sagas!Begin
  BY <1>1, CommitBegins DEF Commit, CommitUnacknowledged
<1>2. ASSUME NEW w \in Worker, Credit(w) PROVE Sagas!Arrive \/ UNCHANGED Sagas!vars
  BY <1>2, CreditArrives
<1>3. CASE Compensate
  BY <1>3, CompensatePaysBack DEF Sagas!Next
<1> QED
  BY <1>1, <1>2, <1>3, OtherStepsStutter DEF Sagas!Next

\* Transfers on PostgreSQL are sagas, for amounts in whole cents: every commit
\* of CreateTransfer, of a credit worker and of the compensation worker is one
\* step of SagaSpec, and no other statement is a step at all.
THEOREM TransfersImplementSagas == Grain = 1 => (Spec => TransfersAreSagas)
<1> SUFFICES ASSUME Grain = 1 PROVE Spec => TransfersAreSagas
  OBVIOUS
<1>1. IInv /\ [Next]_vars => [Sagas!Next]_(Sagas!vars)
  BY NextMapped
<1> QED
  BY <1>1, InitMapped, Inductive, PTL DEF Spec, TransfersAreSagas, Sagas!Spec

-----------------------------------------------------------------------------
(* Repeated requests.                                                      *)

\* sagas.idempotency_key is unique.
KeysUnique == \A i, j \in DOMAIN sagas : sagas[i].key = sagas[j].key => i = j

\* The insert of a saga checks the key and locks it until the commit.
LEMMA KeysStayUnique == IInv /\ KeysUnique /\ [Next]_vars => KeysUnique'
<1> SUFFICES ASSUME IInv, KeysUnique, [Next]_vars PROVE KeysUnique'
  OBVIOUS
<1>1. ASSUME NEW c \in Client, Commit(c) \/ CommitUnacknowledged(c) PROVE KeysUnique'
  <2>1. pc[c] = "commit" /\ SourceCommit(c)
    BY <1>1 DEF Commit, CommitUnacknowledged
  <2>2. PICK m : m = Len(sagas) + 1
    OBVIOUS
  <2>3. /\ DOMAIN sagas' = DOMAIN sagas \cup {m} /\ m \notin DOMAIN sagas
        /\ sagas'[m] = NewSaga(c) /\ \A i \in DOMAIN sagas : sagas'[i] = sagas[i]
    BY <2>1, <2>2, CommitFacts
  <2>5. sagas'[m].key = call[c].key
    BY <2>3 DEF NewSaga
  <2>4. \A i \in DOMAIN sagas : sagas[i].key # call[c].key
    BY <2>1, IInvParts DEF SessionInv, CallsAdvance, CallAt
  <2> QED
    BY <2>3, <2>4, <2>5 DEF KeysUnique
<1>2. ASSUME NEW w \in Worker, Credit(w) PROVE KeysUnique'
  BY <1>2, CreditFacts DEF KeysUnique
<1>3. CASE Compensate
  <2>1. PICK i \in DOMAIN sagas :
          /\ sagas[i].refund = "pending" /\ balance' = RefundBalance(i)
          /\ sagas' = [sagas EXCEPT ![i].status = "compensated", ![i].refund = "processed"]
    BY <1>3 DEF Compensate
  <2>2. DOMAIN sagas' = DOMAIN sagas /\ \A j \in DOMAIN sagas : sagas'[j].key = sagas[j].key
    BY <2>1, RefundFacts
  <2> QED
    BY <2>2 DEF KeysUnique
<1> QED
  BY <1>1, <1>2, <1>3, OtherStepsStutter DEF KeysUnique, tables

\* A call that is looking for its key is moved on by nobody else, and by
\* nothing but an answer or a failure.
LEMMA OnlyLookupMoves ==
  ASSUME IInv, [Next]_vars, NEW c \in Client, pc[c] = "lookup", pc'[c] # "lookup", faults' = faults
  PROVE  Lookup(c)
<1>1. c \in Session /\ c \notin Worker /\ Client \subseteq Session /\ Worker \subseteq Session
  BY TransferAssumption DEF Session
<1>2. pc \in [Session -> PC] /\ faults \in Nat
  BY IInvParts, TransferAssumption DEF SessionInv, SessionTypes
<1>3. ASSUME NEW s \in Session \ {c}, NEW l, pc' = [pc EXCEPT ![s] = l] PROVE FALSE
  BY <1>1, <1>2, <1>3
<1>4. ASSUME UNCHANGED pc PROVE FALSE
  BY <1>4
<1>5. ASSUME NEW d \in Client, Submit(d) \/ ClientStep(d) \/ CommitUnacknowledged(d)
      PROVE  Lookup(c)
  <2>1. \E l : pc' = [pc EXCEPT ![d] = l]
    BY <1>5 DEF ClientStep, Submit, Lookup, LockSource, FindClearing, InsertClearing, InsertSaga,
                UpdateBalances, Commit, CommitUnacknowledged, GoTo, ReturnOnly, Return
  <2>2. d = c
    BY <1>1, <1>3, <2>1
  <2> QED
    BY <1>5, <2>2 DEF ClientStep, Submit, LockSource, FindClearing, InsertClearing, InsertSaga,
                      UpdateBalances, Commit, CommitUnacknowledged
<1>6. ASSUME NEW w \in Worker, WorkerStep(w) PROVE FALSE
  <2>1. UNCHANGED pc \/ \E l : pc' = [pc EXCEPT ![w] = l]
    BY <1>6 DEF WorkerStep, Pick, InsertMissing, BeginLocking, LockRow, Credit, CreditFails, EndPass
  <2> QED
    BY <1>1, <1>3, <1>4, <2>1
<1>7. ASSUME NEW s \in Session, DeadlockVictim(s) \/ DatabaseError(s) PROVE FALSE
  <2>1. \E l : pc' = [pc EXCEPT ![s] = l]
    BY <1>7 DEF DeadlockVictim, DatabaseError, Abort, ReturnOnly, Return, EndPass
  <2>2. s = c
    BY <1>3, <2>1
  <2>3. ~DatabaseError(c)
    BY <1>2 DEF DatabaseError, Fault
  <2>4. Deadlocked(c)
    BY <1>7, <2>2, <2>3 DEF DeadlockVictim
  <2>5. \E u : WaitsFor(c, u)
    BY <2>4 DEF Deadlocked
  <2> QED
    BY <1>1, <2>5 DEF WaitsFor
<1>8. Compensate \/ Finished \/ UNCHANGED vars => UNCHANGED pc
  BY DEF Compensate, Finished, vars
<1> QED
  BY <1>4, <1>5, <1>6, <1>7, <1>8 DEF Next

\* Were it not for keys that parse as UUIDs (transfer_uuid_key), a repeated
\* request whose saga is there when scanSaga looks would always be answered
\* with that saga.
THEOREM DuplicatesAreFound == UuidKey = {} => (Spec => DuplicateFindsSaga)
<1> SUFFICES ASSUME UuidKey = {} PROVE Spec => DuplicateFindsSaga
  OBVIOUS
<1>1. Init => KeysUnique
  BY InitialAssumption DEF Init, KeysUnique
<1>2. ASSUME IInv, KeysUnique, [Next]_vars, NEW c \in Client,
             pc[c] = "lookup", pc'[c] # "lookup", faults' = faults,
             NEW i \in DOMAIN sagas, sagas[i].key = call[c].key, SameTransfer(sagas[i], call[c])
      PROVE  answer'[c].status = "existing"
  <2>1. Lookup(c)
    BY <1>2, OnlyLookupMoves
  <2>2. FoundSagas(call[c].key) = {i}
    BY <1>2 DEF FoundSagas, KeysUnique
  <2>3. ReturnOnly(c, "existing", i)
    BY <1>2, <2>1, <2>2 DEF Lookup
  <2>4. answer \in [Client -> Result]
    BY <1>2, IInvParts DEF SessionInv, SessionTypes
  <2> QED
    BY <2>3, <2>4 DEF ReturnOnly, Return
<1>3. ASSUME IInv, KeysUnique, [Next]_vars
      PROVE  \A c \in Client :
               /\ pc[c] = "lookup" /\ pc'[c] # "lookup" /\ faults' = faults
               /\ \E i \in DOMAIN sagas : sagas[i].key = call[c].key /\ SameTransfer(sagas[i], call[c])
               => answer'[c].status = "existing"
  BY <1>2, <1>3
<1>4. IInv /\ KeysUnique /\ [Next]_vars =>
        [\A c \in Client :
           /\ pc[c] = "lookup" /\ pc'[c] # "lookup" /\ faults' = faults
           /\ \E i \in DOMAIN sagas : sagas[i].key = call[c].key /\ SameTransfer(sagas[i], call[c])
           => answer'[c].status = "existing"]_vars
  BY <1>3
<1> QED
  BY <1>1, <1>4, KeysStayUnique, Inductive, PTL DEF Spec, DuplicateFindsSaga
=============================================================================
