--------------------------- MODULE PostingProofs ---------------------------
(***************************************************************************)
(* Machine-checked proofs about Posting, for every set of sessions,        *)
(* accounts, keys and calls.                                               *)
(***************************************************************************)
EXTENDS PostingRefinement, LedgerRulesProofs, SumTheorems

\* The inductive invariant.
IInv ==
  /\ TypeOK
  /\ LocksFollowProgram
  /\ ReadsStayCurrent
  /\ WritesAreLocked
  /\ ClaimedKeysAreNew
  /\ NoOverdraft

\* The net effect of a posting on an account is an integer.
LEMMA ChangeType ==
  ASSUME NEW entries \in Seq(Entry), NEW a
  PROVE  Change(entries, a) \in Int
<1> DEFINE f == [i \in DOMAIN entries |->
                   IF entries[i].account = a THEN entries[i].debit - entries[i].credit ELSE 0]
<1>1. Len(entries) \in Nat /\ DOMAIN entries = 1..Len(entries)
  OBVIOUS
<1>2. IsFiniteSet(DOMAIN entries)
  BY <1>1, FS_Interval
<1>3. \A i \in DOMAIN entries : f[i] \in Int
  <2> SUFFICES ASSUME NEW i \in DOMAIN entries PROVE f[i] \in Int
    OBVIOUS
  <2>1. entries[i] \in Entry
    OBVIOUS
  <2>2. entries[i].debit \in Int /\ entries[i].credit \in Int
    BY <2>1 DEF Entry
  <2> QED
    BY <2>2
<1>4. Change(entries, a) = SumFunctionOnSet(f, DOMAIN entries)
  BY DEF Change, Total, SumFunction
<1> HIDE DEF f
<1> QED
  BY <1>2, <1>3, <1>4, SumType

\* What the requests look like.
LEMMA CallFacts ==
  \A c \in Calls :
    /\ c.batch \in BOOLEAN
    /\ c.key \in Key \cup {NoKey}
    /\ c.batch => c.key = NoKey
    /\ ~c.batch => Len(c.postings) = 1
    /\ Len(c.postings) \in Nat /\ DOMAIN c.postings = 1..Len(c.postings)
    /\ \A i \in DOMAIN c.postings :
         /\ AccountsOf(c.postings[i]) \subseteq AccountId \cup Malformed
         /\ \A j \in DOMAIN c.postings[i] :
              c.postings[i][j].debit \in Int /\ c.postings[i][j].credit \in Int
         /\ \A a \in AccountId : Change(c.postings[i], a) \in Int
<1> SUFFICES ASSUME NEW c \in Calls, NEW i \in DOMAIN c.postings
             PROVE  /\ AccountsOf(c.postings[i]) \subseteq AccountId \cup Malformed
                    /\ \A j \in DOMAIN c.postings[i] :
                         c.postings[i][j].debit \in Int /\ c.postings[i][j].credit \in Int
                    /\ \A a \in AccountId : Change(c.postings[i], a) \in Int
  BY CallsAssumption
<1>1. c.postings[i] \in Seq(Entry)
  BY CallsAssumption
<1>2. \A j \in DOMAIN c.postings[i] : c.postings[i][j] \in Entry
  BY <1>1
<1> QED
  BY <1>1, <1>2, ChangeType DEF AccountsOf, Entry

\* The results of a call: one per posting.
LEMMA AnswersType ==
  ASSUME NEW s \in Session, NEW status \in Status, NEW txn \in Nat
  PROVE  AllAnswers(s, status, txn) \in [Indices(s) -> Result]
  BY DEF AllAnswers, Result

LEMMA AnswersKept ==
  ASSUME AnswersOK, UNCHANGED <<answer, call>>
  PROVE  AnswersOK'
  BY DEF AnswersOK, Indices

LEMMA AnswersSet ==
  ASSUME AnswersOK, NEW s \in Session, NEW results \in [Indices(s) -> Result],
         answer' = [answer EXCEPT ![s] = results], call' = call
  PROVE  AnswersOK'
<1>1. answer' = [t \in Session |-> IF t = s THEN results ELSE answer[t]]
  BY DEF AnswersOK
<1>2. \A t \in Session : Indices(t)' = Indices(t)
  BY DEF Indices
<1> QED
  BY <1>1, <1>2 DEF AnswersOK

\* What a returning call leaves behind: its locks are gone, its locals are
\* cleared, and the other sessions are as they were.
LEMMA ReturnClears ==
  ASSUME IInv, NEW s \in Session, NEW results \in [Indices(s) -> Result],
         Return(s, results)
  PROVE  /\ rowLock' \in [AccountId -> Session \cup {Free}]
         /\ keyLock' \in [Key -> Session \cup {Free}]
         /\ pc' \in [Session -> PC]
         /\ call' = call /\ retry' = retry
         /\ missing' \in [Session -> SUBSET AccountId]
         /\ todo' \in [Session -> SUBSET AccountId]
         /\ running' \in [Session -> [AccountId -> Int]]
         /\ delta' \in [Session -> [AccountId -> Int]]
         /\ cursor' \in [Session -> Nat]
         /\ accepted' \in [Session -> Seq(Nat)]
         /\ AnswersOK'
         /\ Held(s)' = {}
         /\ \A t \in Session \ {s} : /\ Held(t)' = Held(t)
                                     /\ running'[t] = running[t]
                                     /\ delta'[t] = delta[t]
<1> USE DEF Return, ReleaseLocks, ForgetAttempt, Zero, IInv, TypeOK
<1>1. rowLock' \in [AccountId -> Session \cup {Free}] /\ keyLock' \in [Key -> Session \cup {Free}]
  OBVIOUS
<1>2. pc' \in [Session -> PC] /\ call' = call /\ retry' = retry
  BY DEF PC
<1>3. /\ missing' \in [Session -> SUBSET AccountId]
      /\ todo' \in [Session -> SUBSET AccountId]
      /\ running' \in [Session -> [AccountId -> Int]]
      /\ delta' \in [Session -> [AccountId -> Int]]
      /\ cursor' \in [Session -> Nat]
  OBVIOUS
<1>4. accepted' \in [Session -> Seq(Nat)]
  OBVIOUS
<1>5. AnswersOK'
  BY AnswersSet
<1>6. Held(s)' = {} /\ \A t \in Session \ {s} : Held(t)' = Held(t)
  BY SessionAssumption DEF Held
<1>7. \A t \in Session \ {s} : running'[t] = running[t] /\ delta'[t] = delta[t]
  OBVIOUS
<1> QED
  BY <1>1, <1>2, <1>3, <1>4, <1>5, <1>6, <1>7

\* The lock discipline survives a return, whether it commits or not.
LEMMA ReturnKeepsLocks ==
  ASSUME IInv, NEW s \in Session, NEW results \in [Indices(s) -> Result],
         Return(s, results)
  PROVE  LocksFollowProgram' /\ WritesAreLocked'
<1> USE DEF Return, ReleaseLocks, ForgetAttempt, Zero
<1>1. LocksFollowProgram'
  <2> SUFFICES ASSUME NEW t \in Session
               PROVE  /\ todo'[t] # {} => pc'[t] = "lock"
                      /\ Held(t)' # {} => pc'[t] \in {"lock", "check", "commit"}
                      /\ \A a \in Held(t)', b \in todo'[t] : a < b
                      /\ \A k \in Key : keyLock'[k] = t => pc'[t] \in Working /\ call'[t].key = k
                      /\ pc'[t] \in Working /\ call'[t].key # NoKey => keyLock'[call'[t].key] = t
                      /\ pc'[t] \in {"read", "claim"} => call'[t].key # NoKey
    BY DEF LocksFollowProgram
  <2>1. CASE t = s
    BY <2>1, SessionAssumption DEF IInv, TypeOK, Held, Working
  <2>2. CASE t # s
    <3>1. Held(t)' = Held(t) /\ pc'[t] = pc[t] /\ todo'[t] = todo[t] /\ call'[t] = call[t]
      BY <2>2, SessionAssumption DEF IInv, TypeOK, Held
    <3>2. \A k \in Key : keyLock'[k] = t <=> keyLock[k] = t
      BY <2>2, SessionAssumption DEF IInv, TypeOK
    <3>3. call[t].key \in Key \cup {NoKey}
      BY CallFacts DEF IInv, TypeOK
    <3> QED
      BY <3>1, <3>2, <3>3 DEF IInv, LocksFollowProgram
  <2> QED
    BY <2>1, <2>2
<1>2. WritesAreLocked'
  BY SessionAssumption DEF IInv, TypeOK, WritesAreLocked, Held, Touched, Posting, Indices
<1> QED
  BY <1>1, <1>2

\* A call that returns without committing keeps the invariant.
LEMMA ReturnKeepsIInv ==
  ASSUME IInv, NEW s \in Session, NEW results \in [Indices(s) -> Result],
         ReturnOnly(s, results), faults' \in 0..MaxFaults
  PROVE  IInv'
<1>1. Return(s, results) /\ UNCHANGED <<tables, posted>>
  BY DEF ReturnOnly
<1>2. TypeOK'
  BY <1>1, ReturnClears DEF IInv, TypeOK, tables
<1>3. LocksFollowProgram' /\ WritesAreLocked'
  BY <1>1, ReturnKeepsLocks
<1>4. ReadsStayCurrent'
  BY <1>1, ReturnClears DEF IInv, ReadsStayCurrent, tables
<1>5. ClaimedKeysAreNew'
  BY <1>1 DEF IInv, TypeOK, ClaimedKeysAreNew, tables, Return, ReleaseLocks
<1>6. NoOverdraft'
  BY <1>1 DEF IInv, NoOverdraft, tables
<1> QED
  BY <1>2, <1>3, <1>4, <1>5, <1>6 DEF IInv

\* A step that moves one session's program counter within its call, and
\* changes no table, lock or local of the invariant but its answer, keeps it.
LEMMA MoveKeepsIInv ==
  ASSUME IInv, NEW s \in Session, NEW to \in PC,
         pc' = [pc EXCEPT ![s] = to],
         UNCHANGED <<tables, locks, call, retry, todo, running, delta, cursor, accepted, posted>>,
         missing' \in [Session -> SUBSET AccountId],
         AnswersOK',
         faults' \in 0..MaxFaults,
         \/ pc[s] = "idle" /\ to = "begin" /\ call[s].key = NoKey
         \/ pc[s] = "idle" /\ to = "read" /\ call[s].key # NoKey
         \/ pc[s] = "read" /\ to = "claim"
         \/ pc[s] = "lock" /\ to = "check" /\ todo[s] = {}
         \/ pc[s] = "check" /\ to = "commit" /\ call[s].batch
  PROVE  IInv'
<1> USE DEF tables, locks
<1>1. TypeOK'
  BY DEF IInv, TypeOK
<1>2. LocksFollowProgram'
  <2>1. \A t \in Session : Held(t)' = Held(t)
    BY DEF Held
  <2> QED
    BY <2>1 DEF IInv, TypeOK, LocksFollowProgram, Working
<1>3. ReadsStayCurrent'
  BY DEF IInv, ReadsStayCurrent, Held
<1>4. WritesAreLocked'
  <2>1. \A t \in Session : /\ Held(t)' = Held(t) /\ Touched(t)' = Touched(t)
                           /\ Indices(t)' = Indices(t)
    BY DEF Held, Touched, Posting, Indices
  <2>2. ASSUME NEW t \in Session
        PROVE  /\ pc'[t] \notin {"check", "commit"} => accepted'[t] = <<>> /\ delta'[t] = Zero
               /\ ~call'[t].batch => accepted'[t] = IF pc'[t] = "commit" THEN <<1>> ELSE <<>>
    <3>1. CASE t = s
      BY <3>1 DEF IInv, TypeOK, WritesAreLocked
    <3>2. CASE t # s
      BY <3>2 DEF IInv, TypeOK, WritesAreLocked
    <3> QED
      BY <3>1, <3>2
  <2>3. Zero' = Zero
    BY DEF Zero
  <2> QED
    BY <2>1, <2>2, <2>3 DEF IInv, WritesAreLocked
<1>5. ClaimedKeysAreNew'
  BY DEF IInv, ClaimedKeysAreNew
<1>6. NoOverdraft'
  BY DEF IInv, NoOverdraft
<1> QED
  BY <1>1, <1>2, <1>3, <1>4, <1>5, <1>6 DEF IInv

LEMMA CreateAccountKeepsIInv ==
  ASSUME IInv, NEW a \in AccountId, CreateAccount(a)
  PROVE  IInv'
<1> USE DEF CreateAccount, locks, locals
<1>1. TypeOK'
  BY AnswersKept DEF IInv, TypeOK
<1>2. LocksFollowProgram'
  BY DEF IInv, LocksFollowProgram, Held
<1>3. ReadsStayCurrent'
  BY DEF IInv, ReadsStayCurrent, Held
<1>4. WritesAreLocked'
  BY DEF IInv, WritesAreLocked, Held, Touched, Posting, Indices
<1>5. ClaimedKeysAreNew' /\ NoOverdraft'
  BY DEF IInv, ClaimedKeysAreNew, NoOverdraft
<1> QED
  BY <1>1, <1>2, <1>3, <1>4, <1>5 DEF IInv

\* The accounts a call names have well-formed IDs.
LEMMA NamedType == \A s : Named(s) \subseteq AccountId
  BY DEF Named, Prepared, Parses

LEMMA SubmitKeepsIInv ==
  ASSUME IInv, NEW s \in Session, Submit(s) \/ SubmitBatch(s)
  PROVE  IInv'
<1>1. TypeOK /\ faults' \in 0..MaxFaults
  BY DEF IInv, TypeOK, Submit, SubmitBatch
<1>2. call[s] \in Calls
  BY <1>1 DEF TypeOK
<1>3. CASE Submit(s)
  <2>1. CASE ValidateTransaction(Posting(s, 1))
    <3> DEFINE to == IF call[s].key = NoKey THEN "begin" ELSE "read"
    <3>1. to \in PC
      BY DEF PC
    <3>2. /\ pc[s] = "idle" /\ pc' = [pc EXCEPT ![s] = to]
          /\ missing' = [missing EXCEPT ![s] = Named(s) \ created]
          /\ UNCHANGED <<tables, locks, call, retry, todo, running, delta, cursor, accepted, posted, answer>>
      BY <1>3, <2>1 DEF Submit
    <3>3. AnswersOK' /\ missing' \in [Session -> SUBSET AccountId]
      BY <1>1, <3>2, AnswersKept, NamedType DEF TypeOK
    <3>4. \/ pc[s] = "idle" /\ to = "begin" /\ call[s].key = NoKey
          \/ pc[s] = "idle" /\ to = "read" /\ call[s].key # NoKey
      BY <3>2
    <3> QED
      BY <1>1, <3>1, <3>2, <3>3, <3>4, MoveKeepsIInv
  <2>2. CASE ~ValidateTransaction(Posting(s, 1))
    <3>1. AllAnswers(s, "rejected", 0) \in [Indices(s) -> Result]
      BY <1>1, AnswersType DEF Status
    <3>2. ReturnOnly(s, AllAnswers(s, "rejected", 0))
      BY <1>3, <2>2 DEF Submit
    <3> QED
      BY <1>1, <3>1, <3>2, ReturnKeepsIInv
  <2> QED
    BY <2>1, <2>2
<1>4. CASE SubmitBatch(s)
  <2>1. /\ AllAnswers(s, "error", 0) \in [Indices(s) -> Result]
        /\ AllAnswers(s, "rejected", 0) \in [Indices(s) -> Result]
    BY <1>1, AnswersType DEF Status
  <2>2. CASE ReturnOnly(s, AllAnswers(s, "error", 0))
    BY <1>1, <2>1, <2>2, ReturnKeepsIInv
  <2>3. CASE ReturnOnly(s, AllAnswers(s, "rejected", 0))
    BY <1>1, <2>1, <2>3, ReturnKeepsIInv
  <2> DEFINE results == [i \in Indices(s) |->
                           [status |-> IF Prepared(Posting(s, i)) THEN "open" ELSE "rejected",
                            txn |-> 0]]
  <2>4. CASE /\ pc' = [pc EXCEPT ![s] = "begin"]
             /\ answer' = [answer EXCEPT ![s] = results]
             /\ missing' = [missing EXCEPT ![s] = Named(s) \ created]
             /\ UNCHANGED <<tables, locks, call, retry, todo, running, delta, cursor, accepted, posted>>
    <3>1. Len(call[s].postings) \in Nat /\ Indices(s) = 1..Len(call[s].postings)
      BY <1>2, CallFacts DEF Indices
    <3>2. results \in [Indices(s) -> Result]
      BY DEF Status, Result
    <3>3. AnswersOK' /\ missing' \in [Session -> SUBSET AccountId]
      BY <1>1, <2>4, <3>2, AnswersSet, NamedType DEF TypeOK
    <3>4. pc[s] = "idle" /\ call[s].key = NoKey /\ "begin" \in PC
      BY <1>2, <1>4, CallFacts DEF SubmitBatch, PC
    <3> QED
      BY <1>1, <2>4, <3>3, <3>4, MoveKeepsIInv
  <2> QED
    BY <1>4, <2>2, <2>3, <2>4 DEF SubmitBatch
<1> QED
  BY <1>3, <1>4

\* A call that reads or claims has a key.
LEMMA KeyedCall ==
  ASSUME IInv, NEW s \in Session, pc[s] \in {"read", "claim"}
  PROVE  call[s].key \in Key /\ keys[call[s].key].txn \in Nat
<1>1. call[s] \in Calls /\ call[s].key # NoKey
  BY DEF IInv, TypeOK, LocksFollowProgram
<1>2. call[s].key \in Key
  BY <1>1, CallFacts
<1>3. keys[call[s].key] \in KeyRow
  BY <1>2 DEF IInv, TypeOK
<1>4. \A row \in KeyRow : row.txn \in Nat
  BY DEF KeyRow, AbsentKey
<1> QED
  BY <1>2, <1>3, <1>4

\* The early returns of the two reads of the key row.
LEMMA KeyAnswersKeepIInv ==
  ASSUME IInv, NEW s \in Session, pc[s] \in {"read", "claim"}, UNCHANGED faults,
         \/ ReturnOnly(s, AllAnswers(s, "conflict", 0))
         \/ ReturnOnly(s, AllAnswers(s, "existing", keys[call[s].key].txn))
  PROVE  IInv'
<1>1. TypeOK /\ faults' \in 0..MaxFaults
  BY DEF IInv, TypeOK
<1>2. keys[call[s].key].txn \in Nat
  BY KeyedCall
<1>3. /\ AllAnswers(s, "conflict", 0) \in [Indices(s) -> Result]
      /\ AllAnswers(s, "existing", keys[call[s].key].txn) \in [Indices(s) -> Result]
  BY <1>1, <1>2, AnswersType DEF Status
<1> QED
  BY <1>1, <1>3, ReturnKeepsIInv

LEMMA FastReadKeepsIInv ==
  ASSUME IInv, NEW s \in Session, FastRead(s)
  PROVE  IInv'
<1>1. pc[s] = "read" /\ UNCHANGED faults
  BY DEF FastRead
<1>2. CASE \/ ReturnOnly(s, AllAnswers(s, "conflict", 0))
           \/ ReturnOnly(s, AllAnswers(s, "existing", keys[call[s].key].txn))
  BY <1>1, <1>2, KeyAnswersKeepIInv
<1>3. CASE /\ pc' = [pc EXCEPT ![s] = "claim"]
           /\ UNCHANGED <<tables, locks, locals, answer, posted>>
  <2>1. /\ AnswersOK' /\ missing' \in [Session -> SUBSET AccountId]
        /\ faults' \in 0..MaxFaults /\ "claim" \in PC
    BY <1>1, <1>3, AnswersKept DEF IInv, TypeOK, PC, locals
  <2> QED
    BY <1>1, <1>3, <2>1, MoveKeepsIInv DEF locals
<1> QED
  BY <1>2, <1>3 DEF FastRead

LEMMA ClaimKeepsIInv ==
  ASSUME IInv, NEW s \in Session, Claim(s)
  PROVE  IInv'
<1>1. pc[s] = "claim" /\ UNCHANGED faults /\ keyLock[call[s].key] = Free
  BY DEF Claim
<1>2. CASE \/ ReturnOnly(s, AllAnswers(s, "conflict", 0))
           \/ ReturnOnly(s, AllAnswers(s, "existing", keys[call[s].key].txn))
  BY <1>1, <1>2, KeyAnswersKeepIInv
<1>3. CASE /\ ~(keys[call[s].key].status # "absent"
                 /\ keys[call[s].key].sum # Checksum(Posting(s, 1)))
           /\ ~(keys[call[s].key].txn # 0 /\ keys[call[s].key].sum = Checksum(Posting(s, 1)))
           /\ keyLock' = [keyLock EXCEPT ![call[s].key] = s]
           /\ pc' = [pc EXCEPT ![s] = "begin"]
           /\ UNCHANGED <<tables, rowLock, locals, answer, posted>>
  <2> USE <1>1, <1>3 DEF tables, locals
  <2>1. call[s].key \in Key /\ call[s].key # NoKey
    BY KeyedCall DEF IInv, LocksFollowProgram
  <2>2. TypeOK'
    BY AnswersKept DEF IInv, TypeOK, PC
  <2>3. LocksFollowProgram'
    <3> SUFFICES ASSUME NEW t \in Session
                 PROVE  /\ todo'[t] # {} => pc'[t] = "lock"
                        /\ Held(t)' # {} => pc'[t] \in {"lock", "check", "commit"}
                        /\ \A a \in Held(t)', b \in todo'[t] : a < b
                        /\ \A k \in Key : keyLock'[k] = t => pc'[t] \in Working /\ call'[t].key = k
                        /\ pc'[t] \in Working /\ call'[t].key # NoKey => keyLock'[call'[t].key] = t
                        /\ pc'[t] \in {"read", "claim"} => call'[t].key # NoKey
      BY DEF LocksFollowProgram
    <3>1. Held(t)' = Held(t) /\ todo'[t] = todo[t] /\ call'[t] = call[t]
      BY DEF Held
    <3>2. CASE t = s
      BY <2>1, <3>1, <3>2 DEF IInv, TypeOK, LocksFollowProgram, Working
    <3>3. CASE t # s
      <4>1. pc'[t] = pc[t] /\ \A k \in Key : keyLock'[k] = t <=> keyLock[k] = t
        BY <2>1, <3>3, SessionAssumption DEF IInv, TypeOK
      <4>2. call[t].key \in Key \cup {NoKey}
        BY CallFacts DEF IInv, TypeOK
      <4> QED
        BY <3>1, <4>1, <4>2 DEF IInv, LocksFollowProgram
    <3> QED
      BY <3>2, <3>3
  <2>4. ReadsStayCurrent'
    BY DEF IInv, ReadsStayCurrent, Held
  <2>5. WritesAreLocked'
    <3>1. \A t \in Session : /\ Held(t)' = Held(t) /\ Touched(t)' = Touched(t)
                             /\ Indices(t)' = Indices(t)
      BY DEF Held, Touched, Posting, Indices
    <3> QED
      BY <3>1 DEF IInv, TypeOK, WritesAreLocked, Zero
  <2>6. ClaimedKeysAreNew'
    <3>1. keys[call[s].key] = AbsentKey
      BY <2>1 DEF IInv, TypeOK, KeyRow
    <3> QED
      BY <2>1, <3>1 DEF IInv, TypeOK, ClaimedKeysAreNew, AbsentKey
  <2>7. NoOverdraft'
    BY DEF IInv, NoOverdraft
  <2> QED
    BY <2>2, <2>3, <2>4, <2>5, <2>6, <2>7 DEF IInv
<1> QED
  BY <1>2, <1>3 DEF Claim

LEMMA BeginLockingKeepsIInv ==
  ASSUME IInv, NEW s \in Session, BeginLocking(s) \/ BeginLockingBatch(s)
  PROVE  IInv'
<1>1. TypeOK /\ faults' \in 0..MaxFaults /\ pc[s] = "begin"
  BY DEF IInv, TypeOK, BeginLocking, BeginLockingBatch
<1>2. CASE ReturnOnly(s, AllAnswers(s, "rejected", 0))
  BY <1>1, <1>2, AnswersType, ReturnKeepsIInv DEF Status
<1>3. CASE /\ todo' = [todo EXCEPT ![s] = Named(s) \cap created]
           /\ pc' = [pc EXCEPT ![s] = "lock"]
           /\ UNCHANGED <<tables, locks, call, missing, retry, running, delta, cursor, accepted, answer, posted>>
  <2> USE <1>1, <1>3 DEF tables, locks
  <2>1. Held(s) = {}
    BY DEF IInv, LocksFollowProgram
  <2>2. \A t \in Session : Held(t)' = Held(t)
    BY DEF Held
  <2>3. TypeOK'
    <3>1. Named(s) \cap created \subseteq AccountId
      BY DEF TypeOK
    <3> QED
      BY <3>1, AnswersKept DEF TypeOK, PC
  <2>4. LocksFollowProgram'
    BY <2>1, <2>2 DEF IInv, TypeOK, LocksFollowProgram, Working
  <2>5. ReadsStayCurrent'
    BY DEF IInv, ReadsStayCurrent, Held
  <2>6. WritesAreLocked'
    <3>1. \A t \in Session : Touched(t)' = Touched(t) /\ Indices(t)' = Indices(t)
      BY DEF Touched, Posting, Indices
    <3> QED
      BY <2>2, <3>1 DEF IInv, TypeOK, WritesAreLocked, Zero
  <2>7. ClaimedKeysAreNew' /\ NoOverdraft'
    BY DEF IInv, ClaimedKeysAreNew, NoOverdraft
  <2> QED
    BY <2>3, <2>4, <2>5, <2>6, <2>7 DEF IInv
<1> QED
  BY <1>2, <1>3 DEF BeginLocking, BeginLockingBatch

LEMMA LockRowKeepsIInv ==
  ASSUME IInv, NEW s \in Session, LockRow(s)
  PROVE  IInv'
<1> USE DEF tables
<1>1. PICK a \in AccountId :
        /\ IsNextRow(s, a)
        /\ rowLock[a] = Free
        /\ rowLock' = [rowLock EXCEPT ![a] = s]
        /\ running' = [running EXCEPT ![s][a] = balance[a]]
        /\ todo' = [todo EXCEPT ![s] = @ \ {a}]
  BY DEF LockRow
<1>2. /\ pc[s] = "lock"
      /\ UNCHANGED <<tables, keyLock, pc, call, missing, retry, delta, cursor, accepted, answer, posted, faults>>
  BY DEF LockRow
<1>3. Held(s)' = Held(s) \cup {a} /\ a \notin Held(s)
  BY <1>1, SessionAssumption DEF IInv, TypeOK, Held
<1>4. \A t \in Session \ {s} : Held(t)' = Held(t) /\ todo'[t] = todo[t] /\ running'[t] = running[t]
  BY <1>1, SessionAssumption DEF IInv, TypeOK, Held
<1>5. TypeOK'
  <2>1. running' \in [Session -> [AccountId -> Int]]
    BY <1>1 DEF IInv, TypeOK
  <2>2. rowLock' \in [AccountId -> Session \cup {Free}] /\ todo' \in [Session -> SUBSET AccountId]
    BY <1>1 DEF IInv, TypeOK
  <2> QED
    BY <1>2, <2>1, <2>2, AnswersKept DEF IInv, TypeOK
<1>6. LocksFollowProgram'
  <2> SUFFICES ASSUME NEW t \in Session
               PROVE  /\ todo'[t] # {} => pc[t] = "lock"
                      /\ Held(t)' # {} => pc[t] \in {"lock", "check", "commit"}
                      /\ \A x \in Held(t)', y \in todo'[t] : x < y
    BY <1>2 DEF IInv, LocksFollowProgram
  <2>1. CASE t = s
    <3>1. \A y \in todo'[s] : a < y
      BY <1>1, AccountAssumption DEF IInv, TypeOK, IsNextRow
    <3>2. \A x \in Held(s), y \in todo'[s] : x < y
      BY <1>1 DEF IInv, TypeOK, LocksFollowProgram
    <3> QED
      BY <1>2, <1>3, <2>1, <3>1, <3>2
  <2>2. CASE t # s
    BY <1>4, <2>2 DEF IInv, LocksFollowProgram
  <2> QED
    BY <2>1, <2>2
<1>7. ReadsStayCurrent'
  <2> SUFFICES ASSUME NEW t \in Session, NEW b \in Held(t)'
               PROVE  /\ running'[t][b] = balance[b] + delta[t][b]
                      /\ DisplayedBalance(TypeOf[b], running'[t][b]) >= 0
    BY <1>2 DEF ReadsStayCurrent
  <2>1. CASE t = s /\ b = a
    <3>1. delta[s][a] = 0
      BY <1>2 DEF IInv, WritesAreLocked, Zero
    <3>2. running'[s][a] = balance[a] /\ balance[a] \in Int
      BY <1>1 DEF IInv, TypeOK
    <3>3. DisplayedBalance(TypeOf[a], balance[a]) >= 0
      BY DEF IInv, NoOverdraft
    <3> QED
      BY <2>1, <3>1, <3>2, <3>3
  <2>2. CASE t = s /\ b # a
    <3>1. b \in Held(s) /\ running'[s][b] = running[s][b]
      BY <1>1, <1>3, <2>2 DEF IInv, TypeOK, Held
    <3> QED
      BY <2>2, <3>1 DEF IInv, ReadsStayCurrent
  <2>3. CASE t # s
    BY <1>4, <2>3 DEF IInv, ReadsStayCurrent
  <2> QED
    BY <2>1, <2>2, <2>3
<1>8. WritesAreLocked'
  <2>1. \A t \in Session : /\ Touched(t)' = Touched(t) /\ Indices(t)' = Indices(t)
                           /\ Held(t) \subseteq Held(t)'
    BY <1>2, <1>3, <1>4 DEF Touched, Posting, Indices
  <2> QED
    BY <1>2, <2>1 DEF IInv, WritesAreLocked, Zero
<1>9. ClaimedKeysAreNew' /\ NoOverdraft'
  BY <1>2 DEF IInv, ClaimedKeysAreNew, NoOverdraft
<1> QED
  BY <1>5, <1>6, <1>7, <1>8, <1>9 DEF IInv

LEMMA RowsLockedKeepsIInv ==
  ASSUME IInv, NEW s \in Session, RowsLocked(s)
  PROVE  IInv'
<1>1. /\ "check" \in PC /\ faults' \in 0..MaxFaults
      /\ AnswersOK' /\ missing' \in [Session -> SUBSET AccountId]
  BY AnswersKept DEF IInv, TypeOK, RowsLocked, PC, locals
<1> QED
  BY <1>1, MoveKeepsIInv DEF RowsLocked, locals

LEMMA BatchDecidedKeepsIInv ==
  ASSUME IInv, NEW s \in Session, BatchDecided(s)
  PROVE  IInv'
<1>1. /\ "commit" \in PC /\ faults' \in 0..MaxFaults
      /\ AnswersOK' /\ missing' \in [Session -> SUBSET AccountId]
  BY AnswersKept DEF IInv, TypeOK, BatchDecided, PC, locals
<1> QED
  BY <1>1, MoveKeepsIInv DEF BatchDecided, locals

\* Accepting a funded posting on locked rows keeps the invariant, for a
\* single posting on its way to the commit and for a member of a batch.
LEMMA AcceptKeepsIInv ==
  ASSUME IInv, NEW s \in Session, NEW i \in Indices(s),
         pc[s] = "check", Accept(s, i),
         AccountsOf(Posting(s, i)) \subseteq Held(s), Funded(s, Posting(s, i)),
         UNCHANGED <<tables, locks, call, missing, retry, todo, posted>>,
         cursor' \in [Session -> Nat],
         AnswersOK',
         faults' \in 0..MaxFaults,
         \/ ~call[s].batch /\ i = 1 /\ pc' = [pc EXCEPT ![s] = "commit"]
         \/ call[s].batch /\ pc' = pc
  PROVE  IInv'
<1> USE DEF tables, locks
<1> DEFINE p == Posting(s, i)
<1>1. call[s] \in Calls /\ i \in Nat
  <2>1. call[s] \in Calls
    BY DEF IInv, TypeOK
  <2> QED
    BY <2>1, CallFacts DEF Indices
<1>2. \A a \in AccountId : Change(p, a) \in Int
  BY <1>1, CallFacts DEF Indices, Posting
<1>3. AccountsOf(p) \subseteq AccountId
  BY DEF Held
<1>4. /\ running' = [running EXCEPT ![s] = Plus(running[s], p)]
      /\ delta' = [delta EXCEPT ![s] = Plus(delta[s], p)]
      /\ accepted' = [accepted EXCEPT ![s] = Append(accepted[s], i)]
  BY DEF Accept
<1> HIDE DEF p
<1>5. \A t \in Session : Held(t)' = Held(t) /\ Indices(t)' = Indices(t)
  BY DEF Held, Indices
<1>6. TypeOK'
  <2>1. Plus(running[s], p) \in [AccountId -> Int] /\ Plus(delta[s], p) \in [AccountId -> Int]
    BY <1>2, SMTT(30) DEF IInv, TypeOK, Plus
  <2>2. Append(accepted[s], i) \in Seq(Nat)
    BY <1>1 DEF IInv, TypeOK
  <2>3. pc' \in [Session -> PC]
    BY DEF IInv, TypeOK, PC
  <2>4. /\ running' \in [Session -> [AccountId -> Int]]
        /\ delta' \in [Session -> [AccountId -> Int]]
        /\ accepted' \in [Session -> Seq(Nat)]
    BY <1>4, <2>1, <2>2 DEF IInv, TypeOK
  <2> QED
    BY <2>3, <2>4 DEF IInv, TypeOK
<1>7. LocksFollowProgram'
  BY <1>5 DEF IInv, TypeOK, LocksFollowProgram, Working
<1>8. ReadsStayCurrent'
  <2> SUFFICES ASSUME NEW t \in Session, NEW b \in Held(t)
               PROVE  /\ running'[t][b] = balance[b] + delta'[t][b]
                      /\ DisplayedBalance(TypeOf[b], running'[t][b]) >= 0
    BY <1>5 DEF ReadsStayCurrent
  <2>0. b \in AccountId
    BY DEF Held
  <2>1. /\ running[t][b] = balance[b] + delta[t][b]
        /\ DisplayedBalance(TypeOf[b], running[t][b]) >= 0
    BY DEF IInv, ReadsStayCurrent
  <2>2. balance[b] \in Int /\ delta[t][b] \in Int /\ running[t][b] \in Int
    BY <2>0 DEF IInv, TypeOK
  <2>3. CASE t = s /\ b \in AccountsOf(p)
    <3>1. /\ running'[s][b] = running[s][b] + Change(p, b)
          /\ delta'[s][b] = delta[s][b] + Change(p, b)
      BY <1>4, <2>0, <2>3 DEF IInv, TypeOK, Plus
    <3>2. DisplayedBalance(TypeOf[b], running[s][b] + Change(p, b)) >= 0
      BY <2>3 DEF Funded, p
    <3>3. Change(p, b) \in Int
      BY <1>2, <2>0
    <3> QED
      BY <2>1, <2>2, <2>3, <3>1, <3>2, <3>3
  <2>4. CASE t = s /\ b \notin AccountsOf(p)
    <3>1. running'[s][b] = running[s][b] /\ delta'[s][b] = delta[s][b]
      BY <1>4, <2>0, <2>4 DEF IInv, TypeOK, Plus
    <3> QED
      BY <2>1, <2>4, <3>1
  <2>5. CASE t # s
    BY <1>4, <2>1, <2>5 DEF IInv, TypeOK
  <2> QED
    BY <2>3, <2>4, <2>5
<1>9. WritesAreLocked'
  <2> SUFFICES ASSUME NEW t \in Session
               PROVE  /\ Touched(t)' \subseteq Held(t)
                      /\ \A j \in DOMAIN accepted'[t] : accepted'[t][j] \in Indices(t)
                      /\ pc'[t] \notin {"check", "commit"} => accepted'[t] = <<>> /\ delta'[t] = Zero
                      /\ ~call[t].batch => accepted'[t] = IF pc'[t] = "commit" THEN <<1>> ELSE <<>>
    BY <1>5 DEF WritesAreLocked, Zero
  <2>1. CASE t = s
    <3>1. accepted[s] \in Seq(Nat) /\ accepted'[s] = Append(accepted[s], i)
      BY <1>4 DEF IInv, TypeOK
    <3>2. \A j \in DOMAIN accepted'[s] :
            accepted'[s][j] = i \/ \E l \in DOMAIN accepted[s] : accepted'[s][j] = accepted[s][l]
      BY <1>1, <3>1
    <3>3. \A j \in DOMAIN accepted'[s] : accepted'[s][j] \in Indices(s)
      BY <3>2 DEF IInv, WritesAreLocked
    <3>4. Touched(s)' \subseteq Held(s)
      <4>1. \A j \in DOMAIN accepted'[s] : AccountsOf(Posting(s, accepted'[s][j])) \subseteq Held(s)
        BY <3>2 DEF IInv, WritesAreLocked, Touched
      <4> QED
        BY <4>1 DEF Touched, Posting
    <3>5. pc'[s] \in {"check", "commit"}
      BY DEF IInv, TypeOK
    <3>6. ~call[s].batch => accepted'[s] = <<1>> /\ pc'[s] = "commit"
      <4>1. ~call[s].batch => accepted[s] = <<>> /\ i = 1
        BY DEF IInv, WritesAreLocked
      <4>2. Append(<<>>, 1) = <<1>>
        OBVIOUS
      <4>3. ~call[s].batch => pc'[s] = "commit"
        BY DEF IInv, TypeOK
      <4> QED
        BY <3>1, <4>1, <4>2, <4>3
    <3> QED
      BY <2>1, <3>3, <3>4, <3>5, <3>6
  <2>2. CASE t # s
    <3>1. accepted'[t] = accepted[t] /\ delta'[t] = delta[t] /\ pc'[t] = pc[t]
      BY <1>4, <2>2 DEF IInv, TypeOK
    <3>2. Touched(t)' = Touched(t)
      BY <3>1 DEF Touched, Posting
    <3> QED
      BY <3>1, <3>2 DEF IInv, WritesAreLocked
  <2> QED
    BY <2>1, <2>2
<1>10. ClaimedKeysAreNew' /\ NoOverdraft'
  BY DEF IInv, ClaimedKeysAreNew, NoOverdraft
<1> QED
  BY <1>6, <1>7, <1>8, <1>9, <1>10 DEF IInv

LEMMA CheckRowsKeepsIInv ==
  ASSUME IInv, NEW s \in Session, CheckRows(s)
  PROVE  IInv'
<1>1. TypeOK /\ faults' \in 0..MaxFaults /\ pc[s] = "check" /\ ~call[s].batch
  BY DEF IInv, TypeOK, CheckRows
<1>2. CASE ReturnOnly(s, AllAnswers(s, "rejected", 0))
  BY <1>1, <1>2, AnswersType, ReturnKeepsIInv DEF Status
<1>3. CASE /\ AccountsOf(Posting(s, 1)) \subseteq Held(s)
           /\ Funded(s, Posting(s, 1))
           /\ Accept(s, 1)
           /\ pc' = [pc EXCEPT ![s] = "commit"]
           /\ UNCHANGED <<tables, locks, call, missing, retry, todo, cursor, answer, posted>>
  <2>1. 1 \in Indices(s)
    <3>1. call[s] \in Calls
      BY <1>1 DEF TypeOK
    <3> QED
      BY <1>1, <3>1, CallFacts DEF Indices
  <2>2. /\ cursor' \in [Session -> Nat]
        /\ AnswersOK'
    BY <1>1, <1>3, AnswersKept DEF TypeOK
  <2> QED
    BY <1>1, <1>3, <2>1, <2>2, AcceptKeepsIInv
<1> QED
  BY <1>2, <1>3 DEF CheckRows

LEMMA DecideNextKeepsIInv ==
  ASSUME IInv, NEW s \in Session, DecideNext(s)
  PROVE  IInv'
<1> DEFINE i == cursor[s]
<1>1. /\ TypeOK /\ pc[s] = "check" /\ call[s].batch /\ i \in Indices(s)
      /\ cursor' = [cursor EXCEPT ![s] = i + 1]
      /\ UNCHANGED <<tables, locks, pc, call, missing, retry, todo, posted, faults>>
  BY DEF IInv, DecideNext
<1>2. cursor' \in [Session -> Nat] /\ faults' \in 0..MaxFaults /\ i \in Nat
  BY <1>1 DEF TypeOK
<1>3. answer[s] \in [Indices(s) -> Result]
  BY <1>1 DEF TypeOK, AnswersOK
<1>4. CASE /\ Acceptable(s, Posting(s, i))
           /\ Accept(s, i)
           /\ answer' = [answer EXCEPT ![s][i] = [status |-> "accepted", txn |-> Len(accepted[s]) + 1]]
  <2>1. accepted[s] \in Seq(Nat)
    BY <1>1 DEF TypeOK
  <2>2. [status |-> "accepted", txn |-> Len(accepted[s]) + 1] \in Result
    BY <2>1 DEF Status, Result
  <2>3. [answer[s] EXCEPT ![i] = [status |-> "accepted", txn |-> Len(accepted[s]) + 1]]
          \in [Indices(s) -> Result]
    BY <1>3, <2>2
  <2>4. AnswersOK'
    BY <1>1, <1>4, <2>3, AnswersSet DEF TypeOK
  <2> QED
    BY <1>1, <1>2, <1>4, <2>4, AcceptKeepsIInv DEF Acceptable
<1>5. CASE /\ answer' = [answer EXCEPT ![s][i] = [status |-> "rejected", txn |-> 0]]
           /\ UNCHANGED <<running, delta, accepted>>
  <2> USE <1>1, <1>5 DEF tables, locks
  <2>1. [answer[s] EXCEPT ![i] = [status |-> "rejected", txn |-> 0]] \in [Indices(s) -> Result]
    BY <1>3 DEF Status, Result
  <2>2. AnswersOK'
    BY <2>1, AnswersSet DEF TypeOK
  <2>3. TypeOK'
    BY <1>2, <2>2 DEF TypeOK
  <2>4. LocksFollowProgram' /\ ReadsStayCurrent'
    BY DEF IInv, LocksFollowProgram, ReadsStayCurrent, Held
  <2>5. WritesAreLocked'
    BY DEF IInv, WritesAreLocked, Held, Touched, Posting, Indices, Zero
  <2>6. ClaimedKeysAreNew' /\ NoOverdraft'
    BY DEF IInv, ClaimedKeysAreNew, NoOverdraft
  <2> QED
    BY <2>3, <2>4, <2>5, <2>6 DEF IInv
<1> QED
  BY <1>4, <1>5 DEF DecideNext

\* The rows a commit adds are well-formed.
LEMMA NewRowsType ==
  ASSUME IInv, NEW s \in Session
  PROVE  NewRows(s) \in Seq(TxnRow) /\ Len(NewRows(s)) = Len(accepted[s])
<1>1. call[s] \in Calls /\ accepted[s] \in Seq(Nat)
  BY DEF IInv, TypeOK
<1>2. call[s].key \in Key \cup {NoKey}
  BY <1>1, CallFacts
<1>3. ASSUME NEW j \in DOMAIN accepted[s]
      PROVE  NewRow(s, accepted[s][j]) \in TxnRow
  <2> DEFINE i == accepted[s][j]
             p == Posting(s, i)
  <2>1. i \in Indices(s)
    BY DEF IInv, WritesAreLocked
  <2>2. AccountsOf(p) \subseteq AccountId
    BY DEF IInv, WritesAreLocked, Touched, Held
  <2>3. PostingLedger(p) \in Ledger
    BY <2>2 DEF PostingLedger, Ledger
  <2>4. Stored(p) \in UNION {{Stored(c.postings[x]) : x \in DOMAIN c.postings} : c \in Calls}
    BY <1>1, <2>1 DEF Posting, Indices
  <2> QED
    BY <1>2, <2>3, <2>4 DEF NewRow, TxnRow
<1> QED
  BY <1>1, <1>3 DEF NewRows

\* Committing accepted postings keeps the invariant: the rows written are
\* locked, the balances stored are the ones the checks saw, rounded, and no
\* session that holds another row notices.
LEMMA CommitKeepsIInv ==
  ASSUME IInv, NEW s \in Session, NEW results \in [Indices(s) -> Result],
         pc[s] = "commit", CommitWrites(s), Return(s, results), faults' \in 0..MaxFaults
  PROVE  IInv'
<1>1. call[s] \in Calls /\ accepted[s] \in Seq(Nat) /\ txns \in Seq(TxnRow)
  BY DEF IInv, TypeOK
<1>2. Len(txns) \in Nat /\ Len(accepted[s]) \in Nat
  BY <1>1
<1>3. Touched(s) \subseteq Held(s)
  BY DEF IInv, WritesAreLocked
<1>4. \A a \in AccountId \ Held(s) : balance'[a] = balance[a]
  BY <1>3 DEF CommitWrites, NewBalance
<1>5. \A a \in AccountId : balance[a] \in Int /\ delta[s][a] \in Int /\ running[s][a] \in Int
  BY DEF IInv, TypeOK
<1>6. TypeOK'
  <2>1. balance' \in [AccountId -> Int]
    <3>1. \A a \in AccountId : Round(balance[a] + delta[s][a]) \in Int
      <4>1. \A a \in AccountId : balance[a] + delta[s][a] \in Int
        BY <1>5
      <4>2. \A x \in Int : Round(x) \in Int
        BY RoundSign
      <4> QED
        BY <4>1, <4>2
    <3> QED
      BY <1>5, <3>1 DEF CommitWrites, NewBalance
  <2>2. txns' \in Seq(TxnRow)
    BY <1>1, NewRowsType DEF CommitWrites
  <2>3. keys' \in [Key -> KeyRow]
    <3>1. CompletedKey(s) \in KeyRow
      BY <1>1, <1>2 DEF CompletedKey, KeyRow, Posting
    <3> QED
      BY <3>1 DEF IInv, TypeOK, CommitWrites
  <2>4. outbox' \subseteq Nat /\ posted' \in [Session -> SUBSET Nat]
    <3>1. NewIds(s) \subseteq Nat
      BY <1>2 DEF NewIds
    <3> QED
      BY <3>1 DEF IInv, TypeOK, CommitWrites
  <2>5. created' \subseteq AccountId
    BY DEF IInv, TypeOK, CommitWrites
  <2> QED
    BY <2>1, <2>2, <2>3, <2>4, <2>5, ReturnClears DEF IInv, TypeOK
<1>7. LocksFollowProgram' /\ WritesAreLocked'
  BY ReturnKeepsLocks
<1>8. ReadsStayCurrent'
  <2> SUFFICES ASSUME NEW t \in Session, NEW b \in Held(t)'
               PROVE  /\ running'[t][b] = balance'[b] + delta'[t][b]
                      /\ DisplayedBalance(TypeOf[b], running'[t][b]) >= 0
    BY DEF ReadsStayCurrent
  <2>1. t # s /\ b \in Held(t) /\ running'[t] = running[t] /\ delta'[t] = delta[t]
    BY ReturnClears
  <2>2. b \in AccountId \ Held(s)
    BY <2>1 DEF Held
  <2> QED
    BY <1>4, <2>1, <2>2 DEF IInv, ReadsStayCurrent
<1>9. ClaimedKeysAreNew'
  <2> SUFFICES ASSUME NEW k \in Key, keyLock'[k] # Free
               PROVE  keys'[k] = AbsentKey
    BY DEF ClaimedKeysAreNew, AbsentKey
  <2>1. keyLock[k] # s /\ keyLock[k] # Free
    BY DEF Return, ReleaseLocks
  <2>2. k # call[s].key
    BY <2>1, KeyAssumption DEF IInv, LocksFollowProgram, Working
  <2> QED
    BY <2>1, <2>2 DEF IInv, ClaimedKeysAreNew, CommitWrites
<1>10. NoOverdraft'
  <2> SUFFICES ASSUME NEW a \in AccountId
               PROVE  DisplayedBalance(TypeOf[a], balance'[a]) >= 0
    BY DEF NoOverdraft
  <2>1. CASE a \in Touched(s)
    <3>1. balance'[a] = Round(running[s][a])
      BY <1>3, <2>1 DEF IInv, ReadsStayCurrent, CommitWrites, NewBalance
    <3>2. DisplayedBalance(TypeOf[a], running[s][a]) >= 0
      BY <1>3, <2>1 DEF IInv, ReadsStayCurrent
    <3>3. /\ Round(running[s][a]) \in Int
          /\ running[s][a] >= 0 => Round(running[s][a]) >= 0
          /\ running[s][a] <= 0 => Round(running[s][a]) <= 0
      BY <1>5, RoundSign
    <3> QED
      BY <1>5, <3>1, <3>2, <3>3 DEF DisplayedBalance
  <2>2. CASE a \notin Touched(s)
    BY <2>2 DEF IInv, NoOverdraft, CommitWrites, NewBalance
  <2> QED
    BY <2>1, <2>2
<1> QED
  BY <1>6, <1>7, <1>8, <1>9, <1>10 DEF IInv

LEMMA CommitActionsKeepIInv ==
  ASSUME IInv, NEW s \in Session, Commit(s) \/ WriteFails(s) \/ CommitUnacknowledged(s)
  PROVE  IInv'
<1>1. TypeOK /\ pc[s] = "commit" /\ faults' \in 0..MaxFaults
  BY BoundAssumption DEF IInv, TypeOK, Commit, WriteFails, CommitUnacknowledged, Fault
<1>2. /\ AllAnswers(s, "error", 0) \in [Indices(s) -> Result]
      /\ AllAnswers(s, "lost", 0) \in [Indices(s) -> Result]
  BY <1>1, AnswersType DEF Status
<1>3. CASE Commit(s)
  <2>1. CommittedAnswers(s) \in [Indices(s) -> Result]
    <3>1. call[s] \in Calls /\ Len(txns) \in Nat /\ answer[s] \in [Indices(s) -> Result]
      BY <1>1 DEF TypeOK, AnswersOK
    <3>2. CASE ~call[s].batch
      <4>1. AllAnswers(s, "posted", Len(txns) + 1) \in [Indices(s) -> Result]
        BY <1>1, <3>1, AnswersType DEF Status
      <4> QED
        BY <3>2, <4>1 DEF CommittedAnswers
    <3>3. CASE call[s].batch
      BY <3>1, <3>3 DEF CommittedAnswers, Status, Result
    <3> QED
      BY <3>2, <3>3
  <2> QED
    BY <1>1, <1>3, <2>1, CommitKeepsIInv DEF Commit
<1>4. CASE WriteFails(s)
  BY <1>1, <1>2, <1>4, ReturnKeepsIInv DEF WriteFails
<1>5. CASE CommitUnacknowledged(s)
  BY <1>1, <1>2, <1>5, CommitKeepsIInv DEF CommitUnacknowledged
<1> QED
  BY <1>3, <1>4, <1>5

\* Rolling back and starting over keeps the invariant, and so does giving up.
LEMMA FailureKeepsIInv ==
  ASSUME IInv, NEW s \in Session, SerializationFailure(s) \/ DatabaseError(s)
  PROVE  IInv'
<1>1. TypeOK /\ faults' \in 0..MaxFaults /\ call[s] \in Calls
  BY BoundAssumption DEF IInv, TypeOK, SerializationFailure, DatabaseError, Fault
<1>2. /\ AllAnswers(s, "error", 0) \in [Indices(s) -> Result]
      /\ AllAnswers(s, "exhausted", 0) \in [Indices(s) -> Result]
  BY AnswersType DEF Status
<1>3. CASE \/ ReturnOnly(s, AllAnswers(s, "error", 0))
           \/ ReturnOnly(s, AllAnswers(s, "exhausted", 0))
  BY <1>1, <1>2, <1>3, ReturnKeepsIInv
<1>4. CASE /\ ~call[s].batch /\ retry[s] < MaxSerializationRetries
           /\ retry' = [retry EXCEPT ![s] = @ + 1]
           /\ pc' = [pc EXCEPT ![s] = AttemptStart(s)]
           /\ ReleaseLocks(s)
           /\ ForgetAttempt(s)
           /\ UNCHANGED <<tables, call, missing, answer, posted>>
  <2> USE <1>1, <1>4 DEF tables, ReleaseLocks, ForgetAttempt
  <2>1. /\ Held(s)' = {}
        /\ \A t \in Session \ {s} :
             /\ Held(t)' = Held(t) /\ pc'[t] = pc[t] /\ todo'[t] = todo[t]
             /\ running'[t] = running[t] /\ delta'[t] = delta[t] /\ accepted'[t] = accepted[t]
    BY SessionAssumption DEF TypeOK, Held
  <2>2. TypeOK'
    <3>1. retry' \in [Session -> 0..MaxSerializationRetries]
      BY BoundAssumption DEF TypeOK
    <3>2. pc' \in [Session -> PC]
      BY DEF TypeOK, PC, AttemptStart
    <3>3. /\ rowLock' \in [AccountId -> Session \cup {Free}]
          /\ keyLock' \in [Key -> Session \cup {Free}]
          /\ todo' \in [Session -> SUBSET AccountId]
          /\ running' \in [Session -> [AccountId -> Int]]
          /\ delta' \in [Session -> [AccountId -> Int]]
          /\ cursor' \in [Session -> Nat]
      BY DEF TypeOK, Zero
    <3>4. accepted' \in [Session -> Seq(Nat)]
      BY DEF TypeOK
    <3> QED
      BY <3>1, <3>2, <3>3, <3>4, AnswersKept DEF TypeOK
  <2>3. LocksFollowProgram'
    <3> SUFFICES ASSUME NEW t \in Session
                 PROVE  /\ todo'[t] # {} => pc'[t] = "lock"
                        /\ Held(t)' # {} => pc'[t] \in {"lock", "check", "commit"}
                        /\ \A a \in Held(t)', b \in todo'[t] : a < b
                        /\ \A k \in Key : keyLock'[k] = t => pc'[t] \in Working /\ call'[t].key = k
                        /\ pc'[t] \in Working /\ call'[t].key # NoKey => keyLock'[call'[t].key] = t
                        /\ pc'[t] \in {"read", "claim"} => call'[t].key # NoKey
      BY DEF LocksFollowProgram
    <3>0. call'[t] = call[t]
      OBVIOUS
    <3>1. CASE t = s
      BY <2>1, <3>0, <3>1, SessionAssumption DEF TypeOK, Working, AttemptStart
    <3>2. CASE t # s
      <4>1. \A k \in Key : keyLock'[k] = t <=> keyLock[k] = t
        BY <3>2, SessionAssumption DEF TypeOK
      <4>2. call[t].key \in Key \cup {NoKey}
        BY CallFacts DEF TypeOK
      <4> QED
        BY <2>1, <3>0, <3>2, <4>1, <4>2 DEF IInv, LocksFollowProgram
    <3> QED
      BY <3>1, <3>2
  <2>4. ReadsStayCurrent'
    BY <2>1 DEF IInv, ReadsStayCurrent
  <2>5. WritesAreLocked'
    <3> SUFFICES ASSUME NEW t \in Session
                 PROVE  /\ Touched(t)' \subseteq Held(t)'
                        /\ \A j \in DOMAIN accepted'[t] : accepted'[t][j] \in Indices(t)
                        /\ pc'[t] \notin {"check", "commit"} => accepted'[t] = <<>> /\ delta'[t] = Zero
                        /\ ~call[t].batch => accepted'[t] = IF pc'[t] = "commit" THEN <<1>> ELSE <<>>
      BY DEF WritesAreLocked, Indices, Zero
    <3>1. CASE t = s
      <4>1. accepted'[s] = <<>> /\ delta'[s] = Zero /\ pc'[s] # "commit"
        BY DEF TypeOK, AttemptStart
      <4>2. Touched(s)' = {}
        BY <4>1 DEF Touched
      <4> QED
        BY <3>1, <4>1, <4>2
    <3>2. CASE t # s
      <4>1. Touched(t)' = Touched(t)
        BY <2>1, <3>2 DEF Touched, Posting
      <4> QED
        BY <2>1, <3>2, <4>1 DEF IInv, WritesAreLocked
    <3> QED
      BY <3>1, <3>2
  <2>6. ClaimedKeysAreNew' /\ NoOverdraft'
    BY DEF IInv, TypeOK, ClaimedKeysAreNew, NoOverdraft
  <2> QED
    BY <2>2, <2>3, <2>4, <2>5, <2>6 DEF IInv
<1> QED
  BY <1>3, <1>4 DEF SerializationFailure, DatabaseError

LEMMA InitIInv == Init => IInv
<1> SUFFICES ASSUME Init PROVE IInv
  OBVIOUS
<1> USE DEF Init
<1>1. \A s \in Session : Held(s) = {} /\ Touched(s) = {}
  BY SessionAssumption DEF Held, Touched
<1>2. AnswersOK
  BY DEF AnswersOK, Indices, Result, Status
<1>3. TypeOK
  BY <1>2, AccountAssumption, BoundAssumption DEF TypeOK, Zero, PC, KeyRow
<1>4. LocksFollowProgram
  BY <1>1, SessionAssumption DEF LocksFollowProgram, Working
<1>5. ReadsStayCurrent
  BY <1>1 DEF ReadsStayCurrent
<1>6. WritesAreLocked
  BY <1>1 DEF WritesAreLocked
<1>7. ClaimedKeysAreNew
  BY DEF ClaimedKeysAreNew
<1>8. NoOverdraft
  BY DEF NoOverdraft, DisplayedBalance, Zero
<1> QED
  BY <1>3, <1>4, <1>5, <1>6, <1>7, <1>8 DEF IInv

LEMMA StutterKeepsIInv ==
  ASSUME IInv, UNCHANGED vars
  PROVE  IInv'
<1> USE DEF vars, tables, locks, locals
<1>1. TypeOK'
  BY AnswersKept DEF IInv, TypeOK
<1>2. LocksFollowProgram' /\ ReadsStayCurrent' /\ WritesAreLocked'
  BY DEF IInv, LocksFollowProgram, ReadsStayCurrent, WritesAreLocked, Held, Touched, Posting, Indices, Zero
<1>3. ClaimedKeysAreNew' /\ NoOverdraft'
  BY DEF IInv, ClaimedKeysAreNew, NoOverdraft
<1> QED
  BY <1>1, <1>2, <1>3 DEF IInv

\* Every step keeps the invariant, one case per action.
LEMMA NextKeepsIInv == IInv /\ [Next]_vars => IInv'
<1> SUFFICES ASSUME IInv, [Next]_vars PROVE IInv'
  OBVIOUS
<1>1. CASE UNCHANGED vars
  BY <1>1, StutterKeepsIInv
<1>2. ASSUME NEW a \in AccountId, CreateAccount(a) PROVE IInv'
  BY <1>2, CreateAccountKeepsIInv
<1>3. ASSUME NEW s \in Session,
             \/ Submit(s) \/ SubmitBatch(s) \/ Claim(s) \/ LockRow(s) \/ LocalStep(s)
             \/ SerializationFailure(s) \/ DatabaseError(s) \/ CommitUnacknowledged(s)
      PROVE  IInv'
  <2>1. CASE Submit(s) \/ SubmitBatch(s)
    BY <2>1, SubmitKeepsIInv
  <2>2. CASE FastRead(s)
    BY <2>2, FastReadKeepsIInv
  <2>3. CASE Claim(s)
    BY <2>3, ClaimKeepsIInv
  <2>4. CASE BeginLocking(s) \/ BeginLockingBatch(s)
    BY <2>4, BeginLockingKeepsIInv
  <2>5. CASE LockRow(s)
    BY <2>5, LockRowKeepsIInv
  <2>6. CASE RowsLocked(s)
    BY <2>6, RowsLockedKeepsIInv
  <2>7. CASE CheckRows(s)
    BY <2>7, CheckRowsKeepsIInv
  <2>8. CASE DecideNext(s)
    BY <2>8, DecideNextKeepsIInv
  <2>9. CASE BatchDecided(s)
    BY <2>9, BatchDecidedKeepsIInv
  <2>10. CASE Commit(s) \/ WriteFails(s) \/ CommitUnacknowledged(s)
    BY <2>10, CommitActionsKeepIInv
  <2>11. CASE SerializationFailure(s) \/ DatabaseError(s)
    BY <2>11, FailureKeepsIInv
  <2> QED
    BY <1>3, <2>1, <2>2, <2>3, <2>4, <2>5, <2>6, <2>7, <2>8, <2>9, <2>10, <2>11 DEF LocalStep
<1> QED
  BY <1>1, <1>2, <1>3 DEF Next, Finished

-----------------------------------------------------------------------------
\* The inductive invariant holds of every reachable state.
THEOREM Invariance == Spec => []IInv
  BY InitIInv, NextKeepsIInv, PTL DEF Spec

\* Type correctness of the posting protocol.
THEOREM TypeCorrect == Spec => []TypeOK
<1>1. IInv => TypeOK
  BY DEF IInv
<1> QED
  BY <1>1, Invariance, PTL

\* No account is ever overdrawn, however the SQL statements of any number of
\* postings and batches interleave, fail and retry, and however amounts are
\* rounded: READ COMMITTED with ordered row locks preserves overdraft safety.
THEOREM OverdraftSafety == Spec => []NoOverdraft
<1>1. IInv => NoOverdraft
  BY DEF IInv
<1> QED
  BY <1>1, Invariance, PTL

\* Sessions wait for each other only up the lock order, so postings and
\* batches cannot deadlock among themselves.
THEOREM DeadlockFreedom == Spec => []WaitingFollowsLockOrder
<1>1. IInv => WaitingFollowsLockOrder
  <2> SUFFICES ASSUME IInv, NEW s \in Session, NEW t \in Session, WaitsFor(s, t)
               PROVE  /\ pc[t] # "claim"
                      /\ \A a, b \in AccountId :
                           pc[s] = "lock" /\ pc[t] = "lock" /\ IsNextRow(s, a) /\ IsNextRow(t, b) => a < b
    BY DEF WaitingFollowsLockOrder
  <2>1. CASE pc[s] = "claim" /\ keyLock[call[s].key] = t
    <3>1. call[s].key \in Key
      BY <2>1, KeyedCall
    <3> QED
      BY <2>1, <3>1 DEF IInv, LocksFollowProgram, Working
  <2>2. CASE pc[s] = "lock" /\ \E a \in AccountId : IsNextRow(s, a) /\ rowLock[a] = t
    <3>1. PICK c \in AccountId : IsNextRow(s, c) /\ rowLock[c] = t
      BY <2>2
    <3>2. c \in Held(t)
      BY <3>1 DEF Held
    <3>3. pc[t] # "claim"
      BY <3>2 DEF IInv, LocksFollowProgram
    <3>4. ASSUME NEW a \in AccountId, NEW b \in AccountId, IsNextRow(s, a), IsNextRow(t, b)
          PROVE  a < b
      <4>1. a = c
        BY <3>1, <3>4, AccountAssumption DEF IsNextRow
      <4>2. c < b
        BY <3>2, <3>4 DEF IInv, LocksFollowProgram, IsNextRow
      <4> QED
        BY <4>1, <4>2
    <3> QED
      BY <3>3, <3>4
  <2> QED
    BY <2>1, <2>2 DEF WaitsFor
<1> QED
  BY <1>1, Invariance, PTL

-----------------------------------------------------------------------------
(* Idempotency keys, the outbox and the immutability of history.  Only a   *)
(* commit touches these tables.                                            *)

\* Rounding the stored rows again changes nothing, so the checksum of a
\* posting is the checksum of its rows.
LEMMA ChecksumOfStored ==
  ASSUME NEW entries,
         \A j \in DOMAIN entries : entries[j].debit \in Int /\ entries[j].credit \in Int
  PROVE  Checksum(Stored(entries)) = Checksum(entries)
<1>1. Stored(Stored(entries)) = Stored(entries)
  <2>1. DOMAIN Stored(entries) = DOMAIN entries
    BY DEF Stored
  <2>2. ASSUME NEW j \in DOMAIN entries
        PROVE  Stored(Stored(entries))[j] = Stored(entries)[j]
    <3>1. Stored(entries)[j] = [account |-> entries[j].account,
                                debit   |-> Round(entries[j].debit),
                                credit  |-> Round(entries[j].credit)]
      BY DEF Stored
    <3>2. Stored(Stored(entries))[j] = [account |-> Stored(entries)[j].account,
                                        debit   |-> Round(Stored(entries)[j].debit),
                                        credit  |-> Round(Stored(entries)[j].credit)]
      BY <2>1 DEF Stored
    <3>3. /\ Round(Round(entries[j].debit)) = Round(entries[j].debit)
          /\ Round(Round(entries[j].credit)) = Round(entries[j].credit)
      BY RoundIdempotent
    <3> QED
      BY <3>1, <3>2, <3>3
  <2>3. /\ Stored(Stored(entries)) = [j \in DOMAIN entries |-> Stored(Stored(entries))[j]]
        /\ Stored(entries) = [j \in DOMAIN entries |-> Stored(entries)[j]]
    BY <2>1 DEF Stored
  <2> QED
    BY <2>2, <2>3
<1> QED
  BY <1>1 DEF Checksum

\* What a commit does to the tables of transactions and keys.
LEMMA CommitEffect ==
  ASSUME IInv, NEW s \in Session, pc[s] = "commit", CommitWrites(s)
  PROVE  /\ Len(txns) \in Nat /\ Len(accepted[s]) \in Nat
         /\ Len(txns') = Len(txns) + Len(accepted[s])
         /\ DOMAIN txns = 1..Len(txns)
         /\ DOMAIN txns' = 1..(Len(txns) + Len(accepted[s]))
         /\ \A i \in 1..Len(txns) : txns'[i] = txns[i]
         /\ \A i \in 1..Len(accepted[s]) : txns'[Len(txns) + i] = NewRow(s, accepted[s][i])
         /\ \A k \in Key : k # call[s].key => keys'[k] = keys[k]
         /\ call[s].key # NoKey =>
              /\ call[s].key \in Key
              /\ accepted[s] = <<1>>
              /\ keys[call[s].key] = AbsentKey
              /\ keys'[call[s].key] = CompletedKey(s)
<1>1. txns \in Seq(TxnRow) /\ accepted[s] \in Seq(Nat) /\ call[s] \in Calls
  BY DEF IInv, TypeOK
<1>2. txns' = txns \o NewRows(s) /\ NewRows(s) \in Seq(TxnRow) /\ Len(NewRows(s)) = Len(accepted[s])
  BY NewRowsType DEF CommitWrites
<1>3. \A i \in 1..Len(accepted[s]) : NewRows(s)[i] = NewRow(s, accepted[s][i])
  BY <1>1 DEF NewRows
<1>4. /\ Len(txns') = Len(txns) + Len(accepted[s])
      /\ DOMAIN txns' = 1..(Len(txns) + Len(accepted[s]))
      /\ \A i \in 1..Len(txns) : txns'[i] = txns[i]
      /\ \A i \in 1..Len(accepted[s]) : txns'[Len(txns) + i] = NewRows(s)[i]
  BY <1>1, <1>2
<1>5. \A k \in Key : keys'[k] = IF k = call[s].key THEN CompletedKey(s) ELSE keys[k]
  BY DEF CommitWrites
<1>6. ASSUME call[s].key # NoKey
      PROVE  /\ call[s].key \in Key
             /\ accepted[s] = <<1>>
             /\ keys[call[s].key] = AbsentKey
  <2>1. call[s].key \in Key /\ ~call[s].batch
    BY <1>1, <1>6, CallFacts
  <2>2. keyLock[call[s].key] = s
    BY <1>6 DEF IInv, LocksFollowProgram, Working
  <2>3. keys[call[s].key] = AbsentKey
    BY <2>1, <2>2, SessionAssumption DEF IInv, ClaimedKeysAreNew
  <2>4. accepted[s] = <<1>>
    BY <2>1 DEF IInv, WritesAreLocked
  <2> QED
    BY <2>1, <2>3, <2>4
<1> QED
  BY <1>1, <1>3, <1>4, <1>5, <1>6

\* A session writes when it commits, and only then.
LEMMA WritesAtCommit ==
  ASSUME NEW s \in Session,
         \/ Submit(s) \/ SubmitBatch(s) \/ Claim(s) \/ LockRow(s) \/ LocalStep(s)
         \/ SerializationFailure(s) \/ DatabaseError(s) \/ CommitUnacknowledged(s)
  PROVE  \/ UNCHANGED tables
         \/ /\ pc[s] = "commit" /\ CommitWrites(s)
            /\ (Commit(s) \/ CommitUnacknowledged(s))
<1>1. ASSUME Submit(s) \/ SubmitBatch(s) PROVE UNCHANGED tables
  BY <1>1 DEF Submit, SubmitBatch, ReturnOnly
<1>2. ASSUME Claim(s) \/ FastRead(s) PROVE UNCHANGED tables
  BY <1>2 DEF Claim, FastRead, ReturnOnly
<1>3. ASSUME LockRow(s) \/ BeginLocking(s) \/ BeginLockingBatch(s) \/ RowsLocked(s) PROVE UNCHANGED tables
  BY <1>3 DEF LockRow, BeginLocking, BeginLockingBatch, RowsLocked, ReturnOnly
<1>4. ASSUME CheckRows(s) \/ DecideNext(s) \/ BatchDecided(s) \/ WriteFails(s) PROVE UNCHANGED tables
  BY <1>4 DEF CheckRows, DecideNext, BatchDecided, WriteFails, ReturnOnly
<1>5. ASSUME SerializationFailure(s) \/ DatabaseError(s) PROVE UNCHANGED tables
  BY <1>5 DEF SerializationFailure, DatabaseError, ReturnOnly
<1>6. CASE Commit(s) \/ CommitUnacknowledged(s)
  BY <1>6 DEF Commit, CommitUnacknowledged
<1> QED
  BY <1>1, <1>2, <1>3, <1>4, <1>5, <1>6 DEF LocalStep

\* A step either commits or leaves the tables of the ledger's history alone.
LEMMA OnlyCommitsWrite ==
  ASSUME IInv, [Next]_vars
  PROVE  \/ UNCHANGED <<txns, keys, outbox>>
         \/ \E s \in Session : pc[s] = "commit" /\ CommitWrites(s)
<1>1. CASE UNCHANGED vars
  BY <1>1 DEF vars, tables
<1>2. CASE \E a \in AccountId : CreateAccount(a)
  BY <1>2 DEF CreateAccount
<1> QED
  BY <1>1, <1>2, WritesAtCommit DEF Next, Finished, tables

\* Every posting is announced in the commit that makes it, and nothing else
\* is.
THEOREM OutboxAtomicity == Spec => []PostingsAnnounced
<1>1. Init => PostingsAnnounced
  BY DEF Init, PostingsAnnounced
<1>2. IInv /\ PostingsAnnounced /\ [Next]_vars => PostingsAnnounced'
  <2> SUFFICES ASSUME IInv, PostingsAnnounced, [Next]_vars
               PROVE  PostingsAnnounced'
    OBVIOUS
  <2>1. CASE UNCHANGED <<txns, keys, outbox>>
    BY <2>1 DEF PostingsAnnounced
  <2>2. ASSUME NEW s \in Session, pc[s] = "commit", CommitWrites(s)
        PROVE  PostingsAnnounced'
    <3>1. /\ Len(txns) \in Nat /\ Len(accepted[s]) \in Nat
          /\ DOMAIN txns = 1..Len(txns)
          /\ DOMAIN txns' = 1..(Len(txns) + Len(accepted[s]))
      BY <2>2, CommitEffect
    <3>2. outbox' = outbox \cup NewIds(s)
      BY <2>2 DEF CommitWrites
    <3> QED
      BY <3>1, <3>2 DEF PostingsAnnounced, NewIds
  <2> QED
    BY <2>1, <2>2, OnlyCommitsWrite
<1> QED
  BY <1>1, <1>2, Invariance, PTL DEF Spec

\* Committed history is immutable: postings are only appended, and a key
\* once bound keeps its transaction.
THEOREM HistoryImmutable == Spec => HistoryKept
<1>1. ASSUME IInv, [Next]_vars
      PROVE  /\ Len(txns') >= Len(txns) /\ SubSeq(txns', 1, Len(txns)) = txns
             /\ \A k \in Key : keys[k].txn # 0 => keys'[k] = keys[k]
  <2>1. txns \in Seq(TxnRow) /\ Len(txns) \in Nat
    BY <1>1 DEF IInv, TypeOK
  <2>2. CASE UNCHANGED <<txns, keys, outbox>>
    BY <2>1, <2>2
  <2>3. ASSUME NEW s \in Session, pc[s] = "commit", CommitWrites(s)
        PROVE  /\ Len(txns') >= Len(txns) /\ SubSeq(txns', 1, Len(txns)) = txns
               /\ \A k \in Key : keys[k].txn # 0 => keys'[k] = keys[k]
    <3>1. /\ Len(accepted[s]) \in Nat
          /\ Len(txns') = Len(txns) + Len(accepted[s])
          /\ \A i \in 1..Len(txns) : txns'[i] = txns[i]
      BY <1>1, <2>3, CommitEffect
    <3>2. txns' \in Seq(TxnRow)
      BY <1>1, NextKeepsIInv DEF IInv, TypeOK
    <3>3. SubSeq(txns', 1, Len(txns)) = txns
      BY <2>1, <3>1, <3>2
    <3>4. \A k \in Key : k # call[s].key => keys'[k] = keys[k]
      BY <1>1, <2>3, CommitEffect
    <3>5. call[s].key \in Key => keys[call[s].key].txn = 0
      BY <1>1, <2>3, CommitEffect, KeyAssumption DEF AbsentKey
    <3> QED
      BY <2>1, <3>1, <3>3, <3>4, <3>5
  <2> QED
    BY <1>1, <2>2, <2>3, OnlyCommitsWrite
<1> QED
  BY <1>1, Invariance, PTL DEF Spec, HistoryKept

\* A key and the transaction posted under it name each other, across retries,
\* conflicting reuse of keys, failures and lost acknowledgements: a keyed
\* posting takes effect at most once, and a key is never spent in vain.
THEOREM Idempotency == Spec => []KeysNameTransactions
<1>1. Init => KeysNameTransactions
  BY DEF Init, KeysNameTransactions, AbsentKey
<1>2. IInv /\ KeysNameTransactions /\ [Next]_vars => KeysNameTransactions'
  <2> SUFFICES ASSUME IInv, KeysNameTransactions, [Next]_vars
               PROVE  KeysNameTransactions'
    OBVIOUS
  <2>1. CASE UNCHANGED <<txns, keys, outbox>>
    BY <2>1 DEF KeysNameTransactions
  <2>2. ASSUME NEW s \in Session, pc[s] = "commit", CommitWrites(s)
        PROVE  KeysNameTransactions'
    <3> DEFINE n == Len(txns)
               m == Len(accepted[s])
               key == call[s].key
    <3>1. /\ n \in Nat /\ m \in Nat
          /\ DOMAIN txns = 1..n
          /\ DOMAIN txns' = 1..(n + m)
          /\ \A i \in 1..n : txns'[i] = txns[i]
          /\ \A i \in 1..m : txns'[n + i] = NewRow(s, accepted[s][i])
          /\ \A k \in Key : k # key => keys'[k] = keys[k]
      BY <2>2, CommitEffect
    <3>2. key # NoKey =>
            /\ key \in Key
            /\ accepted[s] = <<1>>
            /\ keys[key] = AbsentKey
            /\ keys'[key] = CompletedKey(s)
      BY <2>2, CommitEffect
    <3>3. call[s] \in Calls
      BY DEF IInv, TypeOK
    <3>4. ASSUME NEW k \in Key, k # key, keys'[k].status # "absent"
          PROVE  /\ keys'[k].status = "completed"
                 /\ keys'[k].txn \in DOMAIN txns'
                 /\ txns'[keys'[k].txn].key = k
                 /\ keys'[k].sum = Checksum(txns'[keys'[k].txn].entries)
      <4>1. keys'[k] = keys[k]
        BY <3>1, <3>4
      <4>2. /\ keys[k].status = "completed"
            /\ keys[k].txn \in 1..n
            /\ txns[keys[k].txn].key = k
            /\ keys[k].sum = Checksum(txns[keys[k].txn].entries)
        BY <3>1, <3>4, <4>1 DEF KeysNameTransactions
      <4>3. keys[k].txn \in 1..(n + m) /\ txns'[keys[k].txn] = txns[keys[k].txn]
        BY <3>1, <4>2
      <4> QED
        BY <3>1, <4>1, <4>2, <4>3
    <3>5. ASSUME key \in Key
          PROVE  /\ keys'[key].status = "completed"
                 /\ keys'[key].txn = n + 1
                 /\ n + 1 \in DOMAIN txns'
                 /\ txns'[n + 1].key = key
                 /\ keys'[key].sum = Checksum(txns'[n + 1].entries)
                 /\ m = 1
      <4>1. accepted[s] = <<1>> /\ m = 1 /\ accepted[s][1] = 1
        BY <3>2, <3>5, KeyAssumption
      <4>2. txns'[n + 1] = NewRow(s, 1)
        BY <3>1, <4>1
      <4>3. n + 1 \in 1..(n + m)
        BY <3>1, <4>1
      <4>4. txns'[n + 1].key = key /\ txns'[n + 1].entries = Stored(Posting(s, 1))
        BY <4>2 DEF NewRow
      <4>5. Checksum(Stored(Posting(s, 1))) = Checksum(Posting(s, 1))
        <5>1. 1 \in DOMAIN call[s].postings
          BY <3>3, <3>5, KeyAssumption, CallFacts
        <5>2. \A j \in DOMAIN Posting(s, 1) :
                Posting(s, 1)[j].debit \in Int /\ Posting(s, 1)[j].credit \in Int
          BY <3>3, <5>1, CallFacts DEF Posting
        <5> QED
          BY <5>2, ChecksumOfStored
      <4>6. keys'[key] = CompletedKey(s)
        BY <3>2, <3>5, KeyAssumption
      <4> QED
        BY <3>1, <4>1, <4>3, <4>4, <4>5, <4>6 DEF CompletedKey
    <3>6. ASSUME NEW i \in DOMAIN txns', txns'[i].key # NoKey
          PROVE  keys'[txns'[i].key].txn = i
      <4>1. CASE i \in 1..n
        <5>1. txns'[i] = txns[i] /\ i \in DOMAIN txns
          BY <3>1, <4>1
        <5>2. keys[txns[i].key].txn = i /\ i # 0
          BY <3>1, <3>6, <4>1, <5>1 DEF KeysNameTransactions
        <5>3. txns[i].key \in Key
          <6>1. txns[i] \in TxnRow
            BY <5>1 DEF IInv, TypeOK
          <6>2. txns[i].key \in Key \cup {NoKey}
            BY <6>1 DEF TxnRow
          <6> QED
            BY <3>6, <5>1, <6>2
        <5>4. txns[i].key # key
          BY <3>2, <3>6, <5>1, <5>2 DEF AbsentKey
        <5> QED
          BY <3>1, <5>1, <5>2, <5>3, <5>4
      <4>2. CASE i \notin 1..n
        <5>1. i - n \in 1..m /\ i = n + (i - n)
          BY <3>1, <4>2
        <5>2. txns'[i] = NewRow(s, accepted[s][i - n])
          BY <3>1, <5>1
        <5>3. txns'[i].key = key
          BY <5>2 DEF NewRow
        <5>4. key \in Key
          BY <3>2, <3>6, <5>3
        <5>5. i = n + 1
          <6>1. m = 1
            BY <3>5, <5>4
          <6>2. i \in Int
            BY <3>1, <3>6
          <6> QED
            BY <3>1, <5>1, <6>1, <6>2
        <5> QED
          BY <3>5, <5>3, <5>4, <5>5
      <4> QED
        BY <4>1, <4>2
    <3> QED
      <4>1. \A k \in Key :
              keys'[k].status # "absent" =>
                /\ keys'[k].status = "completed"
                /\ keys'[k].txn \in DOMAIN txns'
                /\ txns'[keys'[k].txn].key = k
                /\ keys'[k].sum = Checksum(txns'[keys'[k].txn].entries)
        BY <3>4, <3>5
      <4>2. \A i \in DOMAIN txns' : txns'[i].key # NoKey => keys'[txns'[i].key].txn = i
        BY <3>6
      <4> QED
        BY <4>1, <4>2 DEF KeysNameTransactions, Checksum, Stored, Round, Magnitude
  <2> QED
    BY <2>1, <2>2, OnlyCommitsWrite
<1> QED
  BY <1>1, <1>2, Invariance, PTL DEF Spec

-----------------------------------------------------------------------------
(* What clients are told.  Answers are compared with tables that other     *)
(* sessions go on changing, and a batch gives its members their numbers    *)
(* before it knows where in the journal they will stand.                   *)

\* Transactions stay where they are.
LEMMA JournalGrows ==
  ASSUME IInv, [Next]_vars
  PROVE  \A n \in DOMAIN txns : n \in DOMAIN txns' /\ txns'[n] = txns[n]
<1>1. CASE UNCHANGED <<txns, keys, outbox>>
  BY <1>1
<1>2. ASSUME NEW s \in Session, pc[s] = "commit", CommitWrites(s)
      PROVE  \A n \in DOMAIN txns : n \in DOMAIN txns' /\ txns'[n] = txns[n]
  <2>1. /\ Len(txns) \in Nat /\ Len(accepted[s]) \in Nat
        /\ DOMAIN txns = 1..Len(txns)
        /\ DOMAIN txns' = 1..(Len(txns) + Len(accepted[s]))
        /\ \A i \in 1..Len(txns) : txns'[i] = txns[i]
    BY <1>2, CommitEffect
  <2> QED
    BY <2>1
<1> QED
  BY <1>1, <1>2, OnlyCommitsWrite

\* Answers that were true stay true.
LEMMA TruthLasts ==
  ASSUME IInv, [Next]_vars, NEW t \in Session, Truthful(t),
         answer'[t] = answer[t], posted'[t] = posted[t], call'[t] = call[t]
  PROVE  Truthful(t)'
<1>1. \A n \in DOMAIN txns : n \in DOMAIN txns' /\ txns'[n] = txns[n]
  BY JournalGrows
<1>2. Indices(t)' = Indices(t) /\ \A i \in Indices(t) : Posting(t, i)' = Posting(t, i)
  BY DEF Indices, Posting
<1>3. ASSUME NEW i \in Indices(t), answer[t][i].status \in {"posted", "existing"}
      PROVE  /\ answer[t][i].txn \in DOMAIN txns'
             /\ Checksum(txns'[answer[t][i].txn].entries) = Checksum(Posting(t, i))
             /\ answer[t][i].status = "existing" => answer[t][i].txn \notin posted[t]
  <2>1. /\ answer[t][i].txn \in DOMAIN txns
        /\ Checksum(txns[answer[t][i].txn].entries) = Checksum(Posting(t, i))
        /\ answer[t][i].status = "existing" => answer[t][i].txn \notin posted[t]
    BY <1>3 DEF Truthful
  <2> QED
    BY <1>1, <2>1
<1>4. \/ \E i \in Indices(t) : answer[t][i].status = "lost"
      \/ posted[t] = {answer[t][i].txn : i \in {j \in Indices(t) : answer[t][j].status = "posted"}}
  BY DEF Truthful
<1> QED
  BY <1>2, <1>3, <1>4 DEF Truthful

\* A step of session s, as the other sessions see it.
LEMMA OthersUntouched ==
  ASSUME IInv, NEW s \in Session, NEW t \in Session \ {s},
         \/ Submit(s) \/ SubmitBatch(s) \/ Claim(s) \/ LockRow(s) \/ LocalStep(s)
         \/ SerializationFailure(s) \/ DatabaseError(s) \/ CommitUnacknowledged(s)
  PROVE  /\ pc'[t] = pc[t] /\ answer'[t] = answer[t] /\ posted'[t] = posted[t]
         /\ cursor'[t] = cursor[t] /\ accepted'[t] = accepted[t] /\ call' = call
         /\ missing'[t] = missing[t]
<1> DEFINE Same == /\ pc'[t] = pc[t] /\ answer'[t] = answer[t] /\ posted'[t] = posted[t]
                   /\ cursor'[t] = cursor[t] /\ accepted'[t] = accepted[t] /\ call' = call
                   /\ missing'[t] = missing[t]
<1> USE DEF IInv, TypeOK, AnswersOK, locals, Return, ReturnOnly, ForgetAttempt
<1>1. CASE Submit(s) \/ SubmitBatch(s)
  BY <1>1 DEF Submit, SubmitBatch
<1>2. CASE Claim(s) \/ FastRead(s)
  BY <1>2 DEF Claim, FastRead
<1>3. CASE LockRow(s) \/ BeginLocking(s) \/ BeginLockingBatch(s) \/ RowsLocked(s)
  BY <1>3 DEF LockRow, BeginLocking, BeginLockingBatch, RowsLocked
<1>4. CASE CheckRows(s) \/ DecideNext(s) \/ BatchDecided(s) \/ WriteFails(s)
  BY <1>4 DEF CheckRows, DecideNext, BatchDecided, WriteFails, Accept
<1>5. CASE SerializationFailure(s) \/ DatabaseError(s)
  BY <1>5 DEF SerializationFailure, DatabaseError
<1>6. CASE Commit(s) \/ CommitUnacknowledged(s)
  BY <1>6 DEF Commit, CommitUnacknowledged, CommitWrites
<1> QED
  BY <1>1, <1>2, <1>3, <1>4, <1>5, <1>6 DEF LocalStep

\* A call that goes on without deciding anything.
LEMMA MoveKeepsDecisions ==
  ASSUME NEW s \in Session, DecisionsNoted(s), call' = call, posted'[s] = posted[s],
         \/ ~call[s].batch
         \/ /\ answer'[s] = answer[s] /\ accepted'[s] = accepted[s]
            /\ cursor'[s] = cursor[s]
  PROVE  DecisionsNoted(s)'
  BY DEF DecisionsNoted, Indices

\* A call that returns without a transaction tells the truth.
LEMMA RefusalIsTrue ==
  ASSUME IInv, NEW s \in Session, posted[s] = {}, NEW status, NEW txn,
         status \notin {"posted", "existing"},
         ReturnOnly(s, AllAnswers(s, status, txn))
  PROVE  pc'[s] = "done" /\ Truthful(s)'
<1>1. /\ answer'[s] = AllAnswers(s, status, txn) /\ posted'[s] = {} /\ call' = call
      /\ pc'[s] = "done"
  BY DEF ReturnOnly, Return, IInv, TypeOK, AnswersOK
<1>2. Indices(s)' = Indices(s) /\ \A i \in Indices(s) : answer'[s][i].status = status
  BY <1>1 DEF Indices, AllAnswers
<1> QED
  BY <1>1, <1>2 DEF Truthful

\* A call that finds its key taken tells of the transaction that took it.
LEMMA ExistingIsTrue ==
  ASSUME IInv, KeysNameTransactions, NEW s \in Session, posted[s] = {}, ~call[s].batch,
         call[s].key \in Key, keys[call[s].key].status # "absent",
         keys[call[s].key].sum = Checksum(Posting(s, 1)),
         ReturnOnly(s, AllAnswers(s, "existing", keys[call[s].key].txn))
  PROVE  pc'[s] = "done" /\ Truthful(s)'
<1> DEFINE n == keys[call[s].key].txn
<1>1. /\ answer'[s] = AllAnswers(s, "existing", n) /\ posted'[s] = {} /\ call' = call
      /\ pc'[s] = "done" /\ txns' = txns
  BY DEF ReturnOnly, Return, IInv, TypeOK, AnswersOK, tables
<1>2. n \in DOMAIN txns /\ Checksum(txns[n].entries) = Checksum(Posting(s, 1))
  BY DEF KeysNameTransactions
<1>3. Indices(s)' = {1} /\ Indices(s) = {1}
  <2>1. call[s] \in Calls
    BY DEF IInv, TypeOK
  <2>2. Len(call[s].postings) = 1 /\ DOMAIN call[s].postings = 1..1
    BY <2>1, CallFacts
  <2> QED
    BY <1>1, <2>2 DEF Indices
<1>4. answer'[s][1] = [status |-> "existing", txn |-> n] /\ Posting(s, 1)' = Posting(s, 1)
  BY <1>1, <1>3 DEF AllAnswers, Posting
<1> HIDE DEF n
<1>5. /\ n \in DOMAIN txns'
      /\ Checksum(txns'[n].entries) = Checksum(Posting(s, 1)')
      /\ n \notin posted'[s]
  BY <1>1, <1>2, <1>4
<1>6. posted'[s] = {answer'[s][i].txn : i \in {j \in Indices(s)' : answer'[s][j].status = "posted"}}
  BY <1>1, <1>3, <1>4
<1> QED
  BY <1>1, <1>3, <1>4, <1>5, <1>6 DEF Truthful

\* Each accepted member is told the place its rows got in the journal.
LEMMA CommitIsTrue ==
  ASSUME IInv, NEW s \in Session, pc[s] = "commit", DecisionsNoted(s),
         CommitWrites(s), Return(s, CommittedAnswers(s))
  PROVE  pc'[s] = "done" /\ Truthful(s)'
<1> DEFINE n == Len(txns)
           m == Len(accepted[s])
<1>1. /\ n \in Nat /\ m \in Nat /\ DOMAIN txns' = 1..(n + m)
      /\ \A j \in 1..m : txns'[n + j] = NewRow(s, accepted[s][j])
  BY CommitEffect
<1>2. /\ call[s] \in Calls /\ accepted[s] \in Seq(Nat) /\ DOMAIN accepted[s] = 1..m
      /\ answer[s] \in [Indices(s) -> Result]
  BY DEF IInv, TypeOK, AnswersOK
<1>3. /\ pc'[s] = "done" /\ call' = call /\ answer'[s] = CommittedAnswers(s)
      /\ posted'[s] = (n + 1)..(n + m)
  <2>1. posted'[s] = posted[s] \cup NewIds(s)
    BY DEF CommitWrites, IInv, TypeOK
  <2> QED
    BY <2>1 DEF Return, IInv, TypeOK, AnswersOK, DecisionsNoted, NewIds
<1>4. Indices(s)' = Indices(s) /\ \A i \in Indices(s) : Posting(s, i)' = Posting(s, i)
  BY <1>3 DEF Indices, Posting
<1>5. ASSUME NEW j \in 1..m
      PROVE  Checksum(txns'[n + j].entries) = Checksum(Posting(s, accepted[s][j]))
  <2>1. accepted[s][j] \in Indices(s)
    BY <1>2 DEF IInv, WritesAreLocked
  <2>2. \A x \in DOMAIN Posting(s, accepted[s][j]) :
          /\ Posting(s, accepted[s][j])[x].debit \in Int
          /\ Posting(s, accepted[s][j])[x].credit \in Int
    BY <1>2, <2>1, CallFacts DEF Posting, Indices
  <2>3. txns'[n + j] = NewRow(s, accepted[s][j])
    BY <1>1
  <2>4. NewRow(s, accepted[s][j]).entries = Stored(Posting(s, accepted[s][j]))
    BY DEF NewRow
  <2> QED
    BY <2>2, <2>3, <2>4, ChecksumOfStored
\* The posted answers are numbered like the accepted postings.
<1>6. \A i \in Indices(s) :
        /\ answer'[s][i].status # "existing"
        /\ answer'[s][i].status = "posted" =>
             \E j \in 1..m : accepted[s][j] = i /\ answer'[s][i].txn = n + j
  <2>1. CASE ~call[s].batch
    <3>1. accepted[s] = <<1>> /\ m = 1 /\ accepted[s][1] = 1
      BY <2>1 DEF IInv, WritesAreLocked
    <3>2. Indices(s) = {1}
      BY <1>2, <2>1, CallFacts DEF Indices
    <3>3. answer'[s][1] = [status |-> "posted", txn |-> n + 1]
      BY <1>3, <2>1, <3>2 DEF CommittedAnswers, AllAnswers
    <3> QED
      BY <3>1, <3>2, <3>3
  <2>2. ASSUME call[s].batch, NEW i \in Indices(s)
        PROVE  /\ answer'[s][i].status # "existing"
               /\ answer'[s][i].status = "posted" =>
                    \E j \in 1..m : accepted[s][j] = i /\ answer'[s][i].txn = n + j
    <3>1. CASE answer[s][i].status = "accepted"
      <4>1. PICK j \in 1..m : accepted[s][j] = i
        BY <1>2, <2>2, <3>1 DEF DecisionsNoted
      <4>2. answer[s][i] = [status |-> "accepted", txn |-> j]
        BY <1>2, <2>2, <4>1 DEF DecisionsNoted
      <4>3. answer'[s][i] = [status |-> "posted", txn |-> n + j]
        BY <1>3, <2>2, <3>1, <4>2 DEF CommittedAnswers
      <4> QED
        BY <4>1, <4>3
    <3>2. CASE answer[s][i].status # "accepted"
      <4>1. answer'[s][i] = answer[s][i] /\ answer[s][i].status \in {"open", "rejected"}
        BY <1>3, <2>2, <3>2 DEF CommittedAnswers, DecisionsNoted
      <4> QED
        BY <4>1
    <3> QED
      BY <3>1, <3>2
  <2> QED
    BY <2>1, <2>2
<1>7. \A j \in 1..m : /\ accepted[s][j] \in Indices(s)
                      /\ answer'[s][accepted[s][j]] = [status |-> "posted", txn |-> n + j]
  <2> SUFFICES ASSUME NEW j \in 1..m
               PROVE  /\ accepted[s][j] \in Indices(s)
                      /\ answer'[s][accepted[s][j]] = [status |-> "posted", txn |-> n + j]
    OBVIOUS
  <2>1. accepted[s][j] \in Indices(s)
    BY <1>2 DEF IInv, WritesAreLocked
  <2>2. CASE ~call[s].batch
    <3>1. accepted[s] = <<1>> /\ m = 1
      BY <2>2 DEF IInv, WritesAreLocked
    <3>2. j = 1 /\ accepted[s][j] = 1
      BY <3>1
    <3> QED
      BY <1>3, <2>1, <2>2, <3>2 DEF CommittedAnswers, AllAnswers
  <2>3. CASE call[s].batch
    <3>1. answer[s][accepted[s][j]] = [status |-> "accepted", txn |-> j]
      BY <1>2, <2>3 DEF DecisionsNoted
    <3> QED
      BY <1>3, <2>1, <2>3, <3>1 DEF CommittedAnswers
  <2> QED
    BY <2>1, <2>2, <2>3
<1> HIDE DEF n, m
<1>8. ASSUME NEW i \in Indices(s), answer'[s][i].status \in {"posted", "existing"}
      PROVE  /\ answer'[s][i].status = "posted"
             /\ answer'[s][i].txn \in DOMAIN txns'
             /\ Checksum(txns'[answer'[s][i].txn].entries) = Checksum(Posting(s, i)')
  <2>1. answer'[s][i].status = "posted"
    BY <1>6, <1>8
  <2>2. PICK j \in 1..m : accepted[s][j] = i /\ answer'[s][i].txn = n + j
    BY <1>6, <2>1
  <2>3. n + j \in 1..(n + m)
    BY <1>1
  <2> QED
    BY <1>1, <1>4, <1>5, <2>1, <2>2, <2>3
<1>9. posted'[s] = {answer'[s][i].txn : i \in {j \in Indices(s) : answer'[s][j].status = "posted"}}
  <2>1. ASSUME NEW x \in (n + 1)..(n + m)
        PROVE  \E i \in Indices(s) : answer'[s][i].status = "posted" /\ answer'[s][i].txn = x
    <3>1. x - n \in 1..m /\ n + (x - n) = x
      BY <1>1
    <3>2. /\ accepted[s][x - n] \in Indices(s)
          /\ answer'[s][accepted[s][x - n]] = [status |-> "posted", txn |-> n + (x - n)]
      BY <1>7, <3>1
    <3>3. /\ answer'[s][accepted[s][x - n]].status = "posted"
          /\ answer'[s][accepted[s][x - n]].txn = x
      BY <3>1, <3>2
    <3> QED
      BY <3>2, <3>3
  <2>2. ASSUME NEW i \in Indices(s), answer'[s][i].status = "posted"
        PROVE  answer'[s][i].txn \in (n + 1)..(n + m)
    <3>1. PICK j \in 1..m : answer'[s][i].txn = n + j
      BY <1>6, <2>2
    <3> QED
      BY <1>1, <3>1
  <2> QED
    BY <1>3, <2>1, <2>2
<1> QED
  BY <1>3, <1>4, <1>8, <1>9 DEF Truthful

\* A commit nobody hears of leaves its client in doubt, unless it was empty.
LEMMA LostIsTrue ==
  ASSUME IInv, NEW s \in Session, pc[s] = "commit", DecisionsNoted(s),
         CommitWrites(s), Return(s, AllAnswers(s, "lost", 0))
  PROVE  pc'[s] = "done" /\ Truthful(s)'
<1>1. /\ pc'[s] = "done" /\ call' = call /\ answer'[s] = AllAnswers(s, "lost", 0)
      /\ posted'[s] = NewIds(s)
  <2>1. posted'[s] = posted[s] \cup NewIds(s)
    BY DEF CommitWrites, IInv, TypeOK
  <2> QED
    BY <2>1 DEF Return, IInv, TypeOK, AnswersOK, DecisionsNoted
<1>2. Indices(s)' = Indices(s) /\ \A i \in Indices(s) : answer'[s][i].status = "lost"
  BY <1>1 DEF Indices, AllAnswers
<1>3. CASE Indices(s) = {}
  <2>1. accepted[s] \in Seq(Nat) /\ DOMAIN accepted[s] = 1..Len(accepted[s])
        /\ Len(accepted[s]) \in Nat
    BY DEF IInv, TypeOK
  <2>2. \A j \in DOMAIN accepted[s] : accepted[s][j] \in Indices(s)
    BY DEF IInv, WritesAreLocked
  <2>3. Len(accepted[s]) = 0
    <3>1. Len(accepted[s]) # 0 => 1 \in DOMAIN accepted[s]
      BY <2>1
    <3> QED
      BY <1>3, <2>2, <3>1
  <2>4. Len(txns) \in Nat
    BY DEF IInv, TypeOK
  <2>5. posted'[s] = {}
    BY <1>1, <2>3, <2>4 DEF NewIds
  <2> QED
    BY <1>1, <1>2, <1>3, <2>5 DEF Truthful
<1>4. CASE Indices(s) # {}
  BY <1>1, <1>2, <1>4 DEF Truthful
<1> QED
  BY <1>3, <1>4

\* The next member of a batch is decided: it was open, so none of the accepted
\* ones is renumbered.
LEMMA DecideNextNotes ==
  ASSUME IInv, NEW s \in Session, DecisionsNoted(s), DecideNext(s)
  PROVE  pc'[s] # "done" /\ DecisionsNoted(s)'
<1> DEFINE c == cursor[s]
           m == Len(accepted[s])
<1>1. /\ pc'[s] # "done" /\ call[s].batch /\ call' = call /\ posted'[s] = {}
      /\ c \in Indices(s) /\ cursor'[s] = c + 1 /\ c \in Nat
  BY DEF DecideNext, IInv, TypeOK, DecisionsNoted
<1>2. /\ accepted[s] \in Seq(Nat) /\ DOMAIN accepted[s] = 1..m /\ m \in Nat
      /\ answer[s] \in [Indices(s) -> Result] /\ Indices(s)' = Indices(s)
      /\ Indices(s) \subseteq Nat
  <2>1. call[s] \in Calls
    BY DEF IInv, TypeOK
  <2>2. Indices(s) \subseteq Nat
    BY <2>1, CallFacts DEF Indices
  <2> QED
    BY <1>1, <2>2 DEF IInv, TypeOK, AnswersOK, Indices
<1>3. /\ \A i \in Indices(s) :
           /\ answer[s][i].status \in {"open", "rejected", "accepted"}
           /\ answer[s][i].status = "accepted" =>
                i < c /\ \E j \in 1..m : accepted[s][j] = i
      /\ \A j \in 1..m : answer[s][accepted[s][j]] = [status |-> "accepted", txn |-> j]
  BY <1>1, <1>2 DEF DecisionsNoted
<1>4. \A j \in 1..m : accepted[s][j] \in Indices(s) /\ accepted[s][j] # c
  <2> SUFFICES ASSUME NEW j \in 1..m PROVE accepted[s][j] \in Indices(s) /\ accepted[s][j] # c
    OBVIOUS
  <2>1. accepted[s][j] \in Indices(s)
    BY <1>2 DEF IInv, WritesAreLocked
  <2>2. answer[s][accepted[s][j]] = [status |-> "accepted", txn |-> j]
    BY <1>3
  <2>3. accepted[s][j] < c
    BY <1>3, <2>1, <2>2
  <2> QED
    BY <1>1, <1>2, <2>1, <2>3
<1>5. CASE /\ Accept(s, c)
           /\ answer' = [answer EXCEPT ![s][c] = [status |-> "accepted", txn |-> m + 1]]
  <2>1. accepted'[s] = Append(accepted[s], c)
    BY <1>5 DEF Accept, IInv, TypeOK
  <2>2. answer'[s] = [answer[s] EXCEPT ![c] = [status |-> "accepted", txn |-> m + 1]]
    BY <1>5 DEF IInv, TypeOK, AnswersOK
  <2> HIDE DEF c, m
  <2>3. /\ DOMAIN accepted'[s] = 1..(m + 1) /\ accepted'[s][m + 1] = c
        /\ \A j \in 1..m : accepted'[s][j] = accepted[s][j]
    BY <1>1, <1>2, <2>1 DEF c, m
  <2>4. /\ answer'[s][c] = [status |-> "accepted", txn |-> m + 1]
        /\ \A i \in Indices(s) : i # c => answer'[s][i] = answer[s][i]
    BY <1>1, <1>2, <2>2
  <2>5. ASSUME NEW i \in Indices(s)
        PROVE  /\ answer'[s][i].status \in {"open", "rejected", "accepted"}
               /\ answer'[s][i].status = "accepted" =>
                    i < c + 1 /\ \E j \in 1..(m + 1) : accepted'[s][j] = i
    <3>1. CASE i = c
      <4>1. m + 1 \in 1..(m + 1) /\ i < c + 1
        BY <1>1, <1>2, <3>1
      <4> QED
        BY <2>3, <2>4, <3>1, <4>1
    <3>2. ASSUME i # c, answer'[s][i].status = "accepted"
          PROVE  i < c + 1 /\ \E j \in 1..(m + 1) : accepted'[s][j] = i
      <4>1. answer[s][i].status = "accepted"
        BY <2>4, <3>2
      <4>2. i < c
        BY <1>3, <4>1
      <4>3. PICK j \in 1..m : accepted[s][j] = i
        BY <1>3, <4>1
      <4>4. j \in 1..(m + 1) /\ i < c + 1
        BY <1>1, <1>2, <4>2
      <4> QED
        BY <2>3, <4>3, <4>4
    <3>3. answer'[s][i].status \in {"open", "rejected", "accepted"}
      BY <1>3, <2>4
    <3> QED
      BY <3>1, <3>2, <3>3
  <2>6. ASSUME NEW j \in 1..(m + 1)
        PROVE  answer'[s][accepted'[s][j]] = [status |-> "accepted", txn |-> j]
    <3>1. CASE j = m + 1
      BY <2>3, <2>4, <3>1
    <3>2. CASE j # m + 1
      <4>1. j \in 1..m
        BY <1>2, <3>2
      <4> QED
        BY <1>3, <1>4, <2>3, <2>4, <4>1
    <3> QED
      BY <3>1, <3>2
  <2> QED
    BY <1>1, <1>2, <2>3, <2>5, <2>6, ZenonT(60) DEF DecisionsNoted
<1>6. CASE /\ answer' = [answer EXCEPT ![s][c] = [status |-> "rejected", txn |-> 0]]
           /\ UNCHANGED <<running, delta, accepted>>
  <2>1. answer'[s] = [answer[s] EXCEPT ![c] = [status |-> "rejected", txn |-> 0]]
    BY <1>6 DEF IInv, TypeOK, AnswersOK
  <2> HIDE DEF c, m
  <2>2. /\ answer'[s][c] = [status |-> "rejected", txn |-> 0]
        /\ \A i \in Indices(s) : i # c => answer'[s][i] = answer[s][i]
    BY <1>1, <1>2, <2>1
  <2>3. ASSUME NEW i \in Indices(s)
        PROVE  /\ answer'[s][i].status \in {"open", "rejected", "accepted"}
               /\ answer'[s][i].status = "accepted" =>
                    i < c + 1 /\ \E j \in 1..m : accepted[s][j] = i
    <3>1. CASE i = c
      BY <2>2, <3>1
    <3>2. CASE i # c
      <4>1. answer'[s][i] = answer[s][i]
        BY <2>2, <3>2
      <4>2. i < c => i < c + 1
        BY <1>1, <1>2
      <4> QED
        BY <1>3, <4>1, <4>2
    <3> QED
      BY <3>1, <3>2
  <2>4. \A j \in 1..m : answer'[s][accepted[s][j]] = [status |-> "accepted", txn |-> j]
    BY <1>3, <1>4, <2>2
  <2> QED
    BY <1>1, <1>2, <1>6, <2>3, <2>4 DEF DecisionsNoted
<1> QED
  BY <1>5, <1>6 DEF DecideNext

\* The acting session keeps its decisions noted, or returns the truth.
LEMMA StepTellsTruth ==
  ASSUME IInv, KeysNameTransactions, NEW s \in Session, DecisionsNoted(s), pc[s] # "done",
         \/ Submit(s) \/ SubmitBatch(s) \/ Claim(s) \/ LockRow(s) \/ LocalStep(s)
         \/ SerializationFailure(s) \/ DatabaseError(s) \/ CommitUnacknowledged(s)
  PROVE  IF pc'[s] = "done" THEN Truthful(s)' ELSE DecisionsNoted(s)'
<1> DEFINE Goal == IF pc'[s] = "done" THEN Truthful(s)' ELSE DecisionsNoted(s)'
<1>1. posted[s] = {} /\ call[s] \in Calls /\ pc[s] \in PC
  BY DEF DecisionsNoted, IInv, TypeOK
<1>2. ASSUME NEW status \in {"rejected", "conflict", "error", "exhausted"},
             ReturnOnly(s, AllAnswers(s, status, 0))
      PROVE  Goal
  BY <1>1, <1>2, RefusalIsTrue
<1>3. ASSUME UNCHANGED <<call, posted>>, pc'[s] # "done",
             \/ ~call[s].batch
             \/ UNCHANGED <<answer, accepted, cursor>>
      PROVE  Goal
  BY <1>3, MoveKeepsDecisions
<1>4. CASE Submit(s)
  <2>1. CASE ReturnOnly(s, AllAnswers(s, "rejected", 0))
    BY <1>2, <2>1
  <2>2. CASE /\ pc' = [pc EXCEPT ![s] = IF call[s].key = NoKey THEN "begin" ELSE "read"]
             /\ UNCHANGED <<tables, locks, call, retry, todo, running, delta, cursor, accepted, answer, posted>>
    <3>1. pc'[s] # "done"
      BY <2>2 DEF IInv, TypeOK
    <3> QED
      BY <1>3, <2>2, <3>1
  <2> QED
    BY <1>4, <2>1, <2>2 DEF Submit
<1>5. CASE SubmitBatch(s)
  <2>1. CASE \E status \in {"error", "rejected"} : ReturnOnly(s, AllAnswers(s, status, 0))
    BY <1>2, <2>1
  <2>2. CASE /\ pc' = [pc EXCEPT ![s] = "begin"]
             /\ answer' = [answer EXCEPT ![s] =
                  [i \in Indices(s) |->
                     [status |-> IF Prepared(Posting(s, i)) THEN "open" ELSE "rejected",
                      txn |-> 0]]]
             /\ UNCHANGED <<tables, locks, call, retry, todo, running, delta, cursor, accepted, posted>>
    <3>1. pc'[s] # "done" /\ UNCHANGED <<call, posted, accepted>> /\ accepted[s] = <<>>
      BY <1>5, <2>2 DEF IInv, TypeOK, SubmitBatch, WritesAreLocked
    <3>2. Indices(s)' = Indices(s)
      BY <3>1 DEF Indices
    <3>3. \A i \in Indices(s) : answer'[s][i].status \in {"open", "rejected"}
      BY <2>2 DEF IInv, TypeOK, AnswersOK
    <3> QED
      BY <1>1, <3>1, <3>2, <3>3 DEF DecisionsNoted
  <2> QED
    BY <1>5, <2>1, <2>2 DEF SubmitBatch
<1>6. CASE FastRead(s) \/ Claim(s)
  <2>1. call[s].key \in Key /\ ~call[s].batch
    <3>1. call[s].key # NoKey
      BY <1>6 DEF FastRead, Claim, IInv, LocksFollowProgram
    <3> QED
      BY <1>1, <3>1, CallFacts
  <2> DEFINE row == keys[call[s].key]
  <2>2. CASE ReturnOnly(s, AllAnswers(s, "conflict", 0))
    BY <1>2, <2>2
  <2>3. CASE /\ row.status = "completed" \/ row.txn # 0
             /\ row.sum = Checksum(Posting(s, 1))
             /\ ReturnOnly(s, AllAnswers(s, "existing", row.txn))
    <3>1. row.status # "absent"
      <4>1. row \in KeyRow
        BY <2>1 DEF IInv, TypeOK
      <4> QED
        BY <2>3, <4>1 DEF KeyRow, AbsentKey
    <3> QED
      BY <1>1, <2>1, <2>3, <3>1, ExistingIsTrue
  <2>4. CASE /\ pc' = [pc EXCEPT ![s] = "claim"] \/ pc' = [pc EXCEPT ![s] = "begin"]
             /\ UNCHANGED <<locals, posted>>
    <3>1. pc'[s] # "done"
      BY <2>4 DEF IInv, TypeOK
    <3> QED
      BY <1>3, <2>1, <2>4, <3>1 DEF locals
  <2> QED
    BY <1>6, <2>2, <2>3, <2>4 DEF FastRead, Claim
<1>7. CASE LockRow(s) \/ RowsLocked(s) \/ BeginLockingBatch(s) \/ BatchDecided(s)
  <2>1. pc'[s] # "done" /\ UNCHANGED <<call, posted, answer, accepted, cursor>>
    BY <1>7 DEF LockRow, RowsLocked, BeginLockingBatch, BatchDecided, locals, IInv, TypeOK
  <2> QED
    BY <1>3, <2>1
<1>8. CASE BeginLocking(s) \/ CheckRows(s)
  <2>1. CASE ReturnOnly(s, AllAnswers(s, "rejected", 0))
    BY <1>2, <2>1
  <2>2. CASE ~ReturnOnly(s, AllAnswers(s, "rejected", 0))
    <3>1. pc'[s] # "done" /\ UNCHANGED <<call, posted>> /\ ~call[s].batch
      BY <1>8, <2>2 DEF BeginLocking, CheckRows, IInv, TypeOK
    <3> QED
      BY <1>3, <3>1
  <2> QED
    BY <2>1, <2>2
<1>9. CASE DecideNext(s)
  BY <1>9, DecideNextNotes
<1>10. CASE WriteFails(s) \/ DatabaseError(s)
  BY <1>2, <1>10 DEF WriteFails, DatabaseError
<1>11. CASE SerializationFailure(s)
  <2>1. CASE ReturnOnly(s, AllAnswers(s, IF call[s].batch THEN "error" ELSE "exhausted", 0))
    BY <1>2, <2>1
  <2>2. CASE /\ ~call[s].batch
             /\ pc' = [pc EXCEPT ![s] = AttemptStart(s)]
             /\ UNCHANGED <<tables, call, answer, posted>>
    <3>1. pc'[s] # "done"
      BY <2>2 DEF AttemptStart, IInv, TypeOK
    <3> QED
      BY <1>3, <2>2, <3>1
  <2> QED
    BY <1>11, <2>1, <2>2 DEF SerializationFailure
<1>12. CASE Commit(s)
  BY <1>12, CommitIsTrue DEF Commit
<1>13. CASE CommitUnacknowledged(s)
  BY <1>13, LostIsTrue DEF CommitUnacknowledged
<1> QED
  BY <1>4, <1>5, <1>6, <1>7, <1>8, <1>9, <1>10, <1>11, <1>12, <1>13 DEF LocalStep

\* What a call notes while it decides, and what it tells in the end, are kept
\* together.
LEMMA AnswersInvariant == Spec => [](AnswersFollowDecisions /\ AnswersTruthful)
<1> DEFINE Answers == AnswersFollowDecisions /\ AnswersTruthful
<1>1. Init => Answers
  BY DEF Init, AnswersFollowDecisions, AnswersTruthful, DecisionsNoted, Indices
<1>2. IInv /\ KeysNameTransactions /\ Answers /\ [Next]_vars => Answers'
  <2> SUFFICES ASSUME IInv, KeysNameTransactions, Answers, [Next]_vars, NEW t \in Session
               PROVE  IF pc'[t] = "done" THEN Truthful(t)' ELSE DecisionsNoted(t)'
    BY DEF AnswersFollowDecisions, AnswersTruthful
  <2>1. IF pc[t] = "done" THEN Truthful(t) ELSE DecisionsNoted(t)
    BY DEF AnswersFollowDecisions, AnswersTruthful
  <2>2. ASSUME /\ pc'[t] = pc[t] /\ answer'[t] = answer[t] /\ posted'[t] = posted[t]
               /\ cursor'[t] = cursor[t] /\ accepted'[t] = accepted[t] /\ call' = call
        PROVE  IF pc'[t] = "done" THEN Truthful(t)' ELSE DecisionsNoted(t)'
    BY <2>1, <2>2, TruthLasts, MoveKeepsDecisions
  <2>3. CASE UNCHANGED vars \/ \E a \in AccountId : CreateAccount(a)
    BY <2>2, <2>3 DEF vars, locals, CreateAccount
  <2>4. ASSUME NEW s \in Session,
               \/ Submit(s) \/ SubmitBatch(s) \/ Claim(s) \/ LockRow(s) \/ LocalStep(s)
               \/ SerializationFailure(s) \/ DatabaseError(s) \/ CommitUnacknowledged(s)
        PROVE  IF pc'[t] = "done" THEN Truthful(t)' ELSE DecisionsNoted(t)'
    <3>1. CASE t # s
      BY <2>2, <2>4, <3>1, OthersUntouched
    <3>2. CASE t = s
      <4>1. pc[s] # "done"
        BY <2>4 DEF Submit, SubmitBatch, Claim, LockRow, LocalStep, FastRead, BeginLocking,
          BeginLockingBatch, RowsLocked, CheckRows, DecideNext, BatchDecided, Commit, WriteFails,
          SerializationFailure, DatabaseError, CommitUnacknowledged, InTransaction
      <4> QED
        BY <2>1, <2>4, <3>2, <4>1, StepTellsTruth
    <3> QED
      BY <3>1, <3>2
  <2> QED
    BY <2>3, <2>4 DEF Next, Finished
<1> QED
  BY <1>1, <1>2, Invariance, Idempotency, PTL DEF Spec

\* Clients are told what happened: "posted" names a transaction of the call,
\* "existing" an earlier one with the same content, a refusal means nothing
\* was posted, for any number of sessions, batches, failures and retries.
THEOREM AnswersAreTrue == Spec => []AnswersTruthful
  BY AnswersInvariant, PTL

-----------------------------------------------------------------------------
(* Decisions last: what a call has decided would be decided again as long  *)
(* as it holds its locks.                                                  *)

\* A posting does nothing to accounts it does not name.
LEMMA ChangeOutside ==
  ASSUME NEW entries \in Seq(Entry), NEW a, a \notin AccountsOf(entries)
  PROVE  Change(entries, a) = 0
<1> DEFINE f == [i \in DOMAIN entries |->
                   IF entries[i].account = a THEN entries[i].debit - entries[i].credit ELSE 0]
<1>1. Len(entries) \in Nat /\ DOMAIN entries = 1..Len(entries)
  OBVIOUS
<1>2. IsFiniteSet(DOMAIN entries)
  BY <1>1, FS_Interval
<1>3. \A i \in DOMAIN entries : f[i] = 0
  BY DEF AccountsOf
<1>4. Change(entries, a) = SumFunctionOnSet(f, DOMAIN entries)
  BY DEF Change, Total, SumFunction
<1> HIDE DEF f
<1> QED
  BY <1>2, <1>3, <1>4, SumZero

\* The postings of a call.
LEMMA PostingFacts ==
  ASSUME IInv, NEW s \in Session
  PROVE  /\ call[s] \in Calls /\ Len(call[s].postings) \in Nat
         /\ Indices(s) = 1..Len(call[s].postings) /\ Indices(s) \subseteq Nat
         /\ IsFiniteSet(Indices(s)) /\ Cardinality(Indices(s)) = Len(call[s].postings)
         /\ \A i \in Indices(s) :
              /\ Posting(s, i) \in Seq(Entry)
              /\ \A a : Change(Posting(s, i), a) \in Int
         /\ ~call[s].batch => Len(call[s].postings) = 1 /\ Indices(s) = {1}
         /\ call[s].batch \in BOOLEAN
<1>1. call[s] \in Calls
  BY DEF IInv, TypeOK
<1>2. call[s].postings \in Seq(Seq(Entry)) /\ call[s].batch \in BOOLEAN
  BY <1>1, CallsAssumption
<1>3. /\ Len(call[s].postings) \in Nat
      /\ Indices(s) = 1..Len(call[s].postings) /\ Indices(s) \subseteq Nat
  BY <1>2 DEF Indices
<1>4. IsFiniteSet(Indices(s)) /\ Cardinality(Indices(s)) = Len(call[s].postings)
  BY <1>3, FS_Interval
<1>5. \A i \in Indices(s) : Posting(s, i) \in Seq(Entry)
  BY <1>2 DEF Posting, Indices
<1>6. ~call[s].batch => Len(call[s].postings) = 1 /\ Indices(s) = {1}
  <2>1. ~call[s].batch => Len(call[s].postings) = 1
    BY <1>1, CallsAssumption
  <2>2. 1..1 = {1}
    OBVIOUS
  <2> QED
    BY <1>3, <2>1, <2>2
<1> QED
  BY <1>1, <1>2, <1>3, <1>4, <1>5, <1>6, ChangeType

\* Adding up postings.
LEMMA AddedFacts ==
  ASSUME IInv, NEW s \in Session, NEW S \in SUBSET Indices(s), NEW a
  PROVE  /\ Added(s, S, a) \in Int
         /\ (\A i \in S : a \notin AccountsOf(Posting(s, i))) => Added(s, S, a) = 0
         /\ \A i \in Indices(s) \ S :
              Added(s, S \cup {i}, a) = Added(s, S, a) + Change(Posting(s, i), a)
<1> DEFINE f == [i \in Indices(s) |-> Change(Posting(s, i), a)]
<1>1. IsFiniteSet(Indices(s)) /\ \A i \in Indices(s) : f[i] \in Int
  BY PostingFacts
<1>2. ASSUME NEW T \in SUBSET Indices(s)
      PROVE  IsFiniteSet(T) /\ Added(s, T, a) = SumFunctionOnSet(f, T)
  <2> DEFINE g == [i \in T |-> Change(Posting(s, i), a)]
  <2>1. IsFiniteSet(T)
    BY <1>1, FS_Subset
  <2>2. Added(s, T, a) = SumFunctionOnSet(g, T)
    BY DEF Added, SumFunction
  <2>3. \A i \in T : f[i] \in Int /\ g[i] = f[i]
    BY <1>1
  <2> HIDE DEF f, g
  <2> QED
    BY <2>1, <2>2, <2>3, SumEqual
<1>3. (\A i \in S : a \notin AccountsOf(Posting(s, i))) => \A i \in S : f[i] = 0
  BY PostingFacts, ChangeOutside
<1>4. \A i \in Indices(s) : f[i] = Change(Posting(s, i), a)
  OBVIOUS
<1> HIDE DEF f
<1>5. Added(s, S, a) \in Int
  BY <1>1, <1>2, SumType
<1>6. (\A i \in S : a \notin AccountsOf(Posting(s, i))) => Added(s, S, a) = 0
  BY <1>2, <1>3, SumZero
<1>7. ASSUME NEW i \in Indices(s) \ S
      PROVE  Added(s, S \cup {i}, a) = Added(s, S, a) + Change(Posting(s, i), a)
  <2>1. S \cup {i} \in SUBSET Indices(s)
    OBVIOUS
  <2>2. SumFunctionOnSet(f, S \cup {i}) = SumFunctionOnSet(f, S) + f[i]
    BY <1>1, <1>2, SumAdd
  <2> QED
    BY <1>2, <1>4, <2>1, <2>2
<1> QED
  BY <1>5, <1>6, <1>7

\* The accepted postings are postings.
LEMMA AcceptedFacts ==
  ASSUME IInv, NEW s \in Session
  PROVE  /\ accepted[s] \in Seq(Nat) /\ Len(accepted[s]) \in Nat
         /\ DOMAIN accepted[s] = 1..Len(accepted[s])
         /\ Accepted(s) \subseteq Indices(s)
         /\ pc[s] \notin {"check", "commit"} => Accepted(s) = {} /\ delta[s] = Zero
         /\ Touched(s) = UNION {AccountsOf(Posting(s, i)) : i \in Accepted(s)}
<1>1. /\ accepted[s] \in Seq(Nat) /\ Len(accepted[s]) \in Nat
      /\ DOMAIN accepted[s] = 1..Len(accepted[s])
  BY DEF IInv, TypeOK
<1>2. pc[s] \notin {"check", "commit"} => accepted[s] = <<>> /\ delta[s] = Zero
  BY DEF IInv, WritesAreLocked
<1> QED
  BY <1>1, <1>2 DEF IInv, WritesAreLocked, Accepted, Touched

-----------------------------------------------------------------------------
(* Other sessions cannot change what a call has found.                      *)

\* A call whose rows, locals and answers stay, stands where it stood.
LEMMA StandsStill ==
  ASSUME IInv, NEW t \in Session, CallStands(t),
         pc'[t] = pc[t], call' = call, cursor'[t] = cursor[t], accepted'[t] = accepted[t],
         delta'[t] = delta[t], todo'[t] = todo[t], answer'[t] = answer[t],
         missing'[t] = missing[t],
         Held(t)' = Held(t), \A a \in Held(t) : balance'[a] = balance[a],
         created \subseteq created'
  PROVE  CallStands(t)'
<1>1. /\ Indices(t)' = Indices(t) /\ \A i : Posting(t, i)' = Posting(t, i)
      /\ Accepted(t)' = Accepted(t) /\ Named(t)' = Named(t)
  BY DEF Indices, Posting, Accepted, Named
<1>2. ASSUME NEW i, AccountsOf(Posting(t, i)) \subseteq Held(t)
      PROVE  FundedInOrder(t, i)' <=> FundedInOrder(t, i)
  BY <1>1, <1>2 DEF FundedInOrder, Added
<1>3. ASSUME NEW i, StillRight(t, i) PROVE StillRight(t, i)'
  BY <1>1, <1>2, <1>3 DEF StillRight, LedgerChecked
<1>4. RequestChecked(t)' <=> RequestChecked(t)
  BY <1>1 DEF RequestChecked
<1>5. (RowsFound(t) => RowsFound(t)') /\ (MissesOnlyNew(t) => MissesOnlyNew(t)')
  BY <1>1 DEF RowsFound, MissesOnlyNew
<1>6. DecisionsRight(t) => DecisionsRight(t)'
  <2>1. [a \in AccountId |-> Added(t, Accepted(t), a)]' = [a \in AccountId |-> Added(t, Accepted(t), a)]
    BY <1>1 DEF Added
  <2> QED
    BY <1>1, <1>3, <2>1 DEF DecisionsRight
<1> QED
  BY <1>4, <1>5, <1>6 DEF CallStands

\* A step of session s leaves the rows another session has locked alone, and
\* the locks on them.
LEMMA OthersRowsUntouched ==
  ASSUME IInv, NEW s \in Session, NEW t \in Session \ {s},
         \/ Submit(s) \/ SubmitBatch(s) \/ Claim(s) \/ LockRow(s) \/ LocalStep(s)
         \/ SerializationFailure(s) \/ DatabaseError(s) \/ CommitUnacknowledged(s)
  PROVE  /\ todo'[t] = todo[t] /\ delta'[t] = delta[t] /\ created' = created
         /\ Held(t)' = Held(t) /\ \A a \in Held(t) : balance'[a] = balance[a]
<1> USE DEF IInv, TypeOK, locals, locks, tables
<1>1. s # Free /\ t # Free
  BY SessionAssumption
<1>2. ASSUME ReleaseLocks(s) PROVE Held(t)' = Held(t)
  BY <1>1, <1>2 DEF ReleaseLocks, Held
<1>3. ASSUME NEW results, ReturnOnly(s, results)
      PROVE  /\ todo'[t] = todo[t] /\ delta'[t] = delta[t] /\ created' = created
             /\ Held(t)' = Held(t) /\ \A a \in Held(t) : balance'[a] = balance[a]
  BY <1>2, <1>3 DEF ReturnOnly, Return, ForgetAttempt
<1>4. ASSUME UNCHANGED <<tables, rowLock>>
      PROVE  created' = created /\ Held(t)' = Held(t) /\ balance' = balance
  BY <1>4 DEF Held
<1>5. CASE Submit(s) \/ SubmitBatch(s)
  BY <1>3, <1>4, <1>5 DEF Submit, SubmitBatch
<1>6. CASE Claim(s) \/ FastRead(s)
  BY <1>3, <1>4, <1>6 DEF Claim, FastRead
<1>7. CASE BeginLocking(s) \/ BeginLockingBatch(s) \/ RowsLocked(s)
  BY <1>3, <1>4, <1>7 DEF BeginLocking, BeginLockingBatch, RowsLocked
<1>8. CASE CheckRows(s) \/ DecideNext(s) \/ BatchDecided(s) \/ WriteFails(s)
  BY <1>3, <1>4, <1>8 DEF CheckRows, DecideNext, BatchDecided, WriteFails, Accept
<1>9. CASE SerializationFailure(s) \/ DatabaseError(s)
  BY <1>2, <1>3, <1>9 DEF SerializationFailure, DatabaseError, ForgetAttempt
<1>10. CASE LockRow(s)
  <2>1. PICK a \in AccountId : /\ rowLock[a] = Free
                              /\ rowLock' = [rowLock EXCEPT ![a] = s]
                              /\ todo' = [todo EXCEPT ![s] = @ \ {a}]
    BY <1>10 DEF LockRow
  <2>2. Held(t)' = Held(t)
    BY <1>1, <2>1 DEF Held
  <2> QED
    BY <1>10, <2>1, <2>2 DEF LockRow
<1>11. CASE Commit(s) \/ CommitUnacknowledged(s)
  <2>1. /\ balance' = NewBalance(s) /\ created' = created /\ ReleaseLocks(s)
        /\ todo' = [todo EXCEPT ![s] = {}] /\ delta' = [delta EXCEPT ![s] = Zero]
    BY <1>11 DEF Commit, CommitUnacknowledged, CommitWrites, Return, ForgetAttempt
  <2>2. \A a \in Held(t) : a \in AccountId /\ a \notin Touched(s)
    BY DEF WritesAreLocked, Held
  <2> QED
    BY <1>2, <2>1, <2>2 DEF NewBalance
<1> QED
  BY <1>5, <1>6, <1>7, <1>8, <1>9, <1>10, <1>11 DEF LocalStep

-----------------------------------------------------------------------------
(* The acting session.                                                      *)

\* A call that has returned.
LEMMA ReturnedStands ==
  ASSUME IInv, NEW s \in Session, NEW results, Return(s, results)
  PROVE  CallStands(s)'
<1>1. pc'[s] = "done" /\ cursor'[s] = 1
  BY DEF Return, ForgetAttempt, IInv, TypeOK
<1> QED
  BY <1>1 DEF CallStands

\* A single posting that moves on before it has locked anything.
LEMMA SingleMoves ==
  ASSUME IInv, IInv', NEW s \in Session, ~call[s].batch, call' = call,
         ValidateTransaction(Posting(s, 1)), cursor'[s] = 1,
         pc'[s] \in {"read", "claim", "begin"}, MissesOnlyNew(s)'
  PROVE  CallStands(s)'
<1>1. Posting(s, 1)' = Posting(s, 1)
  BY DEF Posting
<1> QED
  BY <1>1 DEF CallStands, RequestChecked

\* A call goes on missing nothing but what was new when it was made.
LEMMA NewAccountsOnly ==
  ASSUME NEW s, MissesOnlyNew(s), call' = call, missing' = missing, created' = created
  PROVE  MissesOnlyNew(s)'
  BY DEF MissesOnlyNew, Named, Posting, Indices

\* Where a call that has not decided anything stands in its request.
LEMMA SubmitStands ==
  ASSUME IInv, IInv', NEW s \in Session, CallStands(s), Submit(s) \/ SubmitBatch(s)
  PROVE  CallStands(s)'
<1>1. pc[s] = "idle" /\ cursor[s] = 1 /\ Accepted(s) = {}
  BY AcceptedFacts DEF CallStands, Submit, SubmitBatch
<1>2. ASSUME NEW results, ReturnOnly(s, results) PROVE CallStands(s)'
  BY <1>2, ReturnedStands DEF ReturnOnly
<1>3. ASSUME missing' = [missing EXCEPT ![s] = Named(s) \ created],
             created' = created, call' = call
      PROVE  MissesOnlyNew(s)'
  <2>1. Named(s)' = Named(s) /\ missing'[s] = Named(s) \ created
    BY <1>3 DEF Named, Posting, Indices, IInv, TypeOK
  <2> QED
    BY <1>3, <2>1 DEF MissesOnlyNew
<1>4. CASE Submit(s)
  <2>1. CASE ReturnOnly(s, AllAnswers(s, "rejected", 0))
    BY <1>2, <2>1
  <2>2. CASE /\ ValidateTransaction(Posting(s, 1))
             /\ pc' = [pc EXCEPT ![s] = IF call[s].key = NoKey THEN "begin" ELSE "read"]
             /\ missing' = [missing EXCEPT ![s] = Named(s) \ created]
             /\ UNCHANGED <<tables, locks, call, retry, todo, running, delta, cursor, accepted, answer, posted>>
    <3>1. pc'[s] \in {"read", "begin"} /\ cursor'[s] = 1 /\ call' = call /\ ~call[s].batch
      BY <1>1, <1>4, <2>2 DEF IInv, TypeOK, Submit
    <3> QED
      BY <1>3, <2>2, <3>1, SingleMoves DEF tables
  <2> QED
    BY <1>4, <2>1, <2>2 DEF Submit
<1>5. CASE SubmitBatch(s)
  <2>1. CASE \E status \in {"error", "rejected"} : ReturnOnly(s, AllAnswers(s, status, 0))
    BY <1>2, <2>1
  <2>2. CASE /\ Len(call[s].postings) \in 1..MaxPostingBatchSize
             /\ pc' = [pc EXCEPT ![s] = "begin"]
             /\ answer' = [answer EXCEPT ![s] =
                  [i \in Indices(s) |->
                     [status |-> IF Prepared(Posting(s, i)) THEN "open" ELSE "rejected",
                      txn |-> 0]]]
             /\ missing' = [missing EXCEPT ![s] = Named(s) \ created]
             /\ UNCHANGED <<tables, locks, call, retry, todo, running, delta, cursor, accepted, posted>>
    <3>1. pc'[s] = "begin" /\ cursor'[s] = 1 /\ call' = call /\ call[s].batch
      BY <1>1, <1>5, <2>2 DEF IInv, TypeOK, SubmitBatch
    <3>2. Indices(s)' = Indices(s) /\ \A i : Posting(s, i)' = Posting(s, i)
      BY <3>1 DEF Indices, Posting
    <3>3. \A i \in Indices(s) : (answer'[s][i].status = "open") <=> Prepared(Posting(s, i))
      BY <2>2 DEF IInv, TypeOK, AnswersOK
    <3>4. \A i \in Indices(s) : ~(i < 1)
      BY PostingFacts
    <3>5. MissesOnlyNew(s)'
      BY <1>3, <2>2 DEF tables
    <3> QED
      BY <2>2, <3>1, <3>2, <3>3, <3>4, <3>5 DEF CallStands, RequestChecked
  <2> QED
    BY <1>5, <2>1, <2>2 DEF SubmitBatch
<1> QED
  BY <1>4, <1>5

\* Keys and the locking query.
LEMMA LockingStands ==
  ASSUME IInv, IInv', NEW s \in Session, CallStands(s),
         FastRead(s) \/ Claim(s) \/ BeginLocking(s) \/ BeginLockingBatch(s) \/ LockRow(s)
  PROVE  CallStands(s)'
<1>1. pc[s] \in {"read", "claim", "begin", "lock"} /\ cursor[s] = 1 /\ Accepted(s) = {}
      /\ RequestChecked(s) /\ MissesOnlyNew(s)
  <2>1. pc[s] \in {"read", "claim", "begin", "lock"}
    BY DEF FastRead, Claim, BeginLocking, BeginLockingBatch, LockRow
  <2> QED
    BY <2>1, AcceptedFacts DEF CallStands
<1>2. ASSUME NEW results, ReturnOnly(s, results) PROVE CallStands(s)'
  BY <1>2, ReturnedStands DEF ReturnOnly
<1>3. CASE FastRead(s) \/ Claim(s)
  <2>1. call[s].key # NoKey
    BY <1>3 DEF FastRead, Claim, IInv, LocksFollowProgram
  <2>2. ~call[s].batch /\ ValidateTransaction(Posting(s, 1))
    BY <1>1, <2>1, PostingFacts, CallFacts DEF RequestChecked
  <2>3. CASE /\ pc' = [pc EXCEPT ![s] = "claim"] \/ pc' = [pc EXCEPT ![s] = "begin"]
             /\ UNCHANGED <<tables, locals>>
    <3>1. pc'[s] \in {"claim", "begin"} /\ cursor'[s] = 1 /\ call' = call
      BY <1>1, <2>3 DEF IInv, TypeOK, locals
    <3>2. MissesOnlyNew(s)'
      BY <1>1, <2>3, NewAccountsOnly DEF tables, locals
    <3> QED
      BY <2>2, <3>1, <3>2, SingleMoves
  <2> QED
    BY <1>2, <1>3, <2>3 DEF FastRead, Claim
<1>4. ASSUME /\ pc[s] = "begin" /\ pc' = [pc EXCEPT ![s] = "lock"]
             /\ todo' = [todo EXCEPT ![s] = Named(s) \cap created]
             /\ UNCHANGED <<tables, locks, call, missing, retry, running, delta, cursor, accepted, answer, posted>>
             /\ ~call[s].batch => Parses(Posting(s, 1))
      PROVE  CallStands(s)'
  <2>1. /\ pc'[s] = "lock" /\ todo'[s] = Named(s) \cap created /\ created' = created
        /\ cursor'[s] = 1 /\ call' = call /\ answer' = answer /\ accepted' = accepted
    BY <1>1, <1>4 DEF IInv, TypeOK, tables
  <2>2. Held(s)' = {}
    <3>1. Held(s) = {}
      BY <1>4 DEF IInv, LocksFollowProgram
    <3> QED
      BY <1>4, <3>1 DEF Held, locks
  <2>3. /\ Indices(s)' = Indices(s) /\ \A i : Posting(s, i)' = Posting(s, i)
        /\ Named(s)' = Named(s) /\ Accepted(s)' = Accepted(s)
    BY <2>1 DEF Indices, Posting, Named, Accepted
  <2>4. RequestChecked(s)'
    BY <1>1, <1>4, <2>1, <2>3 DEF RequestChecked
  <2>5. RowsFound(s)' /\ MissesOnlyNew(s)'
    BY <1>1, <1>4, <2>1, <2>2, <2>3 DEF RowsFound, MissesOnlyNew
  <2> QED
    BY <2>1, <2>4, <2>5 DEF CallStands
<1>5. CASE BeginLocking(s) \/ BeginLockingBatch(s)
  BY <1>2, <1>4, <1>5 DEF BeginLocking, BeginLockingBatch
<1>6. CASE LockRow(s)
  <2>1. PICK a \in AccountId : /\ a \in todo[s]
                              /\ rowLock' = [rowLock EXCEPT ![a] = s]
                              /\ todo' = [todo EXCEPT ![s] = @ \ {a}]
    BY <1>6 DEF LockRow, IsNextRow
  <2>2. /\ UNCHANGED <<created, call, missing, pc, cursor, accepted, answer>>
        /\ todo'[s] = todo[s] \ {a} /\ Held(s)' = Held(s) \cup {a} /\ pc[s] = "lock"
    BY <1>6, <2>1 DEF LockRow, tables, Held, IInv, TypeOK
  <2>3. /\ Indices(s)' = Indices(s) /\ \A i : Posting(s, i)' = Posting(s, i)
        /\ Named(s)' = Named(s) /\ Accepted(s)' = Accepted(s)
    BY <2>2 DEF Indices, Posting, Named, Accepted
  <2>4. RequestChecked(s)'
    BY <1>1, <2>2, <2>3 DEF RequestChecked
  <2>5. RowsFound(s)'
    <3>1. Held(s)' \cup todo'[s] = Held(s) \cup todo[s]
      BY <2>1, <2>2
    <3>2. RowsFound(s)
      BY <2>2 DEF CallStands
    <3> QED
      BY <2>2, <2>3, <3>1, <3>2 DEF RowsFound
  <2> QED
    BY <1>1, <2>2, <2>4, <2>5, NewAccountsOnly DEF CallStands
<1> QED
  BY <1>3, <1>5, <1>6

\* The query has returned, and nothing is decided yet.
LEMMA RowsLockedStands ==
  ASSUME IInv, IInv', NEW s \in Session, CallStands(s), RowsLocked(s)
  PROVE  CallStands(s)'
<1>1. /\ pc[s] = "lock" /\ pc'[s] = "check"
      /\ UNCHANGED <<created, call, missing, cursor, accepted, answer, todo, delta, rowLock>>
      /\ cursor[s] = 1 /\ RequestChecked(s) /\ RowsFound(s) /\ MissesOnlyNew(s)
  BY DEF RowsLocked, tables, locals, locks, CallStands, IInv, TypeOK
<1>2. /\ Indices(s)' = Indices(s) /\ \A i : Posting(s, i)' = Posting(s, i)
      /\ Named(s)' = Named(s) /\ Accepted(s)' = Accepted(s) /\ Held(s)' = Held(s)
  BY <1>1 DEF Indices, Posting, Named, Accepted, Held
<1>3. RequestChecked(s)' /\ RowsFound(s)' /\ MissesOnlyNew(s)'
  BY <1>1, <1>2, NewAccountsOnly DEF RequestChecked, RowsFound
<1>4. Accepted(s)' = {} /\ accepted'[s] = <<>> /\ delta'[s] = Zero
  BY <1>1, <1>2, AcceptedFacts DEF IInv, WritesAreLocked
<1>5. \A i \in Indices(s) : ~(i < 1)
  BY PostingFacts
<1>6. ASSUME NEW a \in AccountId PROVE Added(s, Accepted(s), a)' = 0
  <2>1. Added(s, {}, a) = 0
    BY AddedFacts
  <2> QED
    BY <1>2, <1>4, <2>1 DEF Added
<1>7. delta'[s] = [a \in AccountId |-> Added(s, Accepted(s), a)']
  BY <1>4, <1>6 DEF Zero
<1>8. DecisionsRight(s)'
  BY <1>1, <1>2, <1>4, <1>5, <1>7 DEF DecisionsRight
<1> QED
  BY <1>1, <1>3, <1>8 DEF CallStands

\* The checks under the locks are those of the posting's turn: the balances a
\* call works with are the committed ones with its accepted postings applied,
\* and it misses no row that was there when it was made.
LEMMA ChecksAreInOrder ==
  ASSUME IInv, NEW s \in Session, CallStands(s), pc[s] = "check", NEW c \in Indices(s),
         \A j \in Accepted(s) : j < c
  PROVE  /\ AccountsOf(Posting(s, c)) \subseteq Held(s) =>
              (Funded(s, Posting(s, c)) <=> FundedInOrder(s, c))
         /\ Prepared(Posting(s, c)) /\ AccountsOf(Posting(s, c)) \cap missing[s] = {} =>
              AccountsOf(Posting(s, c)) \subseteq Held(s)
<1> DEFINE p == Posting(s, c)
<1>1. {j \in Accepted(s) : j < c} = Accepted(s)
  OBVIOUS
<1>2. ASSUME NEW a \in Held(s)
      PROVE  running[s][a] + Change(p, a) = balance[a] + Added(s, Accepted(s), a) + Change(p, a)
  <2>1. a \in AccountId
    BY DEF Held
  <2>2. running[s][a] = balance[a] + delta[s][a]
    BY DEF IInv, ReadsStayCurrent
  <2>3. delta[s][a] = Added(s, Accepted(s), a)
    BY <2>1 DEF CallStands, DecisionsRight
  <2> QED
    BY <2>2, <2>3
<1>3. AccountsOf(p) \subseteq Held(s) => (Funded(s, p) <=> FundedInOrder(s, c))
  BY <1>1, <1>2 DEF Funded, FundedInOrder
<1>4. ASSUME Prepared(p), AccountsOf(p) \cap missing[s] = {}
      PROVE  AccountsOf(p) \subseteq Held(s)
  <2>1. AccountsOf(p) \subseteq Named(s)
    BY <1>4 DEF Named
  <2>2. todo[s] = {}
    BY DEF IInv, LocksFollowProgram
  <2>3. Named(s) \ missing[s] \subseteq Held(s)
    BY <2>2 DEF CallStands, RowsFound
  <2> QED
    BY <1>4, <2>1, <2>3
<1> QED
  BY <1>3, <1>4

\* Later decisions do not touch earlier ones.
LEMMA EarlierDecisionsStand ==
  ASSUME NEW s \in Session, NEW i, NEW before,
         {j \in Accepted(s) : j < i} = before, {j \in Accepted(s)' : j < i} = before,
         call' = call, missing' = missing, balance' = balance, Held(s)' = Held(s)
  PROVE  /\ FundedInOrder(s, i)' <=> FundedInOrder(s, i)
         /\ (i \in Accepted(s)' <=> i \in Accepted(s)) =>
              (StillRight(s, i)' <=> StillRight(s, i))
<1>1. \A k : Posting(s, k)' = Posting(s, k)
  BY DEF Posting
<1>2. FundedInOrder(s, i)' <=> FundedInOrder(s, i)
  BY <1>1 DEF FundedInOrder, Added
<1> QED
  BY <1>1, <1>2 DEF StillRight, LedgerChecked

\* A posting is accepted in its turn.
LEMMA AcceptedInOrder ==
  ASSUME IInv, IInv', NEW s \in Session, CallStands(s), pc[s] = "check", NEW c \in Indices(s),
         \A j \in Accepted(s) : j < c,
         Prepared(Posting(s, c)), AccountsOf(Posting(s, c)) \subseteq Held(s),
         Funded(s, Posting(s, c)), LedgerChecked(s, Posting(s, c)), Accept(s, c),
         call' = call, missing' = missing, balance' = balance, Held(s)' = Held(s)
  PROVE  /\ Accepted(s)' = Accepted(s) \cup {c}
         /\ delta'[s] = [a \in AccountId |-> Added(s, Accepted(s), a)']
         /\ \A j, k \in DOMAIN accepted'[s] : j < k => accepted'[s][j] < accepted'[s][k]
         /\ StillRight(s, c)'
         /\ \A i \in Indices(s) : i < c /\ StillRight(s, i) => StillRight(s, i)'
<1> DEFINE p == Posting(s, c)
           m == Len(accepted[s])
<1>1. /\ accepted[s] \in Seq(Nat) /\ m \in Nat /\ DOMAIN accepted[s] = 1..m
      /\ Accepted(s) \subseteq Indices(s) /\ Indices(s) \subseteq Nat /\ c \in Nat
  BY AcceptedFacts, PostingFacts
<1>2. accepted'[s] = Append(accepted[s], c) /\ delta'[s] = Plus(delta[s], p)
  BY DEF Accept, IInv, TypeOK
<1>3. /\ DOMAIN accepted'[s] = 1..(m + 1) /\ accepted'[s][m + 1] = c
      /\ \A j \in 1..m : accepted'[s][j] = accepted[s][j]
  BY <1>1, <1>2
<1>4. Accepted(s)' = Accepted(s) \cup {c}
  <2>1. Accepted(s)' = {accepted'[s][j] : j \in 1..(m + 1)} /\ Accepted(s) = {accepted[s][j] : j \in 1..m}
    BY <1>1, <1>3 DEF Accepted
  <2>2. 1..(m + 1) = 1..m \cup {m + 1}
    BY <1>1
  <2> QED
    BY <1>3, <2>1, <2>2
<1>5. c \notin Accepted(s)
  BY <1>1
<1>6. delta'[s] = [a \in AccountId |-> Added(s, Accepted(s), a)']
  <2>1. ASSUME NEW a \in AccountId PROVE delta'[s][a] = Added(s, Accepted(s), a)'
    <3>1. Added(s, Accepted(s), a)' = Added(s, Accepted(s) \cup {c}, a)
      BY <1>4 DEF Added, Posting
    <3>2. Added(s, Accepted(s) \cup {c}, a) = Added(s, Accepted(s), a) + Change(p, a)
      BY <1>1, <1>5, AddedFacts
    <3>3. delta[s][a] = Added(s, Accepted(s), a) /\ Added(s, Accepted(s), a) \in Int
      BY <1>1, AddedFacts DEF CallStands, DecisionsRight
    <3>4. a \notin AccountsOf(p) => Change(p, a) = 0
      BY PostingFacts, ChangeOutside
    <3>5. delta'[s][a] = IF a \in AccountsOf(p) THEN delta[s][a] + Change(p, a) ELSE delta[s][a]
      BY <1>2 DEF Plus
    <3> QED
      BY <3>1, <3>2, <3>3, <3>4, <3>5
  <2>2. delta'[s] = [a \in AccountId |-> delta'[s][a]]
    BY <1>2 DEF Plus
  <2> QED
    BY <2>1, <2>2
<1>7. ASSUME NEW j \in DOMAIN accepted'[s], NEW k \in DOMAIN accepted'[s], j < k
      PROVE  accepted'[s][j] < accepted'[s][k]
  <2>1. j \in 1..m
    BY <1>1, <1>3, <1>7
  <2>2. CASE k \in 1..m
    BY <1>1, <1>3, <1>7, <2>1, <2>2 DEF CallStands, DecisionsRight
  <2>3. CASE k = m + 1
    <3>1. accepted[s][j] \in Accepted(s)
      BY <1>1, <2>1 DEF Accepted
    <3> QED
      BY <1>3, <2>1, <2>3, <3>1
  <2> QED
    BY <1>1, <1>3, <2>2, <2>3
<1>8. ASSUME NEW i \in Indices(s), i < c \/ i = c
      PROVE  {j \in Accepted(s)' : j < i} = {j \in Accepted(s) : j < i}
  BY <1>1, <1>4, <1>8
<1>9. StillRight(s, c)'
  <2>1. FundedInOrder(s, c)
    BY ChecksAreInOrder
  <2>2. FundedInOrder(s, c)'
    BY <1>8, <2>1, EarlierDecisionsStand
  <2>3. Posting(s, c)' = Posting(s, c) /\ c \in Accepted(s)'
    BY <1>4 DEF Posting
  <2> QED
    BY <2>2, <2>3 DEF StillRight, LedgerChecked
<1>10. ASSUME NEW i \in Indices(s), i < c, StillRight(s, i) PROVE StillRight(s, i)'
  <2>1. i \in Accepted(s)' <=> i \in Accepted(s)
    BY <1>1, <1>4, <1>10
  <2> QED
    BY <1>8, <1>10, <2>1, EarlierDecisionsStand
<1> QED
  BY <1>4, <1>6, <1>7, <1>9, <1>10

\* A single posting is decided.
LEMMA CheckRowsStands ==
  ASSUME IInv, IInv', NEW s \in Session, CallStands(s), CheckRows(s)
  PROVE  CallStands(s)'
<1>1. CASE ReturnOnly(s, AllAnswers(s, "rejected", 0))
  BY <1>1, ReturnedStands DEF ReturnOnly
<1>2. ASSUME AccountsOf(Posting(s, 1)) \subseteq Held(s), Funded(s, Posting(s, 1)),
             OneLedger(Posting(s, 1)), Accept(s, 1), pc' = [pc EXCEPT ![s] = "commit"],
             UNCHANGED <<tables, locks, call, missing, retry, todo, cursor, answer, posted>>
      PROVE  CallStands(s)'
  <2>1. pc[s] = "check" /\ ~call[s].batch
    BY DEF CheckRows
  <2>2. /\ pc'[s] = "commit"
        /\ UNCHANGED <<created, balance, call, missing, todo, cursor, rowLock>>
    BY <1>2 DEF tables, locks, IInv, TypeOK
  <2>3. /\ Indices(s)' = Indices(s) /\ \A i : Posting(s, i)' = Posting(s, i)
        /\ Named(s)' = Named(s) /\ Held(s)' = Held(s)
    BY <2>2 DEF Indices, Posting, Named, Held
  <2>4. Indices(s) = {1} /\ accepted[s] = <<>> /\ Accepted(s) = {}
    BY <2>1, PostingFacts DEF IInv, WritesAreLocked, Accepted
  <2>5. /\ RequestChecked(s) /\ RowsFound(s) /\ MissesOnlyNew(s)
        /\ Prepared(Posting(s, 1)) /\ cursor[s] >= 1
    BY <2>1 DEF CallStands, RequestChecked, Prepared
  <2>6. /\ Accepted(s)' = Accepted(s) \cup {1}
        /\ delta'[s] = [a \in AccountId |-> Added(s, Accepted(s), a)']
        /\ \A j, k \in DOMAIN accepted'[s] : j < k => accepted'[s][j] < accepted'[s][k]
        /\ StillRight(s, 1)'
    BY <1>2, <2>1, <2>2, <2>3, <2>4, <2>5, AcceptedInOrder DEF LedgerChecked
  <2>7. RequestChecked(s)' /\ RowsFound(s)' /\ MissesOnlyNew(s)'
    BY <2>1, <2>2, <2>3, <2>5, NewAccountsOnly DEF RequestChecked, RowsFound, Prepared
  <2>8. DecisionsRight(s)'
    BY <2>1, <2>2, <2>3, <2>4, <2>6 DEF DecisionsRight
  <2> QED
    BY <2>2, <2>5, <2>7, <2>8 DEF CallStands
<1> QED
  BY <1>1, <1>2 DEF CheckRows

\* A posting that is found wanting in its turn.
LEMMA RejectedInOrder ==
  ASSUME IInv, NEW s \in Session, CallStands(s), pc[s] = "check", NEW c \in Indices(s),
         \A j \in Accepted(s) : j < c,
         ~ /\ Prepared(Posting(s, c)) /\ AccountsOf(Posting(s, c)) \subseteq Held(s)
           /\ OneLedger(Posting(s, c)) /\ Funded(s, Posting(s, c))
  PROVE  StillRight(s, c)
<1> DEFINE p == Posting(s, c)
<1>1. c \notin Accepted(s)
  BY PostingFacts
<1>2. /\ AccountsOf(p) \subseteq Held(s) => (Funded(s, p) <=> FundedInOrder(s, c))
      /\ Prepared(p) /\ AccountsOf(p) \cap missing[s] = {} => AccountsOf(p) \subseteq Held(s)
  BY ChecksAreInOrder
<1> QED
  BY <1>1, <1>2 DEF StillRight

\* A member of a batch is decided.
LEMMA DecideNextStands ==
  ASSUME IInv, IInv', NEW s \in Session, CallStands(s), DecisionsNoted(s), DecideNext(s)
  PROVE  CallStands(s)'
<1>1. PICK c : c = cursor[s]
  OBVIOUS
<1>2. /\ pc[s] = "check" /\ call[s].batch /\ c \in Indices(s) /\ c \in Nat
      /\ Indices(s) \subseteq Nat
  BY <1>1, PostingFacts DEF DecideNext
<1>3. /\ pc'[s] = "check" /\ cursor'[s] = c + 1
      /\ UNCHANGED <<created, balance, call, missing, todo, rowLock>>
  BY <1>1 DEF DecideNext, tables, locks, IInv, TypeOK
<1>4. /\ Indices(s)' = Indices(s) /\ \A i : Posting(s, i)' = Posting(s, i)
      /\ Named(s)' = Named(s) /\ Held(s)' = Held(s)
  BY <1>3 DEF Indices, Posting, Named, Held
<1>5. /\ RequestChecked(s) /\ RowsFound(s) /\ MissesOnlyNew(s)
      /\ DecisionsRight(s) /\ cursor[s] >= 1
  BY <1>2 DEF CallStands
<1>6. RowsFound(s)' /\ MissesOnlyNew(s)'
  BY <1>3, <1>4, <1>5, NewAccountsOnly DEF RowsFound
<1>7. \A j \in Accepted(s) : j \in Indices(s) /\ j < c
  BY <1>1, <1>2, <1>5, AcceptedFacts DEF DecisionsRight
<1>8. answer[s][c].status = "open" <=> Prepared(Posting(s, c))
  BY <1>1, <1>2, <1>5 DEF RequestChecked
<1>9. answer[s] \in [Indices(s) -> Result] /\ answer = [t \in Session |-> answer[t]]
  BY DEF IInv, TypeOK, AnswersOK
<1>10. ASSUME /\ \A i \in Indices(s) : i # c => answer'[s][i] = answer[s][i]
              /\ Accepted(s)' \subseteq Accepted(s) \cup {c}
              /\ Accepted(s) \subseteq Accepted(s)'
              /\ c \notin Accepted(s)' => answer'[s][c] = [status |-> "rejected", txn |-> 0]
       PROVE  RequestChecked(s)'
  <2>1. Len(call[s].postings) \in 1..MaxPostingBatchSize
    BY <1>2, <1>5 DEF RequestChecked
  <2>2. ASSUME NEW i \in Indices(s), i < c + 1, i \notin Accepted(s)'
        PROVE  answer'[s][i] = [status |-> "rejected", txn |-> 0]
    <3>1. CASE i = c
      BY <1>10, <2>2, <3>1
    <3>2. CASE i # c
      <4>1. i < c /\ i \notin Accepted(s)
        BY <1>2, <1>10, <2>2, <3>2
      <4> QED
        BY <1>1, <1>2, <1>5, <1>10, <3>2, <4>1 DEF RequestChecked
    <3> QED
      BY <3>1, <3>2
  <2>3. ASSUME NEW i \in Indices(s), ~(i < c + 1)
        PROVE  answer'[s][i].status = "open" <=> Prepared(Posting(s, i))
    <3>1. ~(i < c) /\ i # c
      BY <1>2, <2>3
    <3> QED
      BY <1>1, <1>2, <1>5, <1>10, <3>1 DEF RequestChecked
  <2> QED
    BY <1>2, <1>3, <1>4, <2>1, <2>2, <2>3 DEF RequestChecked
<1>11. CASE /\ answer[s][c].status = "open" /\ Acceptable(s, Posting(s, c)) /\ Accept(s, c)
            /\ answer' = [answer EXCEPT ![s][c] = [status |-> "accepted", txn |-> Len(accepted[s]) + 1]]
  <2>1. LedgerChecked(s, Posting(s, c))
    BY <1>2, <1>11 DEF LedgerChecked, Acceptable
  <2>2. /\ Accepted(s)' = Accepted(s) \cup {c}
        /\ delta'[s] = [a \in AccountId |-> Added(s, Accepted(s), a)']
        /\ \A j, k \in DOMAIN accepted'[s] : j < k => accepted'[s][j] < accepted'[s][k]
        /\ StillRight(s, c)'
        /\ \A i \in Indices(s) : i < c /\ StillRight(s, i) => StillRight(s, i)'
    BY <1>2, <1>3, <1>4, <1>7, <1>8, <1>11, <2>1, AcceptedInOrder DEF Acceptable
  <2>3. \A i \in Indices(s) : i # c => answer'[s][i] = answer[s][i]
    BY <1>9, <1>11
  <2>4. RequestChecked(s)'
    BY <1>10, <2>2, <2>3
  <2>5. ASSUME NEW i \in Indices(s)
        PROVE  IF i < c + 1 THEN StillRight(s, i)' ELSE i \notin Accepted(s)'
    <3>1. CASE i < c
      BY <1>1, <1>2, <1>5, <2>2, <3>1 DEF DecisionsRight
    <3>2. CASE i = c
      BY <1>2, <2>2, <3>2
    <3>3. CASE ~(i < c) /\ i # c
      BY <1>2, <1>7, <2>2, <3>3
    <3> QED
      BY <3>1, <3>2, <3>3
  <2>6. DecisionsRight(s)'
    BY <1>3, <1>4, <2>2, <2>5 DEF DecisionsRight
  <2> QED
    BY <1>2, <1>3, <1>6, <2>4, <2>6 DEF CallStands
<1>12. CASE /\ ~(answer[s][c].status = "open" /\ Acceptable(s, Posting(s, c)))
            /\ answer' = [answer EXCEPT ![s][c] = [status |-> "rejected", txn |-> 0]]
            /\ UNCHANGED <<running, delta, accepted>>
  <2>1. StillRight(s, c)
    <3>1. OneLedger(Posting(s, c)) => BatchOneLedger(Posting(s, c))
      BY DEF OneLedger, BatchOneLedger, AccountsOf
    <3> QED
      BY <1>2, <1>7, <1>8, <1>12, <3>1, RejectedInOrder DEF Acceptable
  <2>2. Accepted(s)' = Accepted(s) /\ c \notin Accepted(s)
    BY <1>2, <1>7, <1>12 DEF Accepted
  <2>3. /\ \A i \in Indices(s) : i # c => answer'[s][i] = answer[s][i]
        /\ answer'[s][c] = [status |-> "rejected", txn |-> 0]
    BY <1>2, <1>9, <1>12
  <2>4. RequestChecked(s)'
    BY <1>10, <2>2, <2>3
  <2>5. ASSUME NEW i \in Indices(s), StillRight(s, i) PROVE StillRight(s, i)'
    BY <1>3, <1>4, <2>2, <2>5, EarlierDecisionsStand
  <2>6. ASSUME NEW i \in Indices(s)
        PROVE  IF i < c + 1 THEN StillRight(s, i)' ELSE i \notin Accepted(s)'
    <3>1. CASE i < c
      BY <1>1, <1>2, <1>5, <2>5, <3>1 DEF DecisionsRight
    <3>2. CASE i = c
      BY <1>2, <2>1, <2>5, <3>2
    <3>3. CASE ~(i < c) /\ i # c
      BY <1>2, <1>7, <2>2, <3>3
    <3> QED
      BY <3>1, <3>2, <3>3
  <2>7. delta'[s] = [a \in AccountId |-> Added(s, Accepted(s), a)']
    <3>1. \A a \in AccountId : Added(s, Accepted(s), a)' = Added(s, Accepted(s), a)
      BY <1>4, <2>2 DEF Added
    <3> QED
      BY <1>5, <1>12, <3>1 DEF DecisionsRight
  <2>8. DecisionsRight(s)'
    BY <1>3, <1>4, <1>5, <1>12, <2>6, <2>7 DEF DecisionsRight
  <2> QED
    BY <1>2, <1>3, <1>6, <2>4, <2>8 DEF CallStands
<1> QED
  BY <1>1, <1>11, <1>12 DEF DecideNext

\* All members are decided.
LEMMA BatchDecidedStands ==
  ASSUME IInv, IInv', NEW s \in Session, CallStands(s), BatchDecided(s)
  PROVE  CallStands(s)'
<1>1. /\ pc[s] = "check" /\ call[s].batch /\ cursor[s] \notin Indices(s)
      /\ pc'[s] = "commit"
      /\ UNCHANGED <<created, balance, call, missing, cursor, accepted, answer, todo, delta, rowLock>>
  BY DEF BatchDecided, tables, locks, locals, IInv, TypeOK
<1>2. /\ Indices(s)' = Indices(s) /\ \A i : Posting(s, i)' = Posting(s, i)
      /\ Named(s)' = Named(s) /\ Held(s)' = Held(s) /\ Accepted(s)' = Accepted(s)
  BY <1>1 DEF Indices, Posting, Named, Held, Accepted
<1>3. /\ RequestChecked(s) /\ RowsFound(s) /\ MissesOnlyNew(s)
      /\ DecisionsRight(s) /\ cursor[s] >= 1
  BY <1>1 DEF CallStands
<1>4. cursor[s] > Len(call[s].postings) /\ \A i \in Indices(s) : i < cursor[s]
  <2>1. cursor[s] \in Nat
    BY DEF IInv, TypeOK
  <2> QED
    BY <1>1, <1>3, <2>1, PostingFacts
<1>5. RequestChecked(s)' /\ RowsFound(s)' /\ MissesOnlyNew(s)'
  BY <1>1, <1>2, <1>3, NewAccountsOnly DEF RequestChecked, RowsFound
<1>6. \A i \in Indices(s) : StillRight(s, i)'
  BY <1>1, <1>2, <1>3, <1>4, EarlierDecisionsStand DEF DecisionsRight
<1>7. [a \in AccountId |-> Added(s, Accepted(s), a)'] = [a \in AccountId |-> Added(s, Accepted(s), a)]
  BY <1>2 DEF Added
<1>8. DecisionsRight(s)'
  BY <1>1, <1>2, <1>3, <1>4, <1>6, <1>7 DEF DecisionsRight
<1> QED
  BY <1>1, <1>3, <1>5, <1>8 DEF CallStands

\* A failed attempt starts over with nothing.
LEMMA FailureStands ==
  ASSUME IInv, IInv', NEW s \in Session, CallStands(s),
         SerializationFailure(s) \/ DatabaseError(s)
  PROVE  CallStands(s)'
<1>1. ASSUME NEW results, ReturnOnly(s, results) PROVE CallStands(s)'
  BY <1>1, ReturnedStands DEF ReturnOnly
<1>2. CASE /\ InTransaction(s) /\ ~call[s].batch
           /\ pc' = [pc EXCEPT ![s] = AttemptStart(s)] /\ ForgetAttempt(s)
           /\ UNCHANGED <<tables, call, missing, answer, posted>>
  <2>1. pc'[s] \in {"begin", "claim"} /\ cursor'[s] = 1 /\ call' = call
    BY <1>2 DEF AttemptStart, ForgetAttempt, IInv, TypeOK
  <2>2. ValidateTransaction(Posting(s, 1)) /\ MissesOnlyNew(s)
    BY <1>2 DEF InTransaction, CallStands, RequestChecked
  <2>3. MissesOnlyNew(s)'
    BY <1>2, <2>2, NewAccountsOnly DEF tables
  <2> QED
    BY <1>2, <2>1, <2>2, <2>3, SingleMoves
<1> QED
  BY <1>1, <1>2 DEF SerializationFailure, DatabaseError

\* Every call keeps standing.
LEMMA NextKeepsStanding ==
  IInv /\ IInv' /\ AnswersFollowDecisions /\ CallsStand /\ [Next]_vars => CallsStand'
<1> SUFFICES ASSUME IInv, IInv', AnswersFollowDecisions, CallsStand, [Next]_vars
             PROVE  CallsStand'
  OBVIOUS
<1>1. \A t \in Session : CallStands(t)
  BY DEF CallsStand
<1>2. CASE UNCHANGED vars \/ \E a \in AccountId : CreateAccount(a)
  <2>1. /\ UNCHANGED <<balance, rowLock, pc, call, missing, cursor, accepted, delta, todo, answer>>
        /\ created \subseteq created'
    BY <1>2 DEF vars, tables, locks, locals, CreateAccount
  <2>2. \A t \in Session : Held(t)' = Held(t)
    BY <2>1 DEF Held
  <2>3. \A t \in Session : CallStands(t)'
    BY <1>1, <2>1, <2>2, StandsStill
  <2> QED
    BY <2>3 DEF CallsStand
<1>3. ASSUME NEW s \in Session,
             \/ Submit(s) \/ SubmitBatch(s) \/ Claim(s) \/ LockRow(s) \/ LocalStep(s)
             \/ SerializationFailure(s) \/ DatabaseError(s) \/ CommitUnacknowledged(s)
      PROVE  CallsStand'
  <2>1. ASSUME NEW t \in Session \ {s} PROVE CallStands(t)'
    BY <1>1, <1>3, OthersUntouched, OthersRowsUntouched, StandsStill
  <2>2. CallStands(s)'
    <3>1. CASE Submit(s) \/ SubmitBatch(s)
      BY <1>1, <3>1, SubmitStands
    <3>2. CASE FastRead(s) \/ Claim(s) \/ BeginLocking(s) \/ BeginLockingBatch(s) \/ LockRow(s)
      BY <1>1, <3>2, LockingStands
    <3>3. CASE RowsLocked(s)
      BY <1>1, <3>3, RowsLockedStands
    <3>4. CASE CheckRows(s)
      BY <1>1, <3>4, CheckRowsStands
    <3>5. CASE DecideNext(s)
      <4>1. DecisionsNoted(s)
        BY <3>5 DEF DecideNext, AnswersFollowDecisions
      <4> QED
        BY <1>1, <3>5, <4>1, DecideNextStands
    <3>6. CASE BatchDecided(s)
      BY <1>1, <3>6, BatchDecidedStands
    <3>7. CASE SerializationFailure(s) \/ DatabaseError(s)
      BY <1>1, <3>7, FailureStands
    <3>8. CASE Commit(s) \/ WriteFails(s) \/ CommitUnacknowledged(s)
      BY <3>8, ReturnedStands DEF Commit, WriteFails, CommitUnacknowledged, ReturnOnly
    <3> QED
      BY <1>3, <3>1, <3>2, <3>3, <3>4, <3>5, <3>6, <3>7, <3>8 DEF LocalStep
  <2> QED
    BY <2>1, <2>2 DEF CallsStand
<1> QED
  BY <1>2, <1>3 DEF Next, Finished

\* Every call stands at all times.
LEMMA StandingInvariant == Spec => []CallsStand
<1>1. Init => CallsStand
  BY DEF Init, CallsStand, CallStands
<1> QED
  BY <1>1, NextKeepsStanding, Invariance, AnswersInvariant, PTL DEF Spec

-----------------------------------------------------------------------------
(* Calls are atomic.  Amounts are whole cents (posting_cents shows what    *)
(* fractions do) and no batch runs from the default ledger into another    *)
(* one (posting_ledgers).                                                  *)

BatchesInOneLedger ==
  \A c \in Calls : c.batch =>
    \A i \in DOMAIN c.postings :
      Parses(c.postings[i]) /\ BatchOneLedger(c.postings[i]) => OneLedger(c.postings[i])

\* Then every accepted posting stays in one ledger.
LEMMA AcceptedInOneLedger ==
  ASSUME BatchesInOneLedger, IInv, NEW s \in Session, CallStands(s), pc[s] = "commit"
  PROVE  \A i \in Accepted(s) : OneLedger(Posting(s, i))
<1> SUFFICES ASSUME NEW i \in Accepted(s) PROVE OneLedger(Posting(s, i))
  OBVIOUS
<1>1. i \in Indices(s) /\ call[s] \in Calls
  BY AcceptedFacts, PostingFacts
<1>2. Prepared(Posting(s, i)) /\ LedgerChecked(s, Posting(s, i))
  BY <1>1 DEF CallStands, DecisionsRight, StillRight
<1>3. Parses(Posting(s, i))
  BY <1>2 DEF Prepared
<1> QED
  BY <1>1, <1>2, <1>3 DEF LedgerChecked, BatchesInOneLedger, Posting, Indices

-----------------------------------------------------------------------------
(* The abstract ledger, in terms of this one.                               *)

\* What each client has been told.
Outcome == [s \in Session |-> IF pc[s] = "done" THEN answer[s] ELSE AllAnswers(s, "open", 0)]

\* The rules of AtomicLedger are those of LedgerRules.
LEMMA SameRules ==
  /\ \A e : Atomic!ValidateTransaction(e) <=> ValidateTransaction(e)
  /\ \A e : Atomic!AccountsOf(e) = AccountsOf(e)
  /\ \A e, a : Atomic!Change(e, a) = Change(e, a)
  /\ \A e : Atomic!Checksum(e) = Checksum(e)
  /\ \A t, x : Atomic!DisplayedBalance(t, x) = DisplayedBalance(t, x)
  /\ \A f : Atomic!SumFunction(f) = SumFunction(f)
  /\ \A S : Atomic!Cardinality(S) = Cardinality(S)
<1>1. ASSUME NEW f PROVE Atomic!SumFunction(f) = SumFunction(f)
  BY DEF Atomic!SumFunction, Atomic!SumFunctionOnSet, Atomic!FoldFunctionOnSet, Atomic!MapThenFoldSet,
         SumFunction, SumFunctionOnSet, FoldFunctionOnSet, MapThenFoldSet
<1>2. ASSUME NEW e PROVE Atomic!AccountsOf(e) = AccountsOf(e)
  BY DEF Atomic!AccountsOf, AccountsOf
<1>3. ASSUME NEW e, NEW a PROVE Atomic!Change(e, a) = Change(e, a)
  BY <1>1 DEF Atomic!Change, Atomic!Total, Change, Total
<1>4. ASSUME NEW e PROVE Atomic!ValidateTransaction(e) <=> ValidateTransaction(e)
  BY <1>1 DEF Atomic!ValidateTransaction, Atomic!Total, Atomic!DebitOf, Atomic!CreditOf,
              ValidateTransaction, Total, DebitOf, CreditOf
<1>5. ASSUME NEW x PROVE Atomic!Round(x) = Round(x)
  BY DEF Atomic!Round, Atomic!Magnitude, Round, Magnitude
<1>6. ASSUME NEW e PROVE Atomic!Stored(e) = Stored(e)
  BY <1>5 DEF Atomic!Stored, Stored
<1>7. ASSUME NEW S PROVE Atomic!Cardinality(S) = Cardinality(S)
  BY DEF Atomic!Cardinality, Cardinality
<1>8. ASSUME NEW e PROVE Atomic!Checksum(e) = Checksum(e)
  BY <1>6, <1>7 DEF Atomic!Checksum, Checksum
<1>9. ASSUME NEW t, NEW x PROVE Atomic!DisplayedBalance(t, x) = DisplayedBalance(t, x)
  BY DEF Atomic!DisplayedBalance, Atomic!DebitNormal, DisplayedBalance, DebitNormal
<1> QED
  BY <1>1, <1>2, <1>3, <1>4, <1>7, <1>8, <1>9

\* Its calls are these calls.
LEMMA SameCalls ==
  ASSUME NEW s \in Session
  PROVE  /\ Atomic!Indices(s) = Indices(s)
         /\ \A i : Atomic!Posting(s, i) = Posting(s, i)
         /\ \A status, txn : Atomic!Told(s, status, txn) = AllAnswers(s, status, txn)
         /\ pc[s] # "done" => Atomic!Waiting(s)
         /\ Atomic!vars = <<created, balance, txns, call, missing, Outcome>>
<1>1. /\ Atomic!Indices(s) = Indices(s)
      /\ \A i : Atomic!Posting(s, i) = Posting(s, i)
  BY DEF Atomic!Indices, Atomic!Posting, Indices, Posting
<1>2. \A status, txn : Atomic!Told(s, status, txn) = AllAnswers(s, status, txn)
  BY <1>1 DEF Atomic!Told, AllAnswers
<1>3. pc[s] # "done" => Atomic!Waiting(s)
  BY <1>2 DEF Atomic!Waiting
<1>4. Atomic!vars = <<created, balance, txns, call, missing, Outcome>>
  BY DEF Atomic!vars, Outcome
<1> QED
  BY <1>1, <1>2, <1>3, <1>4

\* The balances after a set of postings.
LEMMA SameAfter ==
  ASSUME NEW s \in Session, NEW S
  PROVE  Atomic!After(s, S) = [a \in AccountId |-> balance[a] + Added(s, S, a)]
<1>1. ASSUME NEW a
      PROVE  Atomic!SumFunction([i \in S |-> Atomic!Change(Atomic!Posting(s, i), a)]) = Added(s, S, a)
  <2>1. [i \in S |-> Atomic!Change(Atomic!Posting(s, i), a)] = [i \in S |-> Change(Posting(s, i), a)]
    BY SameRules, SameCalls
  <2> QED
    BY <2>1, SameRules DEF Added
<1> QED
  BY <1>1 DEF Atomic!After

\* A call that returns tells its client.
LEMMA ReturnTells ==
  ASSUME IInv, NEW s \in Session, NEW results, Return(s, results), created' = created
  PROVE  Atomic!Tell(s, results)
<1>1. /\ call' = call /\ missing' = [missing EXCEPT ![s] = {}] /\ pc' = [pc EXCEPT ![s] = "done"]
      /\ answer' = [t \in Session |-> IF t = s THEN results ELSE answer[t]]
      /\ pc \in [Session -> PC]
  BY DEF Return, IInv, TypeOK, AnswersOK
<1>2. \A t \in Session : AllAnswers(t, "open", 0)' = AllAnswers(t, "open", 0)
  BY <1>1 DEF AllAnswers, Indices
<1>3. Outcome' = [t \in Session |-> IF t = s THEN results ELSE Outcome[t]]
  BY <1>1, <1>2 DEF Outcome
<1>4. Outcome' = [Outcome EXCEPT ![s] = results]
  BY <1>3 DEF Outcome
<1> QED
  BY <1>1, <1>4 DEF Atomic!Tell, Outcome

\* Whoever does not return is told nothing.
LEMMA NothingTold ==
  ASSUME IInv, call' = call,
         \A t \in Session : \/ pc[t] = pc'[t] /\ answer'[t] = answer[t]
                            \/ pc[t] # "done" /\ pc'[t] # "done"
  PROVE  Outcome' = Outcome
<1>1. \A t \in Session : AllAnswers(t, "open", 0)' = AllAnswers(t, "open", 0)
  BY DEF AllAnswers, Indices
<1> QED
  BY <1>1 DEF Outcome

\* Rank in a set is the place in the sequence that lists it in order.
LEMMA RankInOrder ==
  ASSUME NEW q \in Seq(Nat), \A j, k \in DOMAIN q : j < k => q[j] < q[k],
         NEW S, S = {q[j] : j \in DOMAIN q}
  PROVE  /\ Cardinality(S) = Len(q)
         /\ \A j \in DOMAIN q : Cardinality({x \in S : x <= q[j]}) = j
<1>1. Len(q) \in Nat /\ DOMAIN q = 1..Len(q) /\ \A j \in DOMAIN q : q[j] \in Nat
  OBVIOUS
<1>2. ASSUME NEW n \in 0..Len(q)
      PROVE  Cardinality({q[j] : j \in 1..n}) = n
  <2> DEFINE f == [j \in 1..n |-> q[j]]
             T == {q[j] : j \in 1..n}
  <2>1. n \in Nat /\ 1..n \subseteq DOMAIN q
    BY <1>1
  <2>2. IsFiniteSet(1..n) /\ Cardinality(1..n) = n
    BY <2>1, FS_Interval
  <2>3. \A j, k \in 1..n : q[j] = q[k] => j = k
    <3> SUFFICES ASSUME NEW j \in 1..n, NEW k \in 1..n, q[j] = q[k] PROVE j = k
      OBVIOUS
    <3>1. j \in DOMAIN q /\ k \in DOMAIN q /\ j \in Nat /\ k \in Nat
      BY <2>1
    <3>2. ~(j < k) /\ ~(k < j)
      <4>1. q[j] \in Nat /\ q[k] \in Nat
        BY <1>1, <3>1
      <4>2. (j < k => q[j] < q[k]) /\ (k < j => q[k] < q[j])
        BY <3>1, Zenon
      <4> QED
        BY ONLY <4>1, <4>2, q[j] = q[k]
    <3> QED
      BY <3>1, <3>2
  <2>4. f \in Bijection(1..n, T)
    BY <2>3 DEF Bijection, Injection, IsInjective, Surjection
  <2> HIDE DEF f, T
  <2>5. Cardinality(T) = n
    BY <2>2, <2>4, FS_Bijection DEF ExistsBijection
  <2> QED
    BY <2>5 DEF T
<1>3. Cardinality(S) = Len(q)
  BY <1>1, <1>2
<1>4. ASSUME NEW j \in DOMAIN q
      PROVE  Cardinality({x \in S : x <= q[j]}) = j
  <2>1. \A k \in DOMAIN q : q[k] <= q[j] <=> k \in 1..j
    <3> SUFFICES ASSUME NEW k \in DOMAIN q PROVE q[k] <= q[j] <=> k \in 1..j
      OBVIOUS
    <3>1. k < j => q[k] < q[j]
      OBVIOUS
    <3>2. j < k => q[j] < q[k]
      OBVIOUS
    <3> QED
      BY <1>1, <3>1, <3>2
  <2>2. j \in 0..Len(q) /\ 1..j \subseteq DOMAIN q
    BY <1>1
  <2>3. ASSUME NEW x PROVE x \in S /\ x <= q[j] <=> x \in {q[k] : k \in 1..j}
    <3>1. ASSUME x \in S, x <= q[j] PROVE x \in {q[k] : k \in 1..j}
      <4>1. PICK k \in DOMAIN q : x = q[k]
        BY <3>1
      <4>2. k \in 1..j
        BY <2>1, <3>1, <4>1
      <4> QED
        BY <4>1, <4>2
    <3>2. ASSUME x \in {q[k] : k \in 1..j} PROVE x \in S /\ x <= q[j]
      <4>1. PICK k \in 1..j : x = q[k]
        BY <3>2
      <4>2. k \in DOMAIN q
        BY <2>2
      <4> QED
        BY <2>1, <4>1, <4>2
    <3> QED
      BY <3>1, <3>2
  <2>4. {x \in S : x <= q[j]} = {q[k] : k \in 1..j}
    BY <2>3
  <2>5. Cardinality({q[k] : k \in 1..j}) = j
    BY <1>2, <2>2
  <2> QED
    BY <2>4, <2>5
<1> QED
  BY <1>3, <1>4

\* What was decided in order is what the abstract ledger posts.
LEMMA RightPosts ==
  ASSUME IInv, NEW s \in Session, Held(s) \subseteq created,
         \A i \in Indices(s) : StillRight(s, i),
         \A i \in Accepted(s) : OneLedger(Posting(s, i))
  PROVE  Atomic!Posts(s, Accepted(s))
<1> DEFINE S == Accepted(s)
<1>1. S \subseteq Indices(s) /\ Indices(s) \subseteq Nat /\ created \subseteq AccountId
  BY AcceptedFacts, PostingFacts DEF IInv, TypeOK
<1>2. ASSUME NEW i \in Indices(s)
      PROVE  LET before == Atomic!After(s, {j \in S : j < i}) IN
             /\ i \in S => Atomic!Eligible(Posting(s, i), before)
             /\ i \notin S => ~Atomic!Eligible(Posting(s, i), before) \/ Atomic!MayBeMissed(s, Posting(s, i))
  <2> DEFINE p == Posting(s, i)
             before == Atomic!After(s, {j \in S : j < i})
  <2>1. \A a \in AccountId : before[a] = balance[a] + Added(s, {j \in S : j < i}, a)
    BY SameAfter
  <2> HIDE DEF before
  <2>2. AccountsOf(p) \subseteq AccountId =>
          (FundedInOrder(s, i) <=>
             \A a \in AccountsOf(p) : DisplayedBalance(TypeOf[a], before[a] + Change(p, a)) >= 0)
    BY <2>1 DEF FundedInOrder
  <2>3. Atomic!Eligible(p, before) <=>
          /\ ValidateTransaction(p) /\ AccountsOf(p) \subseteq created /\ OneLedger(p)
          /\ \A a \in AccountsOf(p) : DisplayedBalance(TypeOf[a], before[a] + Change(p, a)) >= 0
    BY SameRules DEF Atomic!Eligible, OneLedger
  <2>4. Atomic!MayBeMissed(s, p) <=> AccountsOf(p) \cap missing[s] # {}
    BY SameRules DEF Atomic!MayBeMissed
  <2>5. StillRight(s, i)
    OBVIOUS
  <2>6. i \in S => Atomic!Eligible(p, before)
    BY <1>1, <2>2, <2>3, <2>5 DEF StillRight, Prepared
  <2>7. i \notin S => ~Atomic!Eligible(p, before) \/ Atomic!MayBeMissed(s, p)
    BY <1>1, <2>2, <2>3, <2>4, <2>5 DEF StillRight, Prepared, Parses, Held
  <2> QED
    BY <2>6, <2>7 DEF before
<1> QED
  BY <1>2, SameCalls DEF Atomic!Posts

\* A call whose key is free, or that never looks at it, finds no transaction
\* under it.
LEMMA FreshKey ==
  ASSUME IInv, KeysNameTransactions, NEW s \in Session, pc[s] \in Working
  PROVE  Atomic!Bound(s) = {}
<1> SUFFICES ASSUME NEW n \in DOMAIN txns, call[s].key # NoKey, txns[n].key = call[s].key
             PROVE  FALSE
  BY DEF Atomic!Bound
<1>1. call[s].key \in Key
  BY PostingFacts, CallFacts
<1>2. keyLock[call[s].key] = s
  BY DEF IInv, LocksFollowProgram
<1>3. keys[call[s].key] = AbsentKey
  BY <1>1, <1>2, SessionAssumption DEF IInv, ClaimedKeysAreNew
<1>4. keys[call[s].key].txn = n
  BY DEF KeysNameTransactions
<1>5. n \in 1..Len(txns)
  BY DEF IInv, TypeOK
<1> QED
  BY <1>3, <1>4, <1>5 DEF AbsentKey

\* A call that returns what was decided in order is served in one step.
LEMMA ServeStep ==
  ASSUME IInv, NEW s \in Session, pc[s] # "done", NEW results, Return(s, results),
         created' = created, Held(s) \subseteq created,
         Len(call[s].postings) \in 1..MaxPostingBatchSize,
         \A i \in Indices(s) : StillRight(s, i),
         \A i \in Accepted(s) : OneLedger(Posting(s, i)),
         \/ Atomic!Bound(s) = {}
         \/ \A i \in Indices(s) : ~ValidateTransaction(Posting(s, i)),
         txns' = txns \o Atomic!Rows(s, Accepted(s)),
         balance' = Atomic!After(s, Accepted(s)),
         \/ results = Atomic!Served(s, Accepted(s))
         \/ results = AllAnswers(s, "lost", 0)
  PROVE  Atomic!Serve(s)
<1> DEFINE S == Accepted(s)
<1>1. Atomic!Waiting(s)
  BY SameCalls
<1>2. Atomic!Cardinality(Atomic!Indices(s)) \in 1..MaxPostingBatchSize
  BY SameCalls, SameRules, PostingFacts
<1>3. S \in SUBSET Atomic!Indices(s) /\ Atomic!Posts(s, S)
  BY SameCalls, AcceptedFacts, RightPosts
<1>4. \/ Atomic!Bound(s) = {}
      \/ \A i \in Atomic!Indices(s) : ~Atomic!ValidateTransaction(Atomic!Posting(s, i))
  BY SameCalls, SameRules
<1>5. Atomic!Tell(s, Atomic!Served(s, S)) \/ Atomic!Tell(s, Atomic!Told(s, "lost", 0))
  <2>1. Atomic!Tell(s, results)
    BY ReturnTells
  <2>2. Atomic!Told(s, "lost", 0) = AllAnswers(s, "lost", 0)
    BY SameCalls
  <2> QED
    BY <2>1, <2>2 DEF Atomic!Tell
<1>6. txns' = txns \o Atomic!Rows(s, S) /\ balance' = Atomic!After(s, S)
  OBVIOUS
<1> HIDE DEF S
<1> QED
  BY <1>1, <1>2, <1>3, <1>4, <1>5, <1>6 DEF Atomic!Serve

\* So is a call that is refused as a whole.
LEMMA RefusalStep ==
  ASSUME IInv, NEW s \in Session, pc[s] # "done", Accepted(s) = {},
         ReturnOnly(s, AllAnswers(s, "rejected", 0)), Held(s) \subseteq created,
         Len(call[s].postings) \in 1..MaxPostingBatchSize,
         \A i \in Indices(s) : StillRight(s, i),
         \/ Atomic!Bound(s) = {}
         \/ \A i \in Indices(s) : ~ValidateTransaction(Posting(s, i))
  PROVE  Atomic!Serve(s)
<1>1. /\ Return(s, AllAnswers(s, "rejected", 0)) /\ created' = created
      /\ txns' = txns /\ balance' = balance
  BY DEF ReturnOnly, tables
<1>2. Atomic!Rows(s, Accepted(s)) = <<>>
  <2>1. Atomic!Cardinality(Accepted(s)) = 0
    BY SameRules, FS_EmptySet
  <2>2. 1..Atomic!Cardinality(Accepted(s)) = {}
    BY <2>1
  <2> QED
    BY <2>2 DEF Atomic!Rows
<1>3. txns' = txns \o Atomic!Rows(s, Accepted(s))
  BY <1>1, <1>2 DEF IInv, TypeOK
<1>4. balance' = Atomic!After(s, Accepted(s))
  <2>1. \A a : Added(s, {}, a) = 0
    BY AddedFacts
  <2>2. balance = [a \in AccountId |-> balance[a]] /\ \A a \in AccountId : balance[a] \in Int
    BY DEF IInv, TypeOK
  <2>3. Atomic!After(s, Accepted(s)) = [a \in AccountId |-> balance[a] + Added(s, {}, a)]
    BY SameAfter
  <2> QED
    BY <1>1, <2>1, <2>2, <2>3
<1>5. AllAnswers(s, "rejected", 0) = Atomic!Served(s, Accepted(s))
  BY SameCalls DEF Atomic!Served, AllAnswers
<1> QED
  BY <1>1, <1>3, <1>4, <1>5, ServeStep

\* The accepted postings are numbered as they were accepted.
LEMMA AcceptedRank ==
  ASSUME IInv, NEW s \in Session, CallStands(s), pc[s] = "commit"
  PROVE  /\ Atomic!Cardinality(Accepted(s)) = Len(accepted[s])
         /\ \A j \in DOMAIN accepted[s] :
              /\ Atomic!Rank(Accepted(s), accepted[s][j]) = j
              /\ (CHOOSE i \in Accepted(s) : Atomic!Rank(Accepted(s), i) = j) = accepted[s][j]
<1>1. PICK q \in Seq(Nat) : q = accepted[s]
  BY AcceptedFacts
<1>2. PICK S : S = Accepted(s)
  OBVIOUS
<1>3. \A j, k \in DOMAIN q : j < k => q[j] < q[k]
  BY <1>1 DEF CallStands, DecisionsRight
<1>4. S = {q[j] : j \in DOMAIN q}
  BY <1>1, <1>2 DEF Accepted
<1>5. /\ Cardinality(S) = Len(q)
      /\ \A j \in DOMAIN q : Cardinality({x \in S : x <= q[j]}) = j
  BY <1>3, <1>4, RankInOrder
<1>6. \A i : Atomic!Rank(S, i) = Cardinality({x \in S : x <= i})
  BY SameRules DEF Atomic!Rank
<1>7. ASSUME NEW j \in DOMAIN q
      PROVE  /\ Atomic!Rank(S, q[j]) = j
             /\ (CHOOSE i \in S : Atomic!Rank(S, i) = j) = q[j]
  <2>1. Atomic!Rank(S, q[j]) = j /\ q[j] \in S
    BY <1>4, <1>5, <1>6
  <2>2. ASSUME NEW i \in S, Atomic!Rank(S, i) = j PROVE i = q[j]
    <3>1. PICK k \in DOMAIN q : i = q[k]
      BY <1>4
    <3> QED
      BY <1>5, <1>6, <2>2, <3>1
  <2> QED
    BY <2>1, <2>2
<1> QED
  BY <1>1, <1>2, <1>5, <1>7, SameRules

\* Whole cents are stored as they are.
LEMMA StoredWhole ==
  ASSUME Grain = 1, NEW p \in Seq(Entry)
  PROVE  Stored(p) = p
<1>1. \A k \in DOMAIN p : p[k] \in Entry
  OBVIOUS
<1>2. \A k \in DOMAIN p :
        /\ p[k] = [account |-> p[k].account, debit |-> p[k].debit, credit |-> p[k].credit]
        /\ p[k].debit \in Int /\ p[k].credit \in Int
  BY <1>1 DEF Entry
<1>3. \A k \in DOMAIN p : Round(p[k].debit) = p[k].debit /\ Round(p[k].credit) = p[k].credit
  BY <1>2, RoundWhole
<1>4. p = [k \in DOMAIN p |-> p[k]]
  OBVIOUS
<1> QED
  BY <1>2, <1>3, <1>4 DEF Stored

\* The transaction of a posting within one ledger is of that ledger.
LEMMA LedgerOfPosting ==
  ASSUME NEW p, OneLedger(p), NEW a \in AccountsOf(p)
  PROVE  PostingLedger(p) = LedgerOf[a]
<1> DEFINE others == {LedgerOf[b] : b \in AccountsOf(p)} \ {DefaultLedger}
<1>1. {LedgerOf[b] : b \in AccountsOf(p)} = {LedgerOf[a]}
  BY DEF OneLedger
<1>2. CASE LedgerOf[a] = DefaultLedger
  <2>1. others = {}
    BY <1>1, <1>2
  <2> QED
    BY <1>2, <2>1 DEF PostingLedger
<1>3. CASE LedgerOf[a] # DefaultLedger
  <2>1. others = {LedgerOf[a]}
    BY <1>1, <1>3
  <2>2. (CHOOSE l \in others : TRUE) = LedgerOf[a]
    BY <2>1
  <2> QED
    BY <2>1, <2>2 DEF PostingLedger
<1> QED
  BY <1>2, <1>3

\* The rows a call writes are the rows it is to add.
LEMMA SameRows ==
  ASSUME Grain = 1, IInv, NEW s \in Session, CallStands(s), pc[s] = "commit",
         \A i \in Accepted(s) : OneLedger(Posting(s, i))
  PROVE  NewRows(s) = Atomic!Rows(s, Accepted(s))
<1>1. DOMAIN accepted[s] = 1..Len(accepted[s])
  BY AcceptedFacts
<1>2. ASSUME NEW j \in DOMAIN accepted[s]
      PROVE  NewRow(s, accepted[s][j]) = Atomic!Row(s, accepted[s][j])
  <2>1. PICK i : i = accepted[s][j]
    OBVIOUS
  <2> DEFINE p == Posting(s, i)
             L == {LedgerOf[a] : a \in AccountsOf(p)}
  <2>2. i \in Accepted(s) /\ i \in Indices(s) /\ p \in Seq(Entry)
    BY <2>1, AcceptedFacts, PostingFacts DEF Accepted
  <2>3. OneLedger(p) /\ ValidateTransaction(p)
    BY <2>2 DEF CallStands, DecisionsRight, StillRight, Prepared
  <2>4. Stored(p) = p
    BY <2>2, StoredWhole
  <2>5. PostingLedger(p) = CHOOSE l \in L : TRUE
    <3>1. PICK a : a \in AccountsOf(p)
      <4>1. 1 \in DOMAIN p
        BY <2>2, <2>3 DEF ValidateTransaction
      <4> QED
        BY <4>1 DEF AccountsOf
    <3>2. L = {LedgerOf[a]}
      BY <2>3, <3>1 DEF OneLedger
    <3>3. (CHOOSE l \in L : TRUE) = LedgerOf[a]
      BY <3>2
    <3>4. PostingLedger(p) = LedgerOf[a]
      BY <2>3, <3>1, LedgerOfPosting
    <3> QED
      BY <3>3, <3>4
  <2>6. Atomic!Row(s, i) = [ledger |-> CHOOSE l \in L : TRUE, entries |-> p, key |-> call[s].key]
    BY SameCalls, SameRules DEF Atomic!Row
  <2>7. NewRow(s, i) = [ledger |-> PostingLedger(p), entries |-> Stored(p), key |-> call[s].key]
    BY DEF NewRow
  <2> HIDE DEF p, L
  <2> QED
    BY <2>1, <2>4, <2>5, <2>6, <2>7
<1>3. Atomic!Rows(s, Accepted(s)) = [j \in 1..Len(accepted[s]) |-> Atomic!Row(s, accepted[s][j])]
  <2>1. Atomic!Cardinality(Accepted(s)) = Len(accepted[s])
    BY AcceptedRank
  <2>2. \A j \in 1..Len(accepted[s]) :
          (CHOOSE i \in Accepted(s) : Atomic!Rank(Accepted(s), i) = j) = accepted[s][j]
    BY <1>1, AcceptedRank
  <2> DEFINE nth(j) == CHOOSE i \in Accepted(s) : Atomic!Rank(Accepted(s), i) = j
  <2>3. Atomic!Rows(s, Accepted(s)) = [j \in 1..Len(accepted[s]) |-> Atomic!Row(s, nth(j))]
    BY <2>1, Zenon DEF Atomic!Rows
  <2>4. \A j \in 1..Len(accepted[s]) : nth(j) = accepted[s][j]
    BY <2>2
  <2> HIDE DEF nth
  <2>5. \A j \in 1..Len(accepted[s]) : Atomic!Row(s, nth(j)) = Atomic!Row(s, accepted[s][j])
    BY <2>4
  <2> QED
    BY <2>3, <2>5
<1> QED
  BY <1>1, <1>2, <1>3 DEF NewRows

\* So are the balances.
LEMMA SameBalances ==
  ASSUME Grain = 1, IInv, NEW s \in Session, CallStands(s), pc[s] = "commit"
  PROVE  NewBalance(s) = Atomic!After(s, Accepted(s))
<1>1. ASSUME NEW a \in AccountId
      PROVE  (IF a \in Touched(s) THEN Round(balance[a] + delta[s][a]) ELSE balance[a])
               = balance[a] + Added(s, Accepted(s), a)
  <2>1. /\ balance[a] \in Int /\ delta[s][a] \in Int
        /\ delta[s][a] = Added(s, Accepted(s), a)
    BY DEF IInv, TypeOK, CallStands, DecisionsRight
  <2>2. Round(balance[a] + delta[s][a]) = balance[a] + delta[s][a]
    BY <2>1, RoundWhole
  <2>3. CASE a \notin Touched(s)
    <3>1. \A i \in Accepted(s) : a \notin AccountsOf(Posting(s, i))
      BY <2>3, AcceptedFacts
    <3>2. Added(s, Accepted(s), a) = 0
      BY <3>1, AddedFacts, AcceptedFacts
    <3> QED
      BY <2>1, <2>3, <3>2
  <2> QED
    BY <2>1, <2>2, <2>3
<1> QED
  BY <1>1, SameAfter DEF NewBalance

\* So are the answers.
LEMMA SameAnswers ==
  ASSUME IInv, NEW s \in Session, CallStands(s), DecisionsNoted(s), pc[s] = "commit"
  PROVE  CommittedAnswers(s) = Atomic!Served(s, Accepted(s))
<1>1. ASSUME NEW i \in Indices(s)
      PROVE  CommittedAnswers(s)[i] =
               IF i \in Accepted(s)
               THEN [status |-> "posted", txn |-> Len(txns) + Atomic!Rank(Accepted(s), i)]
               ELSE [status |-> "rejected", txn |-> 0]
  <2>1. CASE ~call[s].batch
    <3>1. accepted[s] = <<1>> /\ Indices(s) = {1}
      BY <2>1, PostingFacts DEF IInv, WritesAreLocked
    <3>2. 1 \in DOMAIN accepted[s] /\ accepted[s][1] = 1 /\ i = 1
      BY <3>1
    <3>3. 1 \in Accepted(s) /\ Atomic!Rank(Accepted(s), 1) = 1
      <4>1. 1 \in Accepted(s)
        BY <3>2 DEF Accepted
      <4>2. Atomic!Rank(Accepted(s), accepted[s][1]) = 1
        BY <3>2, AcceptedRank
      <4> QED
        BY <3>2, <4>1, <4>2
    <3> QED
      BY <2>1, <3>2, <3>3 DEF CommittedAnswers, AllAnswers
  <2>2. CASE call[s].batch /\ i \in Accepted(s)
    <3>1. PICK j \in DOMAIN accepted[s] : i = accepted[s][j]
      BY <2>2 DEF Accepted
    <3>2. answer[s][i] = [status |-> "accepted", txn |-> j]
      BY <2>2, <3>1 DEF DecisionsNoted
    <3>3. Atomic!Rank(Accepted(s), i) = j
      BY <3>1, AcceptedRank
    <3> QED
      BY <2>2, <3>2, <3>3 DEF CommittedAnswers
  <2>3. CASE call[s].batch /\ i \notin Accepted(s)
    <3>1. i < cursor[s]
      BY <2>3, PostingFacts, SMTT(30) DEF CallStands, DecisionsRight, IInv, TypeOK
    <3>2. answer[s][i] = [status |-> "rejected", txn |-> 0]
      BY <2>3, <3>1 DEF CallStands, RequestChecked
    <3> QED
      BY <2>3, <3>2 DEF CommittedAnswers
  <2> QED
    BY <2>1, <2>2, <2>3
<1>2. CommittedAnswers(s) = [i \in Indices(s) |-> CommittedAnswers(s)[i]]
  BY DEF CommittedAnswers, AllAnswers
<1> QED
  BY <1>1, <1>2, SameCalls DEF Atomic!Served

\* A commit serves its call, acknowledged or not.
LEMMA CommitServes ==
  ASSUME Grain = 1, BatchesInOneLedger, IInv, KeysNameTransactions, NEW s \in Session,
         CallStands(s), DecisionsNoted(s), Commit(s) \/ CommitUnacknowledged(s)
  PROVE  Atomic!Serve(s)
<1>1. PICK results : /\ Return(s, results) /\ CommitWrites(s) /\ pc[s] = "commit"
                     /\ \/ results = CommittedAnswers(s)
                        \/ results = AllAnswers(s, "lost", 0)
  BY DEF Commit, CommitUnacknowledged
<1>2. \A i \in Accepted(s) : OneLedger(Posting(s, i))
  BY <1>1, AcceptedInOneLedger
<1>3. /\ created' = created
      /\ txns' = txns \o Atomic!Rows(s, Accepted(s))
      /\ balance' = Atomic!After(s, Accepted(s))
  BY <1>1, <1>2, SameRows, SameBalances DEF CommitWrites
<1>4. /\ Held(s) \subseteq created
      /\ \A i \in Indices(s) : StillRight(s, i)
      /\ call[s].batch => Len(call[s].postings) \in 1..MaxPostingBatchSize
  BY <1>1 DEF CallStands, RowsFound, DecisionsRight, RequestChecked
<1>5. Len(call[s].postings) \in 1..MaxPostingBatchSize
  <2>1. 1 \in 1..MaxPostingBatchSize
    BY BoundAssumption
  <2> QED
    BY <1>4, <2>1, PostingFacts
<1>6. Atomic!Bound(s) = {}
  BY <1>1, FreshKey DEF Working
<1>7. \/ results = Atomic!Served(s, Accepted(s))
      \/ results = AllAnswers(s, "lost", 0)
  BY <1>1, SameAnswers
<1> QED
  BY <1>1, <1>2, <1>3, <1>4, <1>5, <1>6, <1>7, ServeStep

\* A call that is refused as a whole is served: refused before it locks ...
LEMMA EarlyRefusalServes ==
  ASSUME IInv, KeysNameTransactions, NEW s \in Session, CallStands(s),
         ReturnOnly(s, AllAnswers(s, "rejected", 0)),
         \A i \in Indices(s) : ~Prepared(Posting(s, i)),
         \/ pc[s] = "idle" /\ ~call[s].batch /\ ~ValidateTransaction(Posting(s, 1))
         \/ pc[s] = "idle" /\ call[s].batch /\ Len(call[s].postings) \in 1..MaxPostingBatchSize
         \/ pc[s] = "begin" /\ ~call[s].batch
  PROVE  Atomic!Serve(s)
<1>1. Accepted(s) = {} /\ pc[s] # "done"
  BY AcceptedFacts
<1>2. Held(s) \subseteq created
  BY DEF IInv, LocksFollowProgram
<1>3. Len(call[s].postings) \in 1..MaxPostingBatchSize
  <2>1. 1 \in 1..MaxPostingBatchSize
    BY BoundAssumption
  <2> QED
    BY <2>1, PostingFacts
<1>4. \A i \in Indices(s) : StillRight(s, i)
  BY <1>1 DEF StillRight
<1>5. \/ Atomic!Bound(s) = {}
      \/ \A i \in Indices(s) : ~ValidateTransaction(Posting(s, i))
  <2>1. CASE pc[s] = "idle" /\ ~call[s].batch /\ ~ValidateTransaction(Posting(s, 1))
    BY <2>1, PostingFacts
  <2>2. CASE call[s].batch
    <3>1. call[s].key = NoKey
      BY <2>2, PostingFacts, CallFacts
    <3> QED
      BY <3>1 DEF Atomic!Bound
  <2>3. CASE pc[s] = "begin"
    BY <2>3, FreshKey DEF Working
  <2> QED
    BY <2>1, <2>2, <2>3
<1> QED
  BY <1>1, <1>2, <1>3, <1>4, <1>5, RefusalStep

\* ... or refused for what it has locked.
LEMMA CheckRefusalServes ==
  ASSUME IInv, KeysNameTransactions, NEW s \in Session, CallStands(s), pc[s] = "check",
         ~call[s].batch, ReturnOnly(s, AllAnswers(s, "rejected", 0)),
         ~ /\ AccountsOf(Posting(s, 1)) \subseteq Held(s)
           /\ Funded(s, Posting(s, 1))
           /\ OneLedger(Posting(s, 1))
  PROVE  Atomic!Serve(s)
<1>1. Indices(s) = {1} /\ Len(call[s].postings) = 1
  BY PostingFacts
<1>2. Accepted(s) = {}
  BY DEF IInv, WritesAreLocked, Accepted
<1>3. StillRight(s, 1)
  BY <1>1, <1>2, RejectedInOrder
<1>4. Held(s) \subseteq created
  BY DEF CallStands, RowsFound
<1>5. Atomic!Bound(s) = {}
  BY FreshKey DEF Working
<1>6. Len(call[s].postings) \in 1..MaxPostingBatchSize
  BY <1>1, BoundAssumption
<1> QED
  BY <1>1, <1>2, <1>3, <1>4, <1>5, <1>6, RefusalStep

\* A call that fails leaves no trace.
LEMMA FailureFails ==
  ASSUME IInv, NEW s \in Session, pc[s] # "done", NEW status \in {"error", "exhausted"},
         ReturnOnly(s, AllAnswers(s, status, 0))
  PROVE  Atomic!Fail(s)
<1>1. /\ Return(s, AllAnswers(s, status, 0))
      /\ created' = created /\ UNCHANGED <<balance, txns>>
  BY DEF ReturnOnly, tables
<1>2. PICK results : results = AllAnswers(s, status, 0) /\ Return(s, results)
  BY <1>1
<1>3. Atomic!Tell(s, results)
  BY <1>1, <1>2, ReturnTells
<1>4. Atomic!Tell(s, Atomic!Told(s, status, 0))
  <2>1. results = Atomic!Told(s, status, 0)
    BY <1>2, SameCalls
  <2> QED
    BY <1>3, <2>1 DEF Atomic!Tell
<1> QED
  BY <1>1, <1>4, SameCalls DEF Atomic!Fail

\* A repeated key is answered from the transaction it names.
LEMMA RepeatRepeats ==
  ASSUME IInv, KeysNameTransactions, NEW s \in Session, pc[s] \in {"read", "claim"},
         keys[call[s].key].status # "absent",
         IF keys[call[s].key].sum = Checksum(Posting(s, 1))
         THEN ReturnOnly(s, AllAnswers(s, "existing", keys[call[s].key].txn))
         ELSE ReturnOnly(s, AllAnswers(s, "conflict", 0))
  PROVE  Atomic!Repeat(s)
<1>1. PICK n : n = keys[call[s].key].txn
  OBVIOUS
<1>2. call[s].key \in Key /\ call[s].key # NoKey
  BY KeyedCall, KeyAssumption
<1>3. /\ n \in DOMAIN txns /\ txns[n].key = call[s].key
      /\ keys[call[s].key].sum = Checksum(txns[n].entries)
  BY <1>1, <1>2 DEF KeysNameTransactions
<1>4. n \in Atomic!Bound(s)
  BY <1>2, <1>3 DEF Atomic!Bound
<1>5. Atomic!Checksum(txns[n].entries) = Atomic!Checksum(Atomic!Posting(s, 1))
        <=> keys[call[s].key].sum = Checksum(Posting(s, 1))
  BY <1>3, SameRules, SameCalls
<1>6. ASSUME NEW results, ReturnOnly(s, results)
      PROVE  Atomic!Tell(s, results) /\ UNCHANGED <<balance, txns>>
  BY <1>6, ReturnTells DEF ReturnOnly, tables
<1>7. IF Atomic!Checksum(txns[n].entries) = Atomic!Checksum(Atomic!Posting(s, 1))
      THEN Atomic!Tell(s, Atomic!Told(s, "existing", n))
      ELSE Atomic!Tell(s, Atomic!Told(s, "conflict", 0))
  <2>1. /\ Atomic!Told(s, "existing", n) = AllAnswers(s, "existing", keys[call[s].key].txn)
        /\ Atomic!Told(s, "conflict", 0) = AllAnswers(s, "conflict", 0)
    BY <1>1, SameCalls
  <2>2. CASE keys[call[s].key].sum = Checksum(Posting(s, 1))
    <3>1. PICK results : results = Atomic!Told(s, "existing", n) /\ ReturnOnly(s, results)
      BY <2>1, <2>2
    <3>2. Atomic!Tell(s, results)
      BY <1>6, <3>1
    <3> QED
      BY <1>5, <2>2, <3>1, <3>2 DEF Atomic!Tell
  <2>3. CASE keys[call[s].key].sum # Checksum(Posting(s, 1))
    <3>1. PICK results : results = Atomic!Told(s, "conflict", 0) /\ ReturnOnly(s, results)
      BY <2>1, <2>3
    <3>2. Atomic!Tell(s, results)
      BY <1>6, <3>1
    <3> QED
      BY <1>5, <2>3, <3>1, <3>2 DEF Atomic!Tell
  <2> QED
    BY <2>2, <2>3
<1>8. UNCHANGED <<balance, txns>>
  BY <1>6
<1> QED
  BY <1>4, <1>7, <1>8, SameCalls DEF Atomic!Repeat

\* A call never changes what it was asked.
LEMMA CallKept ==
  ASSUME NEW s \in Session,
         \/ Submit(s) \/ SubmitBatch(s) \/ Claim(s) \/ LockRow(s) \/ LocalStep(s)
         \/ SerializationFailure(s) \/ DatabaseError(s) \/ CommitUnacknowledged(s)
  PROVE  call' = call
<1> USE DEF ReturnOnly, Return, locals
<1>1. ASSUME Submit(s) \/ SubmitBatch(s) PROVE call' = call
  BY <1>1 DEF Submit, SubmitBatch
<1>2. ASSUME Claim(s) \/ FastRead(s) PROVE call' = call
  BY <1>2 DEF Claim, FastRead
<1>3. ASSUME LockRow(s) \/ BeginLocking(s) \/ BeginLockingBatch(s) \/ RowsLocked(s) PROVE call' = call
  BY <1>3 DEF LockRow, BeginLocking, BeginLockingBatch, RowsLocked
<1>4. ASSUME CheckRows(s) \/ DecideNext(s) \/ BatchDecided(s) PROVE call' = call
  BY <1>4 DEF CheckRows, DecideNext, BatchDecided
<1>5. ASSUME Commit(s) \/ WriteFails(s) \/ CommitUnacknowledged(s) PROVE call' = call
  BY <1>5 DEF Commit, WriteFails, CommitUnacknowledged
<1>6. ASSUME SerializationFailure(s) \/ DatabaseError(s) PROVE call' = call
  BY <1>6 DEF SerializationFailure, DatabaseError
<1> QED
  BY <1>1, <1>2, <1>3, <1>4, <1>5, <1>6 DEF LocalStep

\* Only the step that makes a call, or one that ends it, changes what it may
\* miss.
LEMMA OnlySubmitsStart ==
  ASSUME IInv, NEW s \in Session, pc'[s] # "done",
         \/ Submit(s) \/ SubmitBatch(s) \/ Claim(s) \/ LockRow(s) \/ LocalStep(s)
         \/ SerializationFailure(s) \/ DatabaseError(s) \/ CommitUnacknowledged(s)
  PROVE  missing' = IF pc[s] = "idle" THEN [missing EXCEPT ![s] = Named(s) \ created] ELSE missing
<1>1. ASSUME NEW results PROVE ~Return(s, results)
  BY DEF Return, IInv, TypeOK
<1> USE DEF ReturnOnly, locals
<1>2. CASE Submit(s) \/ SubmitBatch(s)
  BY <1>1, <1>2 DEF Submit, SubmitBatch
<1>3. CASE Claim(s) \/ FastRead(s)
  BY <1>1, <1>3 DEF Claim, FastRead
<1>4. CASE LockRow(s) \/ BeginLocking(s) \/ BeginLockingBatch(s) \/ RowsLocked(s)
  BY <1>1, <1>4 DEF LockRow, BeginLocking, BeginLockingBatch, RowsLocked
<1>5. CASE CheckRows(s) \/ DecideNext(s) \/ BatchDecided(s)
  BY <1>1, <1>5 DEF CheckRows, DecideNext, BatchDecided
<1>6. CASE Commit(s) \/ WriteFails(s) \/ CommitUnacknowledged(s)
  BY <1>1, <1>6 DEF Commit, WriteFails, CommitUnacknowledged
<1>7. CASE SerializationFailure(s) \/ DatabaseError(s)
  BY <1>1, <1>7 DEF SerializationFailure, DatabaseError, InTransaction
<1> QED
  BY <1>2, <1>3, <1>4, <1>5, <1>6, <1>7 DEF LocalStep

\* Every step of a call is a step of the abstract ledger, or none it shows.
LEMMA StepImplements ==
  ASSUME Grain = 1, BatchesInOneLedger, IInv, KeysNameTransactions, NEW s \in Session, CallStands(s),
         DecisionsNoted(s), pc[s] # "done",
         \/ Submit(s) \/ SubmitBatch(s) \/ Claim(s) \/ LockRow(s) \/ LocalStep(s)
         \/ SerializationFailure(s) \/ DatabaseError(s) \/ CommitUnacknowledged(s)
  PROVE  \/ Atomic!Start(s) \/ Atomic!Serve(s) \/ Atomic!Repeat(s) \/ Atomic!Fail(s)
         \/ UNCHANGED Atomic!vars
<1> DEFINE Goal == \/ Atomic!Start(s) \/ Atomic!Serve(s) \/ Atomic!Repeat(s) \/ Atomic!Fail(s)
                   \/ UNCHANGED Atomic!vars
<1> USE DEF IInv, TypeOK
<1>1. CASE Commit(s) \/ CommitUnacknowledged(s)
  BY <1>1, CommitServes
<1>2. CASE pc'[s] # "done"
  <2>1. ~(Commit(s) \/ CommitUnacknowledged(s))
    BY <1>2 DEF Commit, CommitUnacknowledged, Return
  <2>2. UNCHANGED tables
    BY <2>1, WritesAtCommit
  <2>3. /\ call' = call
        /\ \A t \in Session \ {s} : pc'[t] = pc[t] /\ answer'[t] = answer[t]
    BY CallKept, OthersUntouched
  <2>4. Outcome' = Outcome
    BY <1>2, <2>3, NothingTold
  <2>5. CASE pc[s] = "idle"
    <3>1. missing' = [missing EXCEPT ![s] = Named(s) \ created]
      BY <1>2, <2>5, OnlySubmitsStart
    <3>2. Named(s) \ created \in SUBSET (AccountId \ created)
      BY NamedType
    <3> QED
      BY <2>2, <2>3, <2>4, <3>1, <3>2, SameCalls DEF Atomic!Start, Outcome, tables
  <2>6. CASE pc[s] # "idle"
    <3>1. missing' = missing
      BY <1>2, <2>6, OnlySubmitsStart
    <3> QED
      BY <2>2, <2>3, <2>4, <3>1 DEF Atomic!vars, Outcome, tables
  <2> QED
    BY <2>5, <2>6
<1>3. ASSUME NEW status \in {"error", "exhausted"}, ReturnOnly(s, AllAnswers(s, status, 0))
      PROVE  Goal
  BY <1>3, FailureFails
<1>4. CASE Submit(s)
  <2>1. CASE ValidateTransaction(Posting(s, 1))
    <3>1. pc'[s] # "done"
      BY <1>4, <2>1 DEF Submit
    <3> QED
      BY <1>2, <3>1
  <2>2. CASE ~ValidateTransaction(Posting(s, 1))
    <3>1. /\ pc[s] = "idle" /\ ~call[s].batch
          /\ ReturnOnly(s, AllAnswers(s, "rejected", 0))
      BY <1>4, <2>2 DEF Submit
    <3>2. \A i \in Indices(s) : ~Prepared(Posting(s, i))
      BY <2>2, <3>1, PostingFacts DEF Prepared
    <3> QED
      BY <2>2, <3>1, <3>2, EarlyRefusalServes
  <2> QED
    BY <2>1, <2>2
<1>5. CASE SubmitBatch(s)
  <2>1. CASE ReturnOnly(s, AllAnswers(s, "error", 0))
    BY <1>3, <2>1
  <2>2. CASE /\ \A i \in Indices(s) : ~Prepared(Posting(s, i))
             /\ Len(call[s].postings) \in 1..MaxPostingBatchSize
             /\ ReturnOnly(s, AllAnswers(s, "rejected", 0))
    <3>1. pc[s] = "idle" /\ call[s].batch
      BY <1>5 DEF SubmitBatch
    <3> QED
      BY <2>2, <3>1, EarlyRefusalServes
  <2>3. CASE pc' = [pc EXCEPT ![s] = "begin"]
    BY <1>2, <2>3
  <2> QED
    BY <1>5, <2>1, <2>2, <2>3 DEF SubmitBatch
<1>6. CASE FastRead(s) \/ Claim(s)
  <2>1. pc[s] \in {"read", "claim"}
    BY <1>6 DEF FastRead, Claim
  <2>2. call[s].key \in Key /\ keys[call[s].key] \in KeyRow
    BY <2>1, KeyedCall
  <2>3. CASE /\ keys[call[s].key].status # "absent"
             /\ keys[call[s].key].sum # Checksum(Posting(s, 1))
             /\ ReturnOnly(s, AllAnswers(s, "conflict", 0))
    BY <2>1, <2>3, RepeatRepeats
  <2>4. CASE /\ keys[call[s].key].status = "completed" \/ keys[call[s].key].txn # 0
             /\ keys[call[s].key].sum = Checksum(Posting(s, 1))
             /\ ReturnOnly(s, AllAnswers(s, "existing", keys[call[s].key].txn))
    <3>1. keys[call[s].key].status # "absent"
      BY <2>2, <2>4 DEF KeyRow, AbsentKey
    <3> QED
      BY <2>1, <2>4, <3>1, RepeatRepeats
  <2>5. CASE pc' = [pc EXCEPT ![s] = "claim"] \/ pc' = [pc EXCEPT ![s] = "begin"]
    BY <1>2, <2>5
  <2> QED
    BY <1>6, <2>3, <2>4, <2>5 DEF FastRead, Claim
<1>7. CASE BeginLocking(s)
  <2>1. CASE Parses(Posting(s, 1))
    <3>1. pc'[s] # "done"
      BY <1>7, <2>1 DEF BeginLocking
    <3> QED
      BY <1>2, <3>1
  <2>2. CASE ~Parses(Posting(s, 1))
    <3>1. /\ pc[s] = "begin" /\ ~call[s].batch
          /\ ReturnOnly(s, AllAnswers(s, "rejected", 0))
      BY <1>7, <2>2 DEF BeginLocking
    <3>2. \A i \in Indices(s) : ~Prepared(Posting(s, i))
      BY <2>2, <3>1, PostingFacts DEF Prepared
    <3> QED
      BY <3>1, <3>2, EarlyRefusalServes
  <2> QED
    BY <2>1, <2>2
<1>8. CASE CheckRows(s)
  <2>1. pc[s] = "check" /\ ~call[s].batch
    BY <1>8 DEF CheckRows
  <2>2. CASE pc' = [pc EXCEPT ![s] = "commit"]
    BY <1>2, <2>2
  <2>3. CASE /\ ~ /\ AccountsOf(Posting(s, 1)) \subseteq Held(s)
                  /\ Funded(s, Posting(s, 1))
                  /\ OneLedger(Posting(s, 1))
             /\ ReturnOnly(s, AllAnswers(s, "rejected", 0))
    BY <2>1, <2>3, CheckRefusalServes
  <2> QED
    BY <1>8, <2>2, <2>3 DEF CheckRows
<1>9. CASE BeginLockingBatch(s) \/ RowsLocked(s) \/ LockRow(s) \/ DecideNext(s) \/ BatchDecided(s)
  <2>1. pc'[s] # "done"
    BY <1>9 DEF BeginLockingBatch, RowsLocked, LockRow, DecideNext, BatchDecided
  <2> QED
    BY <1>2, <2>1
<1>10. CASE WriteFails(s) \/ DatabaseError(s)
  <2>1. ReturnOnly(s, AllAnswers(s, "error", 0))
    BY <1>10 DEF WriteFails, DatabaseError
  <2> QED
    BY <1>3, <2>1
<1>11. CASE SerializationFailure(s)
  <2>1. CASE pc' = [pc EXCEPT ![s] = AttemptStart(s)]
    BY <1>2, <2>1 DEF AttemptStart
  <2>2. CASE ReturnOnly(s, AllAnswers(s, IF call[s].batch THEN "error" ELSE "exhausted", 0))
    <3>1. CASE call[s].batch
      BY <1>3, <2>2, <3>1
    <3>2. CASE ~call[s].batch
      BY <1>3, <2>2, <3>2
    <3> QED
      BY <3>1, <3>2
  <2> QED
    BY <1>11, <2>1, <2>2 DEF SerializationFailure
<1> QED
  BY <1>1, <1>4, <1>5, <1>6, <1>7, <1>8, <1>9, <1>10, <1>11 DEF LocalStep

\* So is every step of the protocol.
LEMMA NextImplements ==
  ASSUME Grain = 1, BatchesInOneLedger, IInv, KeysNameTransactions, AnswersFollowDecisions,
         CallsStand, [Next]_vars
  PROVE  [Atomic!Next]_(Atomic!vars)
<1>1. CASE UNCHANGED vars
  <2>1. UNCHANGED <<created, balance, txns, call, missing, pc, answer>>
    BY <1>1 DEF vars, tables, locals
  <2>2. Outcome' = Outcome
    BY <2>1, NothingTold
  <2> QED
    BY <2>1, <2>2 DEF Atomic!vars, Outcome
<1>2. ASSUME NEW a \in AccountId, CreateAccount(a) PROVE Atomic!Next
  <2>1. UNCHANGED <<balance, txns, call, missing, pc, answer>>
    BY <1>2 DEF CreateAccount, locals
  <2>2. Outcome' = Outcome
    BY <2>1, NothingTold
  <2>3. Atomic!CreateAccount(a)
    BY <1>2, <2>1, <2>2 DEF CreateAccount, Atomic!CreateAccount, ValidateAccount, AccountType,
      Atomic!AccountType, Outcome
  <2> QED
    BY <2>3 DEF Atomic!Next
<1>3. ASSUME NEW s \in Session,
             \/ Submit(s) \/ SubmitBatch(s) \/ Claim(s) \/ LockRow(s) \/ LocalStep(s)
             \/ SerializationFailure(s) \/ DatabaseError(s) \/ CommitUnacknowledged(s)
      PROVE  [Atomic!Next]_(Atomic!vars)
  <2>1. pc[s] # "done"
    BY <1>3 DEF Submit, SubmitBatch, Claim, LockRow, LocalStep, FastRead, BeginLocking,
      BeginLockingBatch, RowsLocked, CheckRows, DecideNext, BatchDecided, Commit, WriteFails,
      SerializationFailure, DatabaseError, CommitUnacknowledged, InTransaction
  <2>2. CallStands(s) /\ DecisionsNoted(s)
    BY <2>1 DEF CallsStand, AnswersFollowDecisions
  <2>3. \/ Atomic!Start(s) \/ Atomic!Serve(s) \/ Atomic!Repeat(s) \/ Atomic!Fail(s)
        \/ UNCHANGED Atomic!vars
    BY <1>3, <2>1, <2>2, StepImplements
  <2> QED
    BY <2>3 DEF Atomic!Next
<1> QED
  BY <1>1, <1>2, <1>3 DEF Next, Finished

\* Concurrent postings and batches are linearizable: with amounts in whole
\* cents, and no batch that runs from the default ledger into another, every
\* behaviour of CreateTransaction and CreateTransactionsBatch, with any number
\* of sessions, failures and retries, is one of the atomic ledger.
THEOREM CallsImplementAtomic == Grain = 1 /\ BatchesInOneLedger => (Spec => CallsAreAtomic)
<1> SUFFICES ASSUME Grain = 1, BatchesInOneLedger PROVE Spec => CallsAreAtomic
  OBVIOUS
<1>1. Init => Atomic!Init
  <2> SUFFICES ASSUME Init PROVE Atomic!Init
    OBVIOUS
  <2>1. Outcome = [s \in Session |-> Atomic!Told(s, "open", 0)]
    BY SameCalls DEF Init, Outcome
  <2> QED
    BY <2>1 DEF Init, Atomic!Init, Outcome, Zero
<1>2. IInv /\ KeysNameTransactions /\ AnswersFollowDecisions /\ CallsStand /\ [Next]_vars
        => [Atomic!Next]_(Atomic!vars)
  BY NextImplements
<1> QED
  BY <1>1, <1>2, Invariance, Idempotency, AnswersInvariant, StandingInvariant, PTL
  DEF Spec, CallsAreAtomic, Atomic!Spec

-----------------------------------------------------------------------------
(* What posting_cents and posting_ledgers refute holds for clients that     *)
(* avoid the two causes.                                                    *)

\* What an accepted posting is.
LEMMA AcceptedPosting ==
  ASSUME IInv, NEW s \in Session, CallStands(s), pc[s] = "commit", NEW i \in Accepted(s)
  PROVE  /\ Posting(s, i) \in Seq(Entry) /\ i \in Indices(s)
         /\ ValidateTransaction(Posting(s, i)) /\ AccountsOf(Posting(s, i)) \subseteq AccountId
<1>1. i \in Indices(s) /\ Posting(s, i) \in Seq(Entry)
  BY AcceptedFacts, PostingFacts
<1>2. Prepared(Posting(s, i))
  BY <1>1 DEF CallStands, DecisionsRight, StillRight
<1> QED
  BY <1>1, <1>2 DEF Prepared, Parses

\* With amounts in whole cents, whatever interleaves and fails, every
\* transaction that reaches the journal balances.
THEOREM StoredInBalance == Grain = 1 => (Spec => []StoredTransactionsBalance)
<1> SUFFICES ASSUME Grain = 1 PROVE Spec => []StoredTransactionsBalance
  OBVIOUS
<1>1. Init => StoredTransactionsBalance
  BY DEF Init, StoredTransactionsBalance
<1>2. IInv /\ CallsStand /\ StoredTransactionsBalance /\ [Next]_vars => StoredTransactionsBalance'
  <2> SUFFICES ASSUME IInv, CallsStand, StoredTransactionsBalance, [Next]_vars
               PROVE  StoredTransactionsBalance'
    OBVIOUS
  <2>1. CASE UNCHANGED <<txns, keys, outbox>>
    BY <2>1 DEF StoredTransactionsBalance
  <2>2. ASSUME NEW s \in Session, pc[s] = "commit", CommitWrites(s), NEW n \in DOMAIN txns'
        PROVE  Total(DebitOf, txns'[n].entries) = Total(CreditOf, txns'[n].entries)
    <3>1. /\ Len(txns) \in Nat /\ Len(accepted[s]) \in Nat /\ DOMAIN txns = 1..Len(txns)
          /\ DOMAIN txns' = 1..(Len(txns) + Len(accepted[s]))
          /\ \A i \in 1..Len(txns) : txns'[i] = txns[i]
          /\ \A i \in 1..Len(accepted[s]) : txns'[Len(txns) + i] = NewRow(s, accepted[s][i])
      BY <2>2, CommitEffect
    <3>2. CASE n \in 1..Len(txns)
      BY <3>1, <3>2 DEF StoredTransactionsBalance
    <3>3. CASE n \notin 1..Len(txns)
      <4>1. PICK j \in 1..Len(accepted[s]) : n = Len(txns) + j
        <5>1. n - Len(txns) \in 1..Len(accepted[s]) /\ n = Len(txns) + (n - Len(txns))
          BY <2>2, <3>1, <3>3
        <5> QED
          BY <5>1
      <4>2. PICK i : i = accepted[s][j]
        OBVIOUS
      <4>3. i \in Accepted(s)
        BY <4>1, <4>2, AcceptedFacts DEF Accepted
      <4>4. Posting(s, i) \in Seq(Entry) /\ ValidateTransaction(Posting(s, i))
        BY <2>2, <4>3, AcceptedPosting DEF CallsStand
      <4>5. txns'[n].entries = Posting(s, i)
        <5>1. txns'[n] = NewRow(s, i)
          BY <3>1, <4>1, <4>2
        <5>2. NewRow(s, i).entries = Stored(Posting(s, i))
          BY DEF NewRow
        <5> QED
          BY <4>4, <5>1, <5>2, StoredWhole
      <4>6. Total(DebitOf, Posting(s, i)) = Total(CreditOf, Posting(s, i))
        BY <4>4 DEF ValidateTransaction
      <4> QED
        BY <4>5, <4>6
    <3> QED
      BY <3>2, <3>3
  <2>3. ASSUME NEW s \in Session, pc[s] = "commit", CommitWrites(s)
        PROVE  StoredTransactionsBalance'
    BY <2>2, <2>3 DEF StoredTransactionsBalance
  <2> QED
    BY <2>1, <2>3, OnlyCommitsWrite
<1> QED
  BY <1>1, <1>2, Invariance, StandingInvariant, PTL DEF Spec

\* The accounts of a ledger.
OfLedger(l) == {a \in AccountId : LedgerOf[a] = l}

\* A valid posting within one ledger adds nothing to any ledger as a whole.
LEMMA LedgerUntouched ==
  ASSUME NEW p \in Seq(Entry), ValidateTransaction(p), AccountsOf(p) \subseteq AccountId,
         OneLedger(p), NEW l
  PROVE  SumFunctionOnSet([a \in OfLedger(l) |-> Change(p, a)], OfLedger(l)) = 0
<1>1. IsFiniteSet(OfLedger(l))
  BY AccountAssumption, FS_Subset DEF OfLedger
<1>2. CASE AccountsOf(p) \subseteq OfLedger(l)
  <2>1. IsFiniteSet(DOMAIN p)
    <3>1. DOMAIN p = 1..Len(p) /\ Len(p) \in Nat
      OBVIOUS
    <3> QED
      BY <3>1, FS_Interval
  <2>2. \A k \in DOMAIN p : p[k].debit \in Int /\ p[k].credit \in Int
    <3>1. \A k \in DOMAIN p : p[k] \in Entry
      OBVIOUS
    <3> QED
      BY <3>1 DEF Entry
  <2> QED
    BY <1>1, <1>2, <2>1, <2>2, EffectsCancel
<1>3. CASE ~(AccountsOf(p) \subseteq OfLedger(l))
  <2>1. \A a \in OfLedger(l) : a \notin AccountsOf(p)
    BY <1>3 DEF OneLedger, OfLedger
  <2>2. \A a \in OfLedger(l) : Change(p, a) = 0
    BY <2>1, ChangeOutside
  <2> DEFINE h == [a \in OfLedger(l) |-> Change(p, a)]
  <2>3. \A a \in OfLedger(l) : h[a] = 0
    BY <2>2
  <2> HIDE DEF h
  <2>4. SumFunctionOnSet(h, OfLedger(l)) = 0
    BY <1>1, <2>3, SumZero
  <2> QED
    BY <2>4 DEF h
<1> QED
  BY <1>2, <1>3

\* Nor do the accepted postings of a call together.
LEMMA CallMovesWithinLedgers ==
  ASSUME IInv, NEW s \in Session, CallStands(s), pc[s] = "commit",
         \A i \in Accepted(s) : OneLedger(Posting(s, i)), NEW l
  PROVE  SumFunctionOnSet([a \in OfLedger(l) |-> Added(s, Accepted(s), a)], OfLedger(l)) = 0
<1>1. PICK S : S = Accepted(s)
  OBVIOUS
<1> DEFINE A == OfLedger(l)
           h(T) == [a \in A |-> Added(s, T, a)]
           P == {T \in SUBSET S : SumFunctionOnSet(h(T), A) = 0}
<1>2. S \subseteq Indices(s) /\ IsFiniteSet(S) /\ IsFiniteSet(A)
  BY <1>1, AcceptedFacts, PostingFacts, AccountAssumption, FS_Subset DEF OfLedger
<1>3. \A T \in SUBSET S : \A a : Added(s, T, a) \in Int
  BY <1>2, AddedFacts
<1>4. {} \in P
  <2>1. \A a \in A : h({})[a] = 0
    BY <1>2, AddedFacts
  <2>2. PICK g : g = h({})
    OBVIOUS
  <2>3. SumFunctionOnSet(g, A) = 0
    BY <1>2, <2>1, <2>2, SumZero
  <2> QED
    BY <2>2, <2>3
<1>5. ASSUME NEW T \in SUBSET S, NEW i \in S \ T, T \in P PROVE T \cup {i} \in P
  <2>1. PICK f : f = h(T)
    OBVIOUS
  <2>2. PICK g : g = [a \in A |-> Change(Posting(s, i), a)]
    OBVIOUS
  <2>3. PICK k : k = h(T \cup {i})
    OBVIOUS
  <2>4. i \in Indices(s) /\ i \in Accepted(s)
    BY <1>1, <1>2
  <2>5. \A a \in A : f[a] \in Int /\ g[a] \in Int /\ k[a] = f[a] + g[a]
    <3> SUFFICES ASSUME NEW a \in A PROVE f[a] \in Int /\ g[a] \in Int /\ k[a] = f[a] + g[a]
      OBVIOUS
    <3>1. f[a] = Added(s, T, a) /\ g[a] = Change(Posting(s, i), a) /\ k[a] = Added(s, T \cup {i}, a)
      BY <2>1, <2>2, <2>3
    <3>2. Added(s, T \cup {i}, a) = Added(s, T, a) + Change(Posting(s, i), a)
      BY <1>2, <1>5, <2>4, AddedFacts
    <3>3. Change(Posting(s, i), a) \in Int
      BY <2>4, PostingFacts
    <3> QED
      BY <1>3, <3>1, <3>2, <3>3
  <2>6. SumFunctionOnSet(f, A) = 0
    BY <1>5, <2>1
  <2>7. SumFunctionOnSet(g, A) = 0
    BY <2>2, <2>4, AcceptedPosting, LedgerUntouched
  <2>8. SumFunctionOnSet(k, A) = SumFunctionOnSet(f, A) + SumFunctionOnSet(g, A)
    BY <1>2, <2>5, SumPlus
  <2>9. SumFunctionOnSet(k, A) = 0
    BY <2>6, <2>7, <2>8
  <2> QED
    BY <2>3, <2>9
<1>6. S \in P
  <2> HIDE DEF P
  <2> QED
    BY <1>2, <1>4, <1>5, FiniteInduction
<1> QED
  BY <1>1, <1>6

\* With amounts in whole cents, and no batch that runs from the default ledger
\* into another, no value crosses a ledger boundary.
THEOREM LedgersInBalance == Grain = 1 /\ BatchesInOneLedger => (Spec => []LedgersBalance)
<1> SUFFICES ASSUME Grain = 1, BatchesInOneLedger PROVE Spec => []LedgersBalance
  OBVIOUS
<1>1. Init => LedgersBalance
  <2> SUFFICES ASSUME Init, NEW l \in Ledger PROVE SumFunctionOnSet(balance, OfLedger(l)) = 0
    BY DEF Init, LedgersBalance, OfLedger
  <2>1. IsFiniteSet(OfLedger(l))
    BY AccountAssumption, FS_Subset DEF OfLedger
  <2>2. \A a \in OfLedger(l) : balance[a] = 0
    BY DEF Init, Zero, OfLedger
  <2> QED
    BY <2>1, <2>2, SumZero
<1>2. IInv /\ CallsStand /\ LedgersBalance /\ [Next]_vars => LedgersBalance'
  <2> SUFFICES ASSUME IInv, CallsStand, LedgersBalance, [Next]_vars PROVE LedgersBalance'
    OBVIOUS
  <2>1. CASE UNCHANGED <<balance, txns>>
    BY <2>1 DEF LedgersBalance
  <2>2. ASSUME NEW s \in Session, pc[s] = "commit", CommitWrites(s)
        PROVE  LedgersBalance'
    <3>1. CallStands(s)
      BY DEF CallsStand
    <3>2. \A i \in Accepted(s) : OneLedger(Posting(s, i))
      BY <2>2, <3>1, AcceptedInOneLedger
    <3>3. ASSUME NEW l \in Ledger PROVE SumFunctionOnSet(balance', OfLedger(l)) = 0
      <4>1. IsFiniteSet(OfLedger(l)) /\ OfLedger(l) \subseteq AccountId
        BY AccountAssumption, FS_Subset DEF OfLedger
      <4>2. PICK g : g = [a \in OfLedger(l) |-> Added(s, Accepted(s), a)]
        OBVIOUS
      <4>3. \A a \in OfLedger(l) :
              balance[a] \in Int /\ g[a] \in Int /\ balance'[a] = balance[a] + g[a]
        <5>1. balance' = [a \in AccountId |-> balance[a] + Added(s, Accepted(s), a)]
          BY <2>2, <3>1, SameBalances, SameAfter DEF CommitWrites
        <5>2. \A a : Added(s, Accepted(s), a) \in Int
          BY AddedFacts, AcceptedFacts
        <5> QED
          BY <4>1, <4>2, <5>1, <5>2 DEF IInv, TypeOK
      <4>4. SumFunctionOnSet(balance, OfLedger(l)) = 0
        BY DEF LedgersBalance, OfLedger
      <4>5. SumFunctionOnSet(g, OfLedger(l)) = 0
        BY <2>2, <3>1, <3>2, <4>2, CallMovesWithinLedgers
      <4>6. SumFunctionOnSet(balance', OfLedger(l))
              = SumFunctionOnSet(balance, OfLedger(l)) + SumFunctionOnSet(g, OfLedger(l))
        BY <4>1, <4>3, SumPlus
      <4> QED
        BY <4>4, <4>5, <4>6
    <3>4. ASSUME NEW n \in DOMAIN txns', NEW a \in AccountsOf(txns'[n].entries)
          PROVE  LedgerOf[a] = txns'[n].ledger
      <4>1. /\ Len(txns) \in Nat /\ Len(accepted[s]) \in Nat /\ DOMAIN txns = 1..Len(txns)
            /\ DOMAIN txns' = 1..(Len(txns) + Len(accepted[s]))
            /\ \A i \in 1..Len(txns) : txns'[i] = txns[i]
            /\ \A i \in 1..Len(accepted[s]) : txns'[Len(txns) + i] = NewRow(s, accepted[s][i])
        BY <2>2, CommitEffect
      <4>2. CASE n \in 1..Len(txns)
        BY <3>4, <4>1, <4>2 DEF LedgersBalance
      <4>3. CASE n \notin 1..Len(txns)
        <5>1. PICK j \in 1..Len(accepted[s]) : n = Len(txns) + j
          <6>1. n - Len(txns) \in 1..Len(accepted[s]) /\ n = Len(txns) + (n - Len(txns))
            BY <3>4, <4>1, <4>3
          <6> QED
            BY <6>1
        <5>2. PICK i : i = accepted[s][j]
          OBVIOUS
        <5>3. i \in Accepted(s) /\ Posting(s, i) \in Seq(Entry)
          <6>1. i \in Accepted(s)
            BY <5>1, <5>2, AcceptedFacts DEF Accepted
          <6> QED
            BY <2>2, <3>1, <6>1, AcceptedPosting
        <5>4. txns'[n] = NewRow(s, i)
          BY <4>1, <5>1, <5>2
        <5>5. NewRow(s, i).entries = Posting(s, i) /\ NewRow(s, i).ledger = PostingLedger(Posting(s, i))
          <6>1. Stored(Posting(s, i)) = Posting(s, i)
            BY <5>3, StoredWhole
          <6> QED
            BY <6>1 DEF NewRow
        <5>6. a \in AccountsOf(Posting(s, i))
          BY <3>4, <5>4, <5>5
        <5>7. PostingLedger(Posting(s, i)) = LedgerOf[a]
          BY <3>2, <5>3, <5>6, LedgerOfPosting
        <5> QED
          BY <5>4, <5>5, <5>7
      <4> QED
        BY <4>2, <4>3
    <3> QED
      BY <3>3, <3>4 DEF LedgersBalance, OfLedger
  <2>3. \/ UNCHANGED <<balance, txns>>
        \/ \E s \in Session : pc[s] = "commit" /\ CommitWrites(s)
    <3>1. CASE UNCHANGED vars
      BY <3>1 DEF vars, tables
    <3>2. CASE \E a \in AccountId : CreateAccount(a)
      BY <3>2 DEF CreateAccount
    <3> QED
      BY <3>1, <3>2, WritesAtCommit DEF Next, Finished, tables
  <2> QED
    BY <2>1, <2>2, <2>3
<1> QED
  BY <1>1, <1>2, Invariance, StandingInvariant, PTL DEF Spec
=============================================================================
