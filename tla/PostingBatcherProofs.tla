------------------------ MODULE PostingBatcherProofs ------------------------
(***************************************************************************)
(* Machine-checked proofs about PostingBatcher, for every set of calls and *)
(* of workers and every batch size the store takes.                        *)
(***************************************************************************)
EXTENDS PostingBatcher, SequenceTheorems, FiniteSetTheorems, TLAPS

\* The request of a call is nowhere twice.
RequestsAreUnique ==
  /\ IsInjective(queue)
  /\ \A w \in Worker : IsInjective(batch[w]) /\ Range(queue) \cap Range(batch[w]) = {}
  /\ \A v, w \in Worker : v # w => Range(batch[v]) \cap Range(batch[w]) = {}
  /\ \A c \in Client : response[c] # <<>> =>
       c \notin Range(queue) /\ \A w \in Worker : c \notin Range(batch[w])

\* The calls that wait are those whose request, or answer, is somewhere.
WaitersAreServed ==
  \A c \in Client : pc[c] = "wait" <=>
    \/ c \in Range(queue)
    \/ response[c] # <<>>
    \/ \E w \in Worker : c \in Range(batch[w])

\* What a worker holds at each point of its loop.
WorkersAdvance ==
  \A w \in Worker :
    /\ batch[w] = <<>> <=> wpc[w] \in {"first", "exited"}
    /\ Len(batch[w]) <= MaxBatch
    /\ wpc[w] # "reply" => results[w] = <<>>
    /\ wpc[w] = "reply" => Len(results[w]) = Len(batch[w])
    /\ wpc[w] = "exited" => closed /\ queue = <<>>

\* What Close has done.
CloseAdvances ==
  /\ closed <=> closer # "running"
  /\ closer = "returned" => \A w \in Worker : wpc[w] = "exited"

\* An answer to call c that agrees with the number of its transactions.
Agrees(n, c, r) ==
  /\ r \in {Posted(c), Refused, Lost}
  /\ n <= 1
  /\ r = Posted(c) => n = 1
  /\ r = Refused => n = 0

Fits(c, r) == Agrees(journal[c], c, r)

\* Nothing of a call is posted before its batch is, and every answer on its
\* way agrees with what was posted.
AnswersFit ==
  /\ \A c \in Client :
       /\ pc[c] \in {"idle", "send", "panicked"} => journal[c] = 0
       /\ pc[c] # "done" => result[c] = Open
       /\ c \in Range(queue) => journal[c] = 0
       /\ response[c] # <<>> => Fits(c, Head(response[c]))
       /\ pc[c] = "done" => Fits(c, result[c])
  /\ \A w \in Worker :
       /\ wpc[w] = "collect" => \A c \in Range(batch[w]) : journal[c] = 0
       /\ wpc[w] = "reply" => \A k \in DOMAIN batch[w] : Fits(batch[w][k], results[w][k])

\* The inductive invariant.
IInv ==
  /\ TypeOK
  /\ RequestsAreUnique
  /\ WaitersAreServed
  /\ WorkersAdvance
  /\ CloseAdvances
  /\ AnswersFit

-----------------------------------------------------------------------------
(* Sequences without duplicates.                                           *)

\* What a channel yields: its head is gone from what is left.
LEMMA TakeHead ==
  ASSUME NEW T, NEW s \in Seq(T), s # <<>>, IsInjective(s)
  PROVE  /\ Head(s) \in T /\ Head(s) \in Range(s)
         /\ Tail(s) \in Seq(T) /\ Len(Tail(s)) = Len(s) - 1
         /\ IsInjective(Tail(s))
         /\ Range(Tail(s)) = Range(s) \ {Head(s)}
<1>1. /\ Len(s) \in Nat \ {0} /\ DOMAIN s = 1..Len(s)
      /\ Head(s) \in T /\ Tail(s) \in Seq(T)
      /\ Len(Tail(s)) = Len(s) - 1
      /\ \A i \in 1..Len(Tail(s)) : Tail(s)[i] = s[i + 1]
  BY HeadTailProperties, EmptySeq, LenProperties
<1>2. Head(s) = s[1] /\ DOMAIN Tail(s) = 1..(Len(s) - 1)
  BY <1>1, LenProperties
<1>3. IsInjective(Tail(s))
  BY <1>1, <1>2 DEF IsInjective
<1>4. Range(Tail(s)) \subseteq Range(s) \ {Head(s)}
  BY <1>1, <1>2 DEF Range, IsInjective
<1>5. ASSUME NEW x \in Range(s) \ {Head(s)}
      PROVE  x \in Range(Tail(s))
  <2>1. PICK i \in 1..Len(s) : x = s[i]
    BY <1>1 DEF Range
  <2>2. i # 1
    BY <1>2, <2>1
  <2>3. i - 1 \in 1..(Len(s) - 1) /\ Tail(s)[i - 1] = s[i]
    BY <1>1, <2>1, <2>2
  <2> QED
    BY <1>2, <2>1, <2>3 DEF Range
<1> QED
  BY <1>1, <1>2, <1>3, <1>4, <1>5, SMTT(30) DEF Range

\* What a send puts into a channel, or a worker into its batch.
LEMMA AppendNew ==
  ASSUME NEW T, NEW s \in Seq(T), NEW x \in T, x \notin Range(s), IsInjective(s)
  PROVE  /\ Append(s, x) \in Seq(T) /\ Len(Append(s, x)) = Len(s) + 1
         /\ IsInjective(Append(s, x))
         /\ Range(Append(s, x)) = Range(s) \cup {x}
         /\ Append(s, x) # <<>>
<1> DEFINE t == Append(s, x)
<1>1. /\ Len(s) \in Nat /\ DOMAIN s = 1..Len(s)
      /\ t \in Seq(T) /\ Len(t) = Len(s) + 1 /\ DOMAIN t = 1..(Len(s) + 1)
      /\ \A i \in 1..Len(s) : t[i] = s[i]
      /\ t[Len(s) + 1] = x
  BY AppendProperties, LenProperties
<1> HIDE DEF t
<1>2. IsInjective(t)
  BY <1>1 DEF IsInjective, Range
<1>3. Range(t) = Range(s) \cup {x}
  <2>1. Range(t) \subseteq Range(s) \cup {x}
    BY <1>1 DEF Range
  <2>2. Range(s) \subseteq Range(t)
    BY <1>1 DEF Range
  <2>3. x \in Range(t)
    BY <1>1 DEF Range
  <2> QED
    BY <2>1, <2>2, <2>3
<1>4. t # <<>>
  BY <1>1
<1> QED
  BY <1>1, <1>2, <1>3, <1>4 DEF t

\* The sequences of one element and of none.
LEMMA ShortSequences ==
  /\ \A x : IsInjective(<<x>>) /\ Range(<<x>>) = {x} /\ Len(<<x>>) = 1 /\ <<x>> # <<>>
  /\ IsInjective(<<>>) /\ Range(<<>>) = {} /\ Len(<<>>) = 0
  BY DEF IsInjective, Range

-----------------------------------------------------------------------------
(* The initial state and the calls.                                        *)

\* The capacity of the channel, as make takes it.
LEMMA CapacityNat == Capacity \in Nat /\ MaxBatch \in Nat /\ MaxBatch <= MaxPostingBatchSize
<1>1. Cardinality(Worker) \in Nat /\ MaxBatch \in Nat
  BY BatcherAssumption, FS_CardinalityType
<1> QED
  BY <1>1, BatcherAssumption DEF Capacity

\* The store as NewBatchingPostgresStore leaves it.
LEMMA InitIInv == Init => IInv
<1> SUFFICES ASSUME Init PROVE IInv
  OBVIOUS
<1> USE DEF Init
<1>1. TypeOK
  <2>1. <<>> \in Seq(Client) /\ <<>> \in Seq(Result) /\ Len(<<>>) = 0
    BY EmptySeq
  <2>2. Open \in Result
    BY DEF Result
  <2>3. 0 <= Capacity /\ 0 <= MaxPostingBatchSize
    BY CapacityNat, BatcherAssumption
  <2> HIDE DEF Init
  <2>4. response \in [Client -> {<<>>} \cup {<<r>> : r \in Result}] /\ result \in [Client -> Result]
    BY <2>2 DEF Init
  <2>5. batch \in [Worker -> Seq(Client)] /\ results \in [Worker -> Seq(Result)]
    BY <2>1 DEF Init
  <2>6. \A w \in Worker : Len(batch[w]) <= MaxPostingBatchSize
    BY <2>1, <2>3 DEF Init
  <2> QED
    BY <2>1, <2>3, <2>4, <2>5, <2>6 DEF TypeOK, Init
<1>2. RequestsAreUnique /\ WaitersAreServed
  BY ShortSequences DEF RequestsAreUnique, WaitersAreServed
<1>3. WorkersAdvance /\ CloseAdvances
  BY CapacityNat DEF WorkersAdvance, CloseAdvances
<1>4. AnswersFit
  BY ShortSequences DEF AnswersFit
<1> QED
  BY <1>1, <1>2, <1>3, <1>4 DEF IInv

\* Answers are told apart by their status.
LEMMA ResultsDiffer ==
  ASSUME NEW c
  PROVE  Posted(c) # Refused /\ Posted(c) # Lost /\ Refused # Lost
<1>1. Posted(c).status = "posted" /\ Refused.status = "refused" /\ Lost.status = "lost"
  BY DEF Posted, Refused, Lost
<1> QED
  BY <1>1

\* The calls' steps that neither put a request anywhere nor take one.
LEMMA SubmitKeeps ==
  ASSUME IInv, NEW c \in Client, Submit(c) \/ Direct(c)
  PROVE  IInv'
<1>1. pc[c] = "idle" /\ journal[c] = 0 /\ UNCHANGED <<queue, closed, response, closer, workerVars>>
  BY DEF Submit, Direct, IInv, AnswersFit
<1>2. PICK r \in {Open, Posted(c), Refused, Lost}, n \in 0..1, l \in {"send", "done"} :
        /\ pc' = [pc EXCEPT ![c] = l]
        /\ result' = [result EXCEPT ![c] = r]
        /\ journal' = [journal EXCEPT ![c] = n]
        /\ l = "send" => r = Open /\ n = 0
        /\ l = "done" => /\ r # Open
                         /\ r = Posted(c) => n = 1
                         /\ r = Refused => n = 0
  <2>1. /\ Open # Posted(c) /\ Open # Refused /\ Open # Lost
    <3>1. Open.status = "open" /\ Posted(c).status = "posted"
          /\ Refused.status = "refused" /\ Lost.status = "lost"
      BY DEF Open, Posted, Refused, Lost
    <3> QED
      BY <3>1
  <2>2. /\ journal = [journal EXCEPT ![c] = 0]
        /\ result[c] = Open
        /\ result = [result EXCEPT ![c] = Open]
    BY <1>1 DEF IInv, TypeOK, AnswersFit
  <2>3. CASE Submit(c)
    <3>1. CASE ReturnResult(c, Refused)
      BY <2>1, <2>2, <2>3, <3>1, ResultsDiffer DEF Submit, ReturnResult
    <3>2. CASE pc' = [pc EXCEPT ![c] = "send"] /\ UNCHANGED result
      BY <2>1, <2>2, <2>3, <3>2 DEF Submit
    <3> QED
      BY <2>3, <3>1, <3>2 DEF Submit
  <2>4. CASE Direct(c)
    <3>1. CASE ReturnResult(c, Refused) /\ UNCHANGED journal
      BY <2>1, <2>2, <3>1, ResultsDiffer DEF ReturnResult
    <3>2. CASE journal' = [journal EXCEPT ![c] = @ + 1] /\ ReturnResult(c, Posted(c))
      BY <1>1, <2>1, <3>2, ResultsDiffer DEF ReturnResult
    <3>3. CASE journal' = [journal EXCEPT ![c] = @ + 1] /\ ReturnResult(c, Lost)
      BY <1>1, <2>1, <3>3, ResultsDiffer DEF ReturnResult
    <3> QED
      BY <2>4, <3>1, <3>2, <3>3 DEF Direct
  <2> QED
    BY <2>3, <2>4
<1>3. /\ pc'[c] = l /\ result'[c] = r /\ journal'[c] = n
      /\ \A d \in Client \ {c} : pc'[d] = pc[d] /\ result'[d] = result[d] /\ journal'[d] = journal[d]
  BY <1>2 DEF IInv, TypeOK
<1>4. TypeOK'
  <2>1. r \in Result
    BY <1>2 DEF Result
  <2>2. result' \in [Client -> Result] /\ journal' \in [Client -> Nat]
    BY <1>2, <2>1 DEF IInv, TypeOK
  <2> QED
    BY <1>1, <1>2, <2>2 DEF IInv, TypeOK, workerVars
<1>5. RequestsAreUnique' /\ WorkersAdvance' /\ CloseAdvances'
  BY <1>1 DEF IInv, RequestsAreUnique, WorkersAdvance, CloseAdvances, workerVars
<1>6. WaitersAreServed'
  BY <1>1, <1>2, <1>3 DEF IInv, WaitersAreServed, workerVars
<1>7. /\ c \notin Range(queue) /\ response[c] = <<>>
      /\ \A w \in Worker : c \notin Range(batch[w])
  BY <1>1 DEF IInv, WaitersAreServed
<1>8. AnswersFit'
  <2>1. ASSUME NEW d \in Client, d # c, NEW x
        PROVE  Fits(d, x)' <=> Fits(d, x)
    BY <1>3, <2>1 DEF Fits, Agrees
  <2>2. l = "done" => Fits(c, r)'
    BY <1>2, <1>3 DEF Fits, Agrees
  <2>3. \A d \in Client \ {c} :
          /\ pc'[d] \in {"idle", "send", "panicked"} => journal'[d] = 0
          /\ pc'[d] # "done" => result'[d] = Open
          /\ d \in Range(queue') => journal'[d] = 0
          /\ response'[d] # <<>> => Fits(d, Head(response[d]))'
          /\ pc'[d] = "done" => Fits(d, result[d])'
    BY <1>1, <1>3, <2>1 DEF IInv, AnswersFit
  <2>4. /\ pc'[c] \in {"idle", "send", "panicked"} => journal'[c] = 0
        /\ pc'[c] # "done" => result'[c] = Open
        /\ c \notin Range(queue') /\ response'[c] = <<>>
        /\ pc'[c] = "done" => Fits(c, result[c])'
    BY <1>1, <1>2, <1>3, <1>7, <2>2
  <2>5. ASSUME NEW w \in Worker
        PROVE  /\ wpc'[w] = "collect" => \A d \in Range(batch'[w]) : journal'[d] = 0
               /\ wpc'[w] = "reply" => \A k \in DOMAIN batch'[w] : Fits(batch[w][k], results[w][k])'
    <3>1. \A d \in Range(batch[w]) : d \in Client /\ d # c
      BY <1>7, ElementOfSeq, LenProperties DEF IInv, TypeOK, Range
    <3>2. \A k \in DOMAIN batch[w] : batch[w][k] \in Range(batch[w])
      BY DEF Range
    <3> QED
      BY <1>1, <1>3, <2>1, <3>1, <3>2 DEF IInv, AnswersFit, workerVars
  <2> QED
    BY <2>3, <2>4, <2>5 DEF AnswersFit
<1> QED
  BY <1>4, <1>5, <1>6, <1>8 DEF IInv

\* The requests are of calls.
LEMMA RequestsAreCalls ==
  ASSUME TypeOK
  PROVE  /\ Range(queue) \subseteq Client
         /\ \A w \in Worker : Range(batch[w]) \subseteq Client
         /\ \A w \in Worker : \A k \in DOMAIN batch[w] :
              batch[w][k] \in Client /\ batch[w][k] \in Range(batch[w])
  BY ElementOfSeq, LenProperties DEF TypeOK, Range

\* A request enters the channel, or finds it closed.
LEMMA SendKeeps ==
  ASSUME IInv, NEW c \in Client, Send(c)
  PROVE  IInv'
<1>1. /\ pc[c] = "send" /\ journal[c] = 0
      /\ c \notin Range(queue) /\ response[c] = <<>>
      /\ \A w \in Worker : c \notin Range(batch[w])
      /\ UNCHANGED <<closed, response, result, closer, journal, workerVars>>
  BY DEF Send, IInv, AnswersFit, WaitersAreServed
<1>2. CloseAdvances'
  BY <1>1 DEF IInv, CloseAdvances, workerVars
<1>3. CASE closed /\ pc' = [pc EXCEPT ![c] = "panicked"] /\ UNCHANGED queue
  <2>1. TypeOK'
    BY <1>1, <1>3 DEF IInv, TypeOK, workerVars
  <2>2. RequestsAreUnique' /\ WorkersAdvance'
    BY <1>1, <1>3 DEF IInv, RequestsAreUnique, WorkersAdvance, workerVars
  <2>3. pc'[c] = "panicked" /\ \A d \in Client \ {c} : pc'[d] = pc[d]
    BY <1>3 DEF IInv, TypeOK
  <2>4. WaitersAreServed'
    BY <1>1, <1>3, <2>3 DEF IInv, WaitersAreServed, workerVars
  <2>5. AnswersFit'
    BY <1>1, <1>3, <2>3 DEF IInv, AnswersFit, Fits, Agrees, workerVars
  <2> QED
    BY <1>2, <2>1, <2>2, <2>4, <2>5 DEF IInv
<1>4. CASE /\ ~closed
           /\ Len(queue) < Capacity
           /\ queue' = Append(queue, c)
           /\ pc' = [pc EXCEPT ![c] = "wait"]
  <2>1. pc'[c] = "wait" /\ \A d \in Client \ {c} : pc'[d] = pc[d]
    BY <1>4 DEF IInv, TypeOK
  <2>2. /\ queue' \in Seq(Client) /\ Len(queue') = Len(queue) + 1
        /\ IsInjective(queue') /\ Range(queue') = Range(queue) \cup {c}
    BY <1>1, <1>4, AppendNew DEF IInv, TypeOK, RequestsAreUnique
  <2>3. Len(queue') <= Capacity
    <3>1. Len(queue) \in Nat
      BY LenProperties DEF IInv, TypeOK
    <3> QED
      BY <1>4, <2>2, <3>1, CapacityNat
  <2>4. TypeOK'
    BY <1>1, <1>4, <2>2, <2>3 DEF IInv, TypeOK, workerVars
  <2>5. RequestsAreUnique'
    BY <1>1, <2>2 DEF IInv, RequestsAreUnique, workerVars
  <2>6. WaitersAreServed'
    BY <1>1, <2>1, <2>2 DEF IInv, WaitersAreServed, workerVars
  <2>7. WorkersAdvance'
    BY <1>1, <1>4 DEF IInv, WorkersAdvance, workerVars
  <2>8. AnswersFit'
    BY <1>1, <2>1, <2>2 DEF IInv, AnswersFit, Fits, Agrees, workerVars
  <2> QED
    BY <1>2, <2>4, <2>5, <2>6, <2>7, <2>8 DEF IInv
<1> QED
  BY <1>3, <1>4 DEF Send

\* A call takes its answer out of its own channel.
LEMMA ReceiveKeeps ==
  ASSUME IInv, NEW c \in Client, Receive(c)
  PROVE  IInv'
<1> DEFINE r == Head(response[c])
<1>1. /\ pc[c] = "wait" /\ response[c] # <<>>
      /\ pc' = [pc EXCEPT ![c] = "done"] /\ result' = [result EXCEPT ![c] = r]
      /\ response' = [response EXCEPT ![c] = Tail(@)]
      /\ UNCHANGED <<queue, closed, closer, journal, workerVars>>
  BY DEF Receive, ReturnResult
<1>2. PICK x \in Result : response[c] = <<x>>
  BY <1>1 DEF IInv, TypeOK
<1>3. r = x /\ Tail(response[c]) = <<>>
  BY <1>2
<1>4. Fits(c, r)
  BY <1>1 DEF IInv, AnswersFit
<1> HIDE DEF r
<1>5. /\ pc'[c] = "done" /\ result'[c] = r /\ response'[c] = <<>>
      /\ \A d \in Client \ {c} :
           pc'[d] = pc[d] /\ result'[d] = result[d] /\ response'[d] = response[d]
  BY <1>1, <1>3 DEF IInv, TypeOK
<1>6. TypeOK'
  <2>1. result' \in [Client -> Result]
    BY <1>1, <1>3 DEF IInv, TypeOK
  <2>2. response' \in [Client -> {<<>>} \cup {<<y>> : y \in Result}]
    BY <1>1, <1>3 DEF IInv, TypeOK
  <2> QED
    BY <1>1, <2>1, <2>2 DEF IInv, TypeOK, workerVars
<1>7. /\ c \notin Range(queue)
      /\ \A w \in Worker : c \notin Range(batch[w])
  BY <1>1 DEF IInv, RequestsAreUnique
<1>8. RequestsAreUnique'
  BY <1>1, <1>5 DEF IInv, RequestsAreUnique, workerVars
<1>9. WaitersAreServed'
  BY <1>1, <1>5, <1>7 DEF IInv, WaitersAreServed, workerVars
<1>10. WorkersAdvance' /\ CloseAdvances'
  BY <1>1 DEF IInv, WorkersAdvance, CloseAdvances, workerVars
<1>11. AnswersFit'
  BY <1>1, <1>4, <1>5 DEF IInv, AnswersFit, Fits, Agrees, workerVars
<1> QED
  BY <1>6, <1>8, <1>9, <1>10, <1>11 DEF IInv

-----------------------------------------------------------------------------
(* The workers.                                                            *)

\* A request that goes from the channel into the batch of a worker.
LEMMA MoveKeeps ==
  ASSUME RequestsAreUnique, WaitersAreServed, NEW w \in Worker, NEW h \in Range(queue),
         IsInjective(queue'), Range(queue') = Range(queue) \ {h},
         IsInjective(batch'[w]), Range(batch'[w]) = Range(batch[w]) \cup {h},
         \A v \in Worker \ {w} : batch'[v] = batch[v],
         UNCHANGED <<response, pc>>
  PROVE  RequestsAreUnique' /\ WaitersAreServed'
<1>1. \A v \in Worker : /\ IsInjective(batch'[v])
                        /\ Range(batch'[v]) \subseteq Range(batch[v]) \cup {h}
                        /\ h \in Range(batch'[v]) => v = w
                        /\ h \notin Range(batch[v])
  BY DEF RequestsAreUnique
<1>2. \A v \in Worker : Range(queue') \cap Range(batch'[v]) = {}
  BY <1>1 DEF RequestsAreUnique
<1>3. \A u, v \in Worker : u # v => Range(batch'[u]) \cap Range(batch'[v]) = {}
  <2> SUFFICES ASSUME NEW u \in Worker, NEW v \in Worker, u # v,
                      NEW x \in Range(batch'[u]), x \in Range(batch'[v])
               PROVE  FALSE
    OBVIOUS
  <2>1. x # h
    BY <1>1
  <2>2. x \in Range(batch[u]) /\ x \in Range(batch[v])
    BY <1>1, <2>1
  <2> QED
    BY <2>2 DEF RequestsAreUnique
<1>4. \A c \in Client : response'[c] # <<>> =>
        c \notin Range(queue') /\ \A v \in Worker : c \notin Range(batch'[v])
  BY <1>1 DEF RequestsAreUnique
<1>5. RequestsAreUnique'
  BY <1>1, <1>2, <1>3, <1>4 DEF RequestsAreUnique
<1>6. \A c \in Client : (\E v \in Worker : c \in Range(batch'[v])) <=>
        (c = h \/ \E v \in Worker : c \in Range(batch[v]))
  OBVIOUS
<1>7. WaitersAreServed'
  BY <1>6 DEF WaitersAreServed
<1> QED
  BY <1>5, <1>7

\* A worker starts a batch with the next request, or leaves when there will
\* be none.
LEMMA TakeFirstKeeps ==
  ASSUME IInv, NEW w \in Worker, TakeFirst(w)
  PROVE  IInv'
<1>1. /\ wpc[w] = "first" /\ batch[w] = <<>> /\ results[w] = <<>>
      /\ UNCHANGED <<closed, response, results, closer, journal, clientVars>>
  BY DEF TakeFirst, IInv, WorkersAdvance
<1>2. CASE queue = <<>> /\ closed /\ wpc' = [wpc EXCEPT ![w] = "exited"] /\ UNCHANGED <<batch, queue>>
  <2>1. wpc'[w] = "exited" /\ \A v \in Worker \ {w} : wpc'[v] = wpc[v]
    BY <1>2 DEF IInv, TypeOK
  <2>2. TypeOK'
    BY <1>1, <1>2 DEF IInv, TypeOK, clientVars
  <2>3. RequestsAreUnique' /\ WaitersAreServed'
    BY <1>1, <1>2 DEF IInv, RequestsAreUnique, WaitersAreServed, clientVars
  <2>4. WorkersAdvance'
    BY <1>1, <1>2, <2>1 DEF IInv, WorkersAdvance
  <2>5. CloseAdvances'
    BY <1>1, <1>2, <2>1 DEF IInv, CloseAdvances
  <2>6. AnswersFit'
    BY <1>1, <1>2, <2>1 DEF IInv, AnswersFit, Fits, Agrees, clientVars
  <2> QED
    BY <2>2, <2>3, <2>4, <2>5, <2>6 DEF IInv
<1>3. CASE /\ queue # <<>>
           /\ batch' = [batch EXCEPT ![w] = <<Head(queue)>>]
           /\ queue' = Tail(queue)
           /\ wpc' = [wpc EXCEPT ![w] = "collect"]
  <2> DEFINE h == Head(queue)
  <2>1. /\ h \in Client /\ h \in Range(queue)
        /\ queue' \in Seq(Client) /\ Len(queue') = Len(queue) - 1
        /\ IsInjective(queue') /\ Range(queue') = Range(queue) \ {h}
    BY <1>3, TakeHead DEF IInv, TypeOK, RequestsAreUnique
  <2>2. batch' = [batch EXCEPT ![w] = <<h>>]
    BY <1>3
  <2> HIDE DEF h
  <2>3. /\ batch'[w] = <<h>> /\ \A v \in Worker \ {w} : batch'[v] = batch[v]
        /\ wpc'[w] = "collect" /\ \A v \in Worker \ {w} : wpc'[v] = wpc[v]
    BY <1>3, <2>2 DEF IInv, TypeOK
  <2>4. /\ IsInjective(batch'[w]) /\ Range(batch'[w]) = {h} /\ Len(batch'[w]) = 1
        /\ batch'[w] # <<>> /\ Range(batch[w]) = {}
    BY <1>1, <2>3, ShortSequences
  <2>5. TypeOK'
    <3>1. <<h>> \in Seq(Client)
      BY <2>1
    <3>2. batch' \in [Worker -> Seq(Client)] /\ wpc' \in [Worker -> {"first", "collect", "reply", "exited"}]
      BY <1>3, <2>2, <3>1 DEF IInv, TypeOK
    <3>3. Len(queue') <= Capacity
      <4>1. Len(queue) \in Nat
        BY LenProperties DEF IInv, TypeOK
      <4> QED
        BY <2>1, <4>1, CapacityNat DEF IInv, TypeOK
    <3>4. \A v \in Worker : Len(batch'[v]) <= MaxPostingBatchSize
      <4>1. 1 <= MaxPostingBatchSize
        BY BatcherAssumption
      <4> QED
        BY <2>3, <2>4, <4>1 DEF IInv, TypeOK
    <3> QED
      BY <1>1, <2>1, <3>2, <3>3, <3>4 DEF IInv, TypeOK, clientVars
  <2>6. RequestsAreUnique' /\ WaitersAreServed'
    <3>1. Range(batch'[w]) = Range(batch[w]) \cup {h}
      BY <2>4
    <3> QED
      BY <1>1, <2>1, <2>3, <2>4, <3>1, MoveKeeps DEF IInv, clientVars
  <2>8. WorkersAdvance'
    BY <1>1, <1>3, <2>3, <2>4, BatcherAssumption DEF IInv, WorkersAdvance
  <2>9. CloseAdvances'
    BY <1>1, <1>3, <2>3 DEF IInv, CloseAdvances
  <2>10. AnswersFit'
    BY <1>1, <2>1, <2>3, <2>4 DEF IInv, AnswersFit, Fits, Agrees, clientVars
  <2> QED
    BY <2>5, <2>6, <2>8, <2>9, <2>10 DEF IInv
<1> QED
  BY <1>2, <1>3 DEF TakeFirst

\* A worker takes another request while its batch has room.
LEMMA CollectKeeps ==
  ASSUME IInv, NEW w \in Worker, Collect(w)
  PROVE  IInv'
<1> DEFINE h == Head(queue)
<1>1. /\ wpc[w] = "collect" /\ Len(batch[w]) < MaxBatch /\ queue # <<>>
      /\ batch' = [batch EXCEPT ![w] = Append(batch[w], h)]
      /\ queue' = Tail(queue)
      /\ UNCHANGED <<closed, response, wpc, results, closer, journal, clientVars>>
  BY DEF Collect, MayCollect
<1>2. /\ h \in Client /\ h \in Range(queue)
      /\ queue' \in Seq(Client) /\ Len(queue') = Len(queue) - 1
      /\ IsInjective(queue') /\ Range(queue') = Range(queue) \ {h}
  BY <1>1, TakeHead DEF IInv, TypeOK, RequestsAreUnique
<1> HIDE DEF h
<1>3. batch[w] \in Seq(Client) /\ IsInjective(batch[w]) /\ h \notin Range(batch[w])
  BY <1>2 DEF IInv, TypeOK, RequestsAreUnique
<1>4. batch'[w] = Append(batch[w], h) /\ \A v \in Worker \ {w} : batch'[v] = batch[v]
  BY <1>1 DEF IInv, TypeOK
<1>5. /\ batch'[w] \in Seq(Client) /\ Len(batch'[w]) = Len(batch[w]) + 1 /\ batch'[w] # <<>>
      /\ IsInjective(batch'[w]) /\ Range(batch'[w]) = Range(batch[w]) \cup {h}
  BY <1>2, <1>3, <1>4, AppendNew
<1>6. Len(batch'[w]) <= MaxBatch
  <2>1. Len(batch[w]) \in Nat
    BY <1>3, LenProperties
  <2> QED
    BY <1>1, <1>5, <2>1, CapacityNat
<1>7. TypeOK'
  <2>1. batch' \in [Worker -> Seq(Client)]
    BY <1>1, <1>4, <1>5 DEF IInv, TypeOK
  <2>2. Len(queue') <= Capacity
    <3>1. Len(queue) \in Nat
      BY LenProperties DEF IInv, TypeOK
    <3> QED
      BY <1>2, <3>1, CapacityNat DEF IInv, TypeOK
  <2>3. Len(batch'[w]) <= MaxPostingBatchSize
    <3>1. Len(batch'[w]) \in Nat
      BY <1>5, LenProperties
    <3> QED
      BY <1>6, <3>1, CapacityNat, BatcherAssumption
  <2>4. \A v \in Worker : Len(batch'[v]) <= MaxPostingBatchSize
    BY <1>4, <2>3 DEF IInv, TypeOK
  <2> QED
    BY <1>1, <1>2, <2>1, <2>2, <2>4 DEF IInv, TypeOK, clientVars
<1>8. RequestsAreUnique' /\ WaitersAreServed'
  BY <1>1, <1>2, <1>4, <1>5, MoveKeeps DEF IInv, clientVars
<1>9. WorkersAdvance'
  <2>1. \A v \in Worker : wpc[v] # "exited"
    BY <1>1 DEF IInv, WorkersAdvance
  <2> QED
    BY <1>1, <1>4, <1>5, <1>6, <2>1 DEF IInv, WorkersAdvance
<1>10. CloseAdvances'
  BY <1>1 DEF IInv, CloseAdvances
<1>11. AnswersFit'
  <2>1. journal[h] = 0
    BY <1>2 DEF IInv, AnswersFit
  <2>2. \A v \in Worker : wpc[v] = "collect" => \A c \in Range(batch'[v]) : journal[c] = 0
    BY <1>4, <1>5, <2>1 DEF IInv, AnswersFit
  <2>3. \A v \in Worker : wpc[v] = "reply" => batch'[v] = batch[v]
    BY <1>1, <1>4
  <2> QED
    BY <1>1, <1>2, <2>2, <2>3 DEF IInv, AnswersFit, Fits, Agrees, clientVars
<1> QED
  BY <1>7, <1>8, <1>9, <1>10, <1>11 DEF IInv

\* Every member of a batch is counted once, because it is there once.
LEMMA MembersPosted ==
  ASSUME IInv, NEW w \in Worker, wpc[w] = "collect",
         NEW S \in SUBSET DOMAIN batch[w], CommitMembers(w, S)
  PROVE  /\ journal' \in [Client -> Nat]
         /\ \A k \in DOMAIN batch[w] : journal'[batch[w][k]] = IF k \in S THEN 1 ELSE 0
         /\ \A c \in Client \ Range(batch[w]) : journal'[c] = journal[c]
<1> DEFINE At(c) == {k \in S : batch[w][k] = c}
<1>1. ASSUME NEW c \in Client
      PROVE  At(c) = {} \/ \E k \in S : At(c) = {k}
  BY DEF IInv, RequestsAreUnique, IsInjective
<1>2. \A c \in Client : Cardinality(At(c)) = IF At(c) = {} THEN 0 ELSE 1
  BY <1>1, FS_EmptySet, FS_Singleton
<1>3. \A c \in Client : journal'[c] = journal[c] + Cardinality(At(c))
  BY DEF CommitMembers
<1>4. journal' = [c \in Client |-> journal'[c]]
  BY DEF CommitMembers
<1>5. \A k \in DOMAIN batch[w] : (At(batch[w][k]) = {} <=> k \notin S)
  BY DEF IInv, RequestsAreUnique, IsInjective
<1>6. \A c \in Client \ Range(batch[w]) : At(c) = {}
  BY DEF Range
<1>7. \A k \in DOMAIN batch[w] : batch[w][k] \in Client /\ journal[batch[w][k]] = 0
  BY RequestsAreCalls DEF IInv, AnswersFit
<1> HIDE DEF At
<1>8. journal' \in [Client -> Nat]
  <2>1. ASSUME NEW c \in Client
        PROVE  journal'[c] \in Nat
    <3>1. journal[c] \in Nat /\ Cardinality(At(c)) \in {0, 1}
      BY <1>2 DEF IInv, TypeOK
    <3> QED
      BY <1>3, <3>1
  <2> QED
    BY <1>4, <2>1
<1>9. \A k \in DOMAIN batch[w] : journal'[batch[w][k]] = IF k \in S THEN 1 ELSE 0
  BY <1>2, <1>3, <1>5, <1>7
<1>10. ASSUME NEW c \in Client \ Range(batch[w])
       PROVE  journal'[c] = journal[c]
  <2>1. journal[c] \in Nat /\ Cardinality(At(c)) = 0
    BY <1>2, <1>6 DEF IInv, TypeOK
  <2> QED
    BY <1>3, <2>1
<1> QED
  BY <1>8, <1>9, <1>10

\* A batch whose members got answers that agree with the new journal.
LEMMA PostedKeeps ==
  ASSUME IInv, NEW w \in Worker, wpc[w] = "collect",
         results'[w] \in [DOMAIN batch[w] -> Result],
         results' = [results EXCEPT ![w] = results'[w]],
         journal' \in [Client -> Nat],
         \A k \in DOMAIN batch[w] : Agrees(journal'[batch[w][k]], batch[w][k], results'[w][k]),
         \A c \in Client \ Range(batch[w]) : journal'[c] = journal[c],
         wpc' = [wpc EXCEPT ![w] = "reply"],
         UNCHANGED <<queue, closed, response, batch, closer, clientVars>>
  PROVE  IInv'
<1>1. /\ wpc'[w] = "reply"
      /\ \A v \in Worker \ {w} : results'[v] = results[v] /\ wpc'[v] = wpc[v]
  BY DEF IInv, TypeOK
<1>2. results'[w] \in Seq(Result) /\ Len(results'[w]) = Len(batch[w])
  <2>1. Len(batch[w]) \in Nat /\ DOMAIN batch[w] = 1..Len(batch[w])
    BY LenProperties DEF IInv, TypeOK
  <2> QED
    BY <2>1
<1>3. TypeOK'
  <2>1. results' \in [Worker -> Seq(Result)]
    BY <1>2 DEF IInv, TypeOK
  <2> QED
    BY <2>1 DEF IInv, TypeOK, clientVars
<1>4. RequestsAreUnique' /\ WaitersAreServed'
  BY DEF IInv, RequestsAreUnique, WaitersAreServed, clientVars
<1>5. WorkersAdvance'
  BY <1>1, <1>2 DEF IInv, WorkersAdvance
<1>6. CloseAdvances'
  BY <1>1 DEF IInv, CloseAdvances
<1>7. \A c \in Client \ Range(batch[w]) : \A x : Fits(c, x)' <=> Fits(c, x)
  BY DEF Fits, Agrees
<1>8. ASSUME NEW c \in Client, c \in Range(batch[w])
      PROVE  pc[c] = "wait" /\ result[c] = Open /\ c \notin Range(queue) /\ response[c] = <<>>
  BY <1>8 DEF IInv, RequestsAreUnique, WaitersAreServed, AnswersFit
<1>9. AnswersFit'
  <2>1. ASSUME NEW c \in Client
        PROVE  /\ pc'[c] \in {"idle", "send", "panicked"} => journal'[c] = 0
               /\ pc'[c] # "done" => result'[c] = Open
               /\ c \in Range(queue') => journal'[c] = 0
               /\ response'[c] # <<>> => Fits(c, Head(response[c]))'
               /\ pc'[c] = "done" => Fits(c, result[c])'
    <3>1. CASE c \in Range(batch[w])
      BY <1>8, <3>1 DEF clientVars
    <3>2. CASE c \notin Range(batch[w])
      BY <1>7, <3>2 DEF IInv, AnswersFit, clientVars
    <3> QED
      BY <3>1, <3>2
  <2>2. ASSUME NEW v \in Worker
        PROVE  /\ wpc'[v] = "collect" => \A c \in Range(batch'[v]) : journal'[c] = 0
               /\ wpc'[v] = "reply" => \A k \in DOMAIN batch'[v] : Fits(batch[v][k], results[v][k])'
    <3>1. CASE v = w
      BY <1>1, <3>1 DEF Fits
    <3>2. CASE v # w
      <4>1. \A c \in Range(batch[v]) : c \in Client \ Range(batch[w])
        BY <3>2, RequestsAreCalls DEF IInv, RequestsAreUnique
      <4>2. \A k \in DOMAIN batch[v] : batch[v][k] \in Range(batch[v])
        BY DEF Range
      <4> QED
        BY <1>1, <1>7, <3>2, <4>1, <4>2 DEF IInv, AnswersFit
    <3> QED
      BY <3>1, <3>2
  <2> QED
    BY <2>1, <2>2 DEF AnswersFit
<1> QED
  BY <1>3, <1>4, <1>5, <1>6, <1>9 DEF IInv

\* CreateTransactionsBatch returns.
LEMMA PostKeeps ==
  ASSUME IInv, NEW w \in Worker, PostBatch(w) \/ PostBatchFails(w)
  PROVE  IInv'
<1>1. /\ wpc[w] = "collect" /\ wpc' = [wpc EXCEPT ![w] = "reply"]
      /\ UNCHANGED <<queue, closed, response, batch, closer, clientVars>>
  BY DEF PostBatch, PostBatchFails, MayPost
<1>2. \A k \in DOMAIN batch[w] : /\ batch[w][k] \in Client
                                 /\ journal[batch[w][k]] = 0
  BY <1>1, RequestsAreCalls DEF IInv, AnswersFit
<1>3. Refused \in Result /\ Lost \in Result /\ \A c \in Client : Posted(c) \in Result
  BY DEF Result
<1>4. CASE PostBatch(w)
  <2>1. PICK S \in SUBSET DOMAIN batch[w] :
          /\ CommitMembers(w, S)
          /\ results' = [results EXCEPT ![w] =
               [k \in DOMAIN batch[w] |-> IF k \in S THEN Posted(batch[w][k]) ELSE Refused]]
    BY <1>4 DEF PostBatch
  <2>2. /\ results'[w] = [k \in DOMAIN batch[w] |-> IF k \in S THEN Posted(batch[w][k]) ELSE Refused]
        /\ results' = [results EXCEPT ![w] = results'[w]]
    BY <2>1 DEF IInv, TypeOK
  <2>3. results'[w] \in [DOMAIN batch[w] -> Result]
    BY <1>2, <1>3, <2>2
  <2>4. /\ journal' \in [Client -> Nat]
        /\ \A k \in DOMAIN batch[w] : journal'[batch[w][k]] = IF k \in S THEN 1 ELSE 0
        /\ \A c \in Client \ Range(batch[w]) : journal'[c] = journal[c]
    BY <1>1, <2>1, MembersPosted
  <2>5. \A k \in DOMAIN batch[w] : Agrees(journal'[batch[w][k]], batch[w][k], results'[w][k])
    BY <2>2, <2>4, ResultsDiffer DEF Agrees
  <2> QED
    BY <1>1, <2>2, <2>3, <2>4, <2>5, PostedKeeps
<1>5. CASE PostBatchFails(w)
  <2>1. CASE results' = [results EXCEPT ![w] = [k \in DOMAIN batch[w] |-> Refused]] /\ UNCHANGED journal
    <3>1. /\ results'[w] = [k \in DOMAIN batch[w] |-> Refused]
          /\ results' = [results EXCEPT ![w] = results'[w]]
      BY <2>1 DEF IInv, TypeOK
    <3>2. results'[w] \in [DOMAIN batch[w] -> Result] /\ journal' \in [Client -> Nat]
      BY <1>3, <2>1, <3>1 DEF IInv, TypeOK
    <3>3. \A k \in DOMAIN batch[w] : Agrees(journal'[batch[w][k]], batch[w][k], results'[w][k])
      BY <1>2, <2>1, <3>1, ResultsDiffer DEF Agrees
    <3> QED
      BY <1>1, <2>1, <3>1, <3>2, <3>3, PostedKeeps
  <2>2. ASSUME NEW S \in SUBSET DOMAIN batch[w], CommitMembers(w, S),
               results' = [results EXCEPT ![w] = [k \in DOMAIN batch[w] |-> Lost]]
        PROVE  IInv'
    <3>1. /\ results'[w] = [k \in DOMAIN batch[w] |-> Lost]
          /\ results' = [results EXCEPT ![w] = results'[w]]
      BY <2>2 DEF IInv, TypeOK
    <3>2. results'[w] \in [DOMAIN batch[w] -> Result]
      BY <1>3, <3>1
    <3>3. /\ journal' \in [Client -> Nat]
          /\ \A k \in DOMAIN batch[w] : journal'[batch[w][k]] = IF k \in S THEN 1 ELSE 0
          /\ \A c \in Client \ Range(batch[w]) : journal'[c] = journal[c]
      BY <1>1, <2>2, MembersPosted
    <3>4. \A k \in DOMAIN batch[w] : Agrees(journal'[batch[w][k]], batch[w][k], results'[w][k])
      BY <3>1, <3>3, ResultsDiffer DEF Agrees
    <3> QED
      BY <1>1, <3>1, <3>2, <3>3, <3>4, PostedKeeps
  <2> QED
    BY <1>5, <2>1, <2>2 DEF PostBatchFails
<1> QED
  BY <1>4, <1>5

\* The first member of the batch gets the first result.
LEMMA ReplyKeeps ==
  ASSUME IInv, NEW w \in Worker, Reply(w)
  PROVE  IInv'
<1> DEFINE h == Head(batch[w])
           r == Head(results[w])
           l == IF Len(batch[w]) = 1 THEN "first" ELSE "reply"
<1>1. /\ wpc[w] = "reply" /\ response[h] = <<>>
      /\ response' = [response EXCEPT ![h] = Append(response[h], r)]
      /\ batch' = [batch EXCEPT ![w] = Tail(batch[w])]
      /\ results' = [results EXCEPT ![w] = Tail(results[w])]
      /\ wpc' = [wpc EXCEPT ![w] = l]
      /\ UNCHANGED <<queue, closed, closer, journal, clientVars>>
  BY DEF Reply
<1>2. /\ batch[w] \in Seq(Client) /\ batch[w] # <<>> /\ IsInjective(batch[w])
      /\ results[w] \in Seq(Result) /\ Len(results[w]) = Len(batch[w])
      /\ Len(batch[w]) \in Nat \ {0} /\ results[w] # <<>>
      /\ DOMAIN batch[w] = 1..Len(batch[w])
  BY <1>1, EmptySeq, LenProperties DEF IInv, TypeOK, RequestsAreUnique, WorkersAdvance
<1>3. /\ h \in Client /\ h \in Range(batch[w]) /\ h = batch[w][1]
      /\ Tail(batch[w]) \in Seq(Client) /\ Len(Tail(batch[w])) = Len(batch[w]) - 1
      /\ IsInjective(Tail(batch[w])) /\ Range(Tail(batch[w])) = Range(batch[w]) \ {h}
      /\ \A k \in 1..(Len(batch[w]) - 1) : Tail(batch[w])[k] = batch[w][k + 1]
  BY <1>2, TakeHead, HeadTailProperties
<1>4. /\ r \in Result /\ r = results[w][1]
      /\ Tail(results[w]) \in Seq(Result) /\ Len(Tail(results[w])) = Len(batch[w]) - 1
      /\ \A k \in 1..(Len(batch[w]) - 1) : Tail(results[w])[k] = results[w][k + 1]
  BY <1>2, HeadTailProperties
<1>5. Fits(h, r)
  BY <1>1, <1>2, <1>3, <1>4 DEF IInv, AnswersFit
<1>6. Append(response[h], r) = <<r>>
  BY <1>1
<1>7. Tail(batch[w]) = <<>> <=> l = "first"
  <2>1. Tail(batch[w]) = <<>> <=> Len(Tail(batch[w])) = 0
    BY <1>3, EmptySeq
  <2> QED
    BY <1>2, <1>3, <2>1
<1>8. l \in {"first", "reply"}
  OBVIOUS
<1> HIDE DEF h, r, l
<1>9. /\ batch'[w] = Tail(batch[w]) /\ results'[w] = Tail(results[w]) /\ wpc'[w] = l
      /\ \A v \in Worker \ {w} : batch'[v] = batch[v] /\ results'[v] = results[v] /\ wpc'[v] = wpc[v]
  BY <1>1 DEF IInv, TypeOK
<1>10. response'[h] = <<r>> /\ \A c \in Client \ {h} : response'[c] = response[c]
  BY <1>1, <1>3, <1>6 DEF IInv, TypeOK
<1>11. TypeOK'
  <2>1. batch' \in [Worker -> Seq(Client)]
    BY <1>1, <1>3 DEF IInv, TypeOK
  <2>2. results' \in [Worker -> Seq(Result)]
    BY <1>1, <1>4 DEF IInv, TypeOK
  <2>3. response' \in [Client -> {<<>>} \cup {<<y>> : y \in Result}]
    BY <1>1, <1>3, <1>4, <1>6 DEF IInv, TypeOK
  <2>4. wpc' \in [Worker -> {"first", "collect", "reply", "exited"}]
    BY <1>1, <1>8 DEF IInv, TypeOK
  <2>5. Len(batch'[w]) <= MaxPostingBatchSize
    BY <1>2, <1>3, <1>9, BatcherAssumption DEF IInv, TypeOK
  <2>6. \A v \in Worker : Len(batch'[v]) <= MaxPostingBatchSize
    BY <1>9, <2>5 DEF IInv, TypeOK
  <2> QED
    BY <1>1, <2>1, <2>2, <2>3, <2>4, <2>6 DEF IInv, TypeOK, clientVars
<1>12. \A v \in Worker : /\ IsInjective(batch'[v])
                         /\ Range(batch'[v]) = Range(batch[v]) \ {h}
  BY <1>3, <1>9 DEF IInv, RequestsAreUnique
<1>13. RequestsAreUnique'
  <2>1. h \notin Range(queue)
    BY <1>3 DEF IInv, RequestsAreUnique
  <2>2. \A c \in Client : response'[c] # <<>> =>
          c \notin Range(queue') /\ \A v \in Worker : c \notin Range(batch'[v])
    BY <1>1, <1>10, <1>12, <2>1 DEF IInv, RequestsAreUnique
  <2> QED
    BY <1>1, <1>12, <2>2 DEF IInv, RequestsAreUnique
<1>14. WaitersAreServed'
  <2>1. <<r>> # <<>>
    OBVIOUS
  <2> QED
    BY <1>1, <1>3, <1>10, <1>12, <2>1 DEF IInv, WaitersAreServed, clientVars
<1>15. WorkersAdvance'
  <2>1. Len(Tail(batch[w])) <= MaxBatch
    BY <1>2, <1>3, CapacityNat DEF IInv, WorkersAdvance
  <2>2. Tail(batch[w]) = <<>> => Tail(results[w]) = <<>>
    BY <1>3, <1>4, EmptySeq
  <2>3. /\ batch'[w] = <<>> <=> wpc'[w] \in {"first", "exited"}
        /\ Len(batch'[w]) <= MaxBatch
        /\ wpc'[w] # "reply" => results'[w] = <<>>
        /\ wpc'[w] = "reply" => Len(results'[w]) = Len(batch'[w])
        /\ wpc'[w] # "exited"
    BY <1>3, <1>4, <1>7, <1>8, <1>9, <2>1, <2>2
  <2> QED
    BY <1>1, <1>9, <2>3 DEF IInv, WorkersAdvance
<1>16. CloseAdvances'
  BY <1>1, <1>8, <1>9 DEF IInv, CloseAdvances
<1>17. AnswersFit'
  <2>1. \A c, x : Fits(c, x)' <=> Fits(c, x)
    BY <1>1 DEF Fits, Agrees
  <2>2. Head(response'[h]) = r
    BY <1>10
  <2>3. DOMAIN batch'[w] = 1..(Len(batch[w]) - 1)
    BY <1>2, <1>3, <1>9, LenProperties
  <2>4. ASSUME NEW k \in 1..(Len(batch[w]) - 1)
        PROVE  Fits(batch'[w][k], results'[w][k])
    <3>1. k + 1 \in DOMAIN batch[w]
      BY <1>2
    <3>2. Fits(batch[w][k + 1], results[w][k + 1])
      BY <1>1, <3>1 DEF IInv, AnswersFit
    <3> QED
      BY <1>3, <1>4, <1>9, <3>2
  <2>5. \A c \in Client : response'[c] # <<>> => Fits(c, Head(response'[c]))
    BY <1>5, <1>10, <2>2 DEF IInv, AnswersFit
  <2>6. \A v \in Worker : wpc'[v] = "collect" => \A c \in Range(batch'[v]) : journal'[c] = 0
    BY <1>1, <1>8, <1>9 DEF IInv, AnswersFit
  <2>7. \A v \in Worker : wpc'[v] = "reply" =>
          \A k \in DOMAIN batch'[v] : Fits(batch'[v][k], results'[v][k])
    BY <1>9, <2>3, <2>4 DEF IInv, AnswersFit
  <2> QED
    BY <1>1, <2>1, <2>5, <2>6, <2>7 DEF IInv, AnswersFit, clientVars
<1> QED
  BY <1>11, <1>13, <1>14, <1>15, <1>16, <1>17 DEF IInv

\* Close closes the channel, and returns when every worker is gone.
LEMMA CloseKeeps ==
  ASSUME IInv, Close \/ CloseReturns \/ UNCHANGED vars
  PROVE  IInv'
<1>1. /\ UNCHANGED <<queue, response, journal, clientVars, workerVars>>
      /\ closed => closed'
  BY DEF Close, CloseReturns, vars
<1>2. TypeOK'
  BY DEF IInv, TypeOK, Close, CloseReturns, vars, clientVars, workerVars
<1>3. RequestsAreUnique' /\ WaitersAreServed'
  BY <1>1 DEF IInv, RequestsAreUnique, WaitersAreServed, clientVars, workerVars
<1>4. WorkersAdvance'
  BY <1>1 DEF IInv, WorkersAdvance, workerVars
<1>5. CloseAdvances'
  BY DEF IInv, TypeOK, CloseAdvances, Close, CloseReturns, vars, workerVars
<1>6. AnswersFit'
  BY <1>1 DEF IInv, AnswersFit, Fits, Agrees, clientVars, workerVars
<1> QED
  BY <1>2, <1>3, <1>4, <1>5, <1>6 DEF IInv

-----------------------------------------------------------------------------
(* The theorems.                                                           *)

\* Every step keeps the invariant.
LEMMA NextKeeps == IInv /\ [Next]_vars => IInv'
<1> SUFFICES ASSUME IInv, [Next]_vars
             PROVE  IInv'
  OBVIOUS
<1>1. ASSUME NEW c \in Client, Submit(c) \/ Direct(c) \/ ClientStep(c)
      PROVE  IInv'
  BY <1>1, SubmitKeeps, SendKeeps, ReceiveKeeps DEF ClientStep
<1>2. ASSUME NEW w \in Worker, WorkerStep(w) \/ Collect(w)
      PROVE  IInv'
  BY <1>2, TakeFirstKeeps, CollectKeeps, PostKeeps, ReplyKeeps DEF WorkerStep
<1>3. CASE Close \/ CloseReturns \/ UNCHANGED vars
  BY <1>3, CloseKeeps
<1>4. CASE Finished
  BY <1>4, CloseKeeps DEF Finished
<1> QED
  BY <1>1, <1>2, <1>3, <1>4 DEF Next

\* The invariant holds in every state of the batching store.
THEOREM Inductive == Spec => []IInv
<1>1. Init => IInv
  BY InitIInv
<1>2. IInv /\ [Next]_vars => IInv'
  BY NextKeeps
<1> QED
  BY <1>1, <1>2, PTL DEF Spec

\* Every variable keeps its type: no worker of run gathers more than
\* CreateTransactionsBatch takes, and no send exceeds the channel's capacity.
THEOREM TypeCorrect == Spec => []TypeOK
  BY Inductive, PTL DEF IInv

\* The places of a request are one or none.
LEMMA PlacesCounted == IInv => OnePlace
<1> SUFFICES ASSUME IInv, NEW c \in Client
             PROVE  Cardinality(Places(c)) = IF pc[c] = "wait" THEN 1 ELSE 0
  BY DEF OnePlace
<1> DEFINE Q == {"queue"} \X {k \in DOMAIN queue : queue[k] = c}
           A == {"response"} \X DOMAIN response[c]
           B(w) == {"batch"} \X {w} \X {k \in DOMAIN batch[w] : batch[w][k] = c}
<1>1. Places(c) = Q \cup A \cup UNION {B(w) : w \in Worker}
  BY DEF Places
<1>2. c \notin Range(queue) => Q = {}
  BY DEF Range
<1>3. response[c] = <<>> => A = {}
  OBVIOUS
<1>4. \A w \in Worker : c \notin Range(batch[w]) => B(w) = {}
  BY DEF Range
<1>5. CASE pc[c] # "wait"
  <2>1. Q = {} /\ A = {} /\ \A w \in Worker : B(w) = {}
    BY <1>2, <1>3, <1>4, <1>5 DEF IInv, WaitersAreServed
  <2>2. Places(c) = {}
    BY <1>1, <2>1
  <2> QED
    BY <1>5, <2>2, FS_EmptySet
<1>6. CASE pc[c] = "wait" /\ c \in Range(queue)
  <2>1. A = {} /\ \A w \in Worker : B(w) = {}
    BY <1>3, <1>4, <1>6 DEF IInv, RequestsAreUnique
  <2>2. PICK k \in DOMAIN queue : queue[k] = c
    BY <1>6 DEF Range
  <2>3. {j \in DOMAIN queue : queue[j] = c} = {k}
    BY <2>2 DEF IInv, RequestsAreUnique, IsInjective
  <2>4. Q = {<<"queue", k>>}
    BY <2>3
  <2>5. Places(c) = {<<"queue", k>>}
    BY <1>1, <2>1, <2>4
  <2> QED
    BY <1>6, <2>5, FS_Singleton
<1>7. CASE pc[c] = "wait" /\ response[c] # <<>>
  <2>1. Q = {} /\ \A w \in Worker : B(w) = {}
    BY <1>2, <1>4, <1>7 DEF IInv, RequestsAreUnique
  <2>2. PICK x \in Result : response[c] = <<x>>
    BY <1>7 DEF IInv, TypeOK
  <2>3. DOMAIN response[c] = {1}
    BY <2>2
  <2>4. A = {<<"response", 1>>}
    BY <2>3
  <2>5. Places(c) = {<<"response", 1>>}
    BY <1>1, <2>1, <2>4
  <2> QED
    BY <1>7, <2>5, FS_Singleton
<1>8. ASSUME NEW w \in Worker, pc[c] = "wait", c \in Range(batch[w])
      PROVE  Cardinality(Places(c)) = 1
  <2>1. Q = {} /\ A = {} /\ \A v \in Worker \ {w} : B(v) = {}
    BY <1>2, <1>3, <1>4, <1>8 DEF IInv, RequestsAreUnique
  <2>2. PICK k \in DOMAIN batch[w] : batch[w][k] = c
    BY <1>8 DEF Range
  <2>3. {j \in DOMAIN batch[w] : batch[w][j] = c} = {k}
    BY <2>2 DEF IInv, RequestsAreUnique, IsInjective
  <2>4. B(w) = {<<"batch", w, k>>}
    BY <2>3
  <2>5. Places(c) = {<<"batch", w, k>>}
    BY <1>1, <2>1, <2>4
  <2> QED
    BY <2>5, FS_Singleton
<1> QED
  BY <1>5, <1>6, <1>7, <1>8 DEF IInv, WaitersAreServed

\* The request of a waiting call, or its answer, is in exactly one place: no
\* worker of run drops or duplicates one.
THEOREM RequestsHaveOnePlace == Spec => []OnePlace
  BY Inductive, PlacesCounted, PTL

\* What an answer says of the journal.
LEMMA AnswersOwned == IInv => OwnResults
<1> SUFFICES ASSUME IInv, NEW c \in Client
             PROVE  /\ journal[c] <= 1
                    /\ result[c].status = "posted" => result[c].txn = c /\ journal[c] = 1
                    /\ result[c].status = "refused" \/ pc[c] = "panicked" => journal[c] = 0
  BY DEF OwnResults
<1>1. /\ Posted(c).status = "posted" /\ Posted(c).txn = c /\ Open.status = "open"
      /\ Refused.status = "refused" /\ Lost.status = "lost"
  BY DEF Posted, Open, Refused, Lost
<1>2. pc[c] # "done" => result[c] = Open
  BY DEF IInv, AnswersFit
<1>3. pc[c] = "done" => Agrees(journal[c], c, result[c])
  BY DEF IInv, AnswersFit, Fits
<1>4. pc[c] = "panicked" => journal[c] = 0
  BY DEF IInv, AnswersFit
<1>5. journal[c] <= 1
  <2>1. pc[c] \in {"idle", "send", "panicked"} => journal[c] = 0
    BY DEF IInv, AnswersFit
  <2>2. c \in Range(queue) => journal[c] = 0
    BY DEF IInv, AnswersFit
  <2>3. response[c] # <<>> => journal[c] <= 1
    BY DEF IInv, AnswersFit, Fits, Agrees
  <2>4. ASSUME NEW w \in Worker, c \in Range(batch[w])
        PROVE  journal[c] <= 1
    <3>1. wpc[w] \in {"collect", "reply"}
      BY <2>4, ShortSequences DEF IInv, TypeOK, WorkersAdvance
    <3>2. PICK k \in DOMAIN batch[w] : batch[w][k] = c
      BY <2>4 DEF Range
    <3> QED
      BY <2>4, <3>1, <3>2 DEF IInv, AnswersFit, Fits, Agrees
  <2>5. pc[c] = "done" => journal[c] <= 1
    BY <1>3 DEF Agrees
  <2> QED
    BY <2>1, <2>2, <2>3, <2>4, <2>5 DEF IInv, TypeOK, WaitersAreServed
<1> QED
  BY <1>1, <1>2, <1>3, <1>4, <1>5 DEF Agrees

\* Every call of CreateTransaction gets the result of its own posting, which
\* is posted at most once.
THEOREM ResultsAreOwn == Spec => []OwnResults
  BY Inductive, AnswersOwned, PTL

\* A closed channel is empty once a worker has left.
LEMMA ClosedIsDrained == IInv => CloseDrains
<1> SUFFICES ASSUME IInv, closer = "returned"
             PROVE  /\ queue = <<>>
                    /\ \A w \in Worker : batch[w] = <<>>
                    /\ \A c \in Client : pc[c] = "wait" => response[c] # <<>>
  BY DEF CloseDrains
<1>1. \A w \in Worker : wpc[w] = "exited"
  BY DEF IInv, CloseAdvances
<1>2. queue = <<>> /\ \A w \in Worker : batch[w] = <<>>
  BY <1>1, BatcherAssumption DEF IInv, WorkersAdvance
<1>3. Range(queue) = {} /\ \A w \in Worker : Range(batch[w]) = {}
  BY <1>2, ShortSequences
<1> QED
  BY <1>2, <1>3 DEF IInv, WaitersAreServed

\* When Close has returned no request is left behind.
THEOREM CloseLeavesNothing == Spec => []CloseDrains
  BY Inductive, ClosedIsDrained, PTL
=============================================================================
