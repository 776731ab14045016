--------------------------- MODULE PostingBatcher ---------------------------
(***************************************************************************)
(* BatchingPostgresStore: handlers put postings without an idempotency key *)
(* on a bounded channel, workers gather them into micro-batches, post each *)
(* batch with one CreateTransactionsBatch and send every member its result *)
(* on the response channel of its request; Close closes the channel and    *)
(* waits for the workers.                                                  *)
(*                                                                         *)
(* CreateTransactionsBatch and CreateTransaction of the store below are    *)
(* single steps here, which is what Posting is shown to amount to          *)
(* (PostingRefinement, CallsAreAtomic).                                    *)
(***************************************************************************)
EXTENDS Naturals, Sequences, FiniteSets, SequencesExt

CONSTANTS
  Client,               \* CreateTransaction calls, each made once
  Worker,
  MaxBatch,             \* POSTING_BATCH_SIZE
  MaxPostingBatchSize   \* what CreateTransactionsBatch takes at most

\* NewBatchingPostgresStore refuses any other configuration.
ASSUME BatcherAssumption ==
  /\ MaxBatch \in 1..MaxPostingBatchSize
  /\ MaxPostingBatchSize \in Nat
  /\ Worker # {} /\ IsFiniteSet(Worker)

VARIABLES
  queue,     \* the buffer of the channel requests: the calls waiting there
  closed,    \* the channel is closed
  pc,        \* what a call is doing
  response,  \* the response channel of a call, capacity 1
  result,    \* what a call returned
  wpc,       \* what a worker is doing
  batch,     \* the calls a worker has gathered
  results,   \* what the store returned for them
  closer,    \* the goroutine that calls Close
  journal    \* how many transactions hold the entries of a call

clientVars == <<pc, result>>
workerVars == <<wpc, batch, results>>
vars == <<queue, closed, response, closer, journal, clientVars, workerVars>>

Capacity == MaxBatch * Cardinality(Worker)

\* Results: the transaction with the entries of call c; a refusal, by the
\* rules or by an error, with nothing posted; an error that hides a commit.
Posted(c) == [status |-> "posted", txn |-> c]
Open == [status |-> "open"]
Refused == [status |-> "refused"]
Lost == [status |-> "lost"]

Init ==
  /\ queue = <<>>
  /\ closed = FALSE
  /\ pc = [c \in Client |-> "idle"]
  /\ response = [c \in Client |-> <<>>]
  /\ result = [c \in Client |-> Open]
  /\ wpc = [w \in Worker |-> "first"]
  /\ batch = [w \in Worker |-> <<>>]
  /\ results = [w \in Worker |-> <<>>]
  /\ closer = "running"
  /\ journal = [c \in Client |-> 0]

-----------------------------------------------------------------------------
(* CreateTransaction.                                                      *)

ReturnResult(c, r) ==
  /\ pc' = [pc EXCEPT ![c] = "done"]
  /\ result' = [result EXCEPT ![c] = r]

\* A call without a key: a posting the rules refuse does not reach the queue.
Submit(c) ==
  /\ pc[c] = "idle"
  /\ \/ ReturnResult(c, Refused)
     \/ pc' = [pc EXCEPT ![c] = "send"] /\ UNCHANGED result
  /\ UNCHANGED <<queue, closed, response, closer, journal, workerVars>>

\* A call with a key goes straight to PostgresStore.CreateTransaction, which
\* refuses it or posts it, queue closed or not.
Direct(c) ==
  /\ pc[c] = "idle"
  /\ \/ ReturnResult(c, Refused) /\ UNCHANGED journal
     \/ /\ journal' = [journal EXCEPT ![c] = @ + 1]
        /\ ReturnResult(c, Posted(c)) \/ ReturnResult(c, Lost)
  /\ UNCHANGED <<queue, closed, response, closer, workerVars>>

\* The send blocks while the buffer is full, and panics, full or not, once
\* the channel is closed: net/http drops the connection without an answer.
Send(c) ==
  /\ pc[c] = "send"
  /\ \/ /\ closed
        /\ pc' = [pc EXCEPT ![c] = "panicked"]
        /\ UNCHANGED queue
     \/ /\ ~closed
        /\ Len(queue) < Capacity
        /\ queue' = Append(queue, c)
        /\ pc' = [pc EXCEPT ![c] = "wait"]
  /\ UNCHANGED <<closed, response, result, closer, journal, workerVars>>

Receive(c) ==
  /\ pc[c] = "wait"
  /\ response[c] # <<>>
  /\ ReturnResult(c, Head(response[c]))
  /\ response' = [response EXCEPT ![c] = Tail(@)]
  /\ UNCHANGED <<queue, closed, closer, journal, workerVars>>

-----------------------------------------------------------------------------
(* run, one worker.                                                        *)

\* Mutant: a worker stops as soon as the channel is closed.
TakeFirstUnlessClosed(w) ==
  /\ wpc[w] = "first"
  /\ \/ /\ queue # <<>>
        /\ ~closed
        /\ batch' = [batch EXCEPT ![w] = <<Head(queue)>>]
        /\ queue' = Tail(queue)
        /\ wpc' = [wpc EXCEPT ![w] = "collect"]
     \/ /\ closed
        /\ wpc' = [wpc EXCEPT ![w] = "exited"]
        /\ UNCHANGED <<batch, queue>>
  /\ UNCHANGED <<closed, response, results, closer, journal, clientVars>>

\* A closed channel still yields what is in its buffer.
TakeFirst(w) ==
  /\ wpc[w] = "first"
  /\ \/ /\ queue # <<>>
        /\ batch' = [batch EXCEPT ![w] = <<Head(queue)>>]
        /\ queue' = Tail(queue)
        /\ wpc' = [wpc EXCEPT ![w] = "collect"]
     \/ /\ queue = <<>> /\ closed
        /\ wpc' = [wpc EXCEPT ![w] = "exited"]
        /\ UNCHANGED <<batch, queue>>
  /\ UNCHANGED <<closed, response, results, closer, journal, clientVars>>

\* Mutant: one request more than a batch may hold.
MayCollectOneMore(w) == Len(batch[w]) <= MaxBatch

MayCollect(w) == Len(batch[w]) < MaxBatch

\* Mutant: a request read as the timer fires is dropped.
CollectOrDrop(w) ==
  /\ wpc[w] = "collect"
  /\ MayCollect(w)
  /\ queue # <<>>
  /\ \/ batch' = [batch EXCEPT ![w] = Append(@, Head(queue))]
     \/ UNCHANGED batch
  /\ queue' = Tail(queue)
  /\ UNCHANGED <<closed, response, wpc, results, closer, journal, clientVars>>

Collect(w) ==
  /\ wpc[w] = "collect"
  /\ MayCollect(w)
  /\ queue # <<>>
  /\ batch' = [batch EXCEPT ![w] = Append(@, Head(queue))]
  /\ queue' = Tail(queue)
  /\ UNCHANGED <<closed, response, wpc, results, closer, journal, clientVars>>

\* Mutant: the timer is never read.
MayPostWhenFull(w) == wpc[w] = "collect" /\ ~MayCollect(w)

\* The batch is full, the channel is closed and empty, or maxWait is over,
\* which may be at any moment.
MayPost(w) == wpc[w] = "collect"

\* The store commits the members of a batch whose positions are in S.
CommitMembers(w, S) ==
  journal' = [c \in Client |-> journal[c] + Cardinality({k \in S : batch[w][k] = c})]

\* CreateTransactionsBatch posts some members and refuses the others, ...
PostBatch(w) ==
  /\ MayPost(w)
  /\ Len(batch[w]) \in 1..MaxPostingBatchSize
  /\ \E S \in SUBSET DOMAIN batch[w] :
       /\ CommitMembers(w, S)
       /\ results' = [results EXCEPT ![w] =
            [k \in DOMAIN batch[w] |-> IF k \in S THEN Posted(batch[w][k]) ELSE Refused]]
  /\ wpc' = [wpc EXCEPT ![w] = "reply"]
  /\ UNCHANGED <<queue, closed, response, batch, closer, clientVars>>

\* ... or returns one error for all of them, committed or not.
PostBatchFails(w) ==
  /\ MayPost(w)
  /\ \/ /\ results' = [results EXCEPT ![w] = [k \in DOMAIN batch[w] |-> Refused]]
        /\ UNCHANGED journal
     \/ \E S \in SUBSET DOMAIN batch[w] :
          /\ CommitMembers(w, S)
          /\ results' = [results EXCEPT ![w] = [k \in DOMAIN batch[w] |-> Lost]]
  /\ wpc' = [wpc EXCEPT ![w] = "reply"]
  /\ UNCHANGED <<queue, closed, response, batch, closer, clientVars>>

\* Mutant: the results are matched with the members from the other end.
ReplyReversed(w) ==
  /\ wpc[w] = "reply"
  /\ response[Head(batch[w])] = <<>>
  /\ response' = [response EXCEPT ![Head(batch[w])] = Append(@, Last(results[w]))]
  /\ batch' = [batch EXCEPT ![w] = Tail(@)]
  /\ results' = [results EXCEPT ![w] = Front(@)]
  /\ wpc' = [wpc EXCEPT ![w] = IF Len(batch[w]) = 1 THEN "first" ELSE "reply"]
  /\ UNCHANGED <<queue, closed, closer, journal, clientVars>>

\* The members get their results one after the other.
Reply(w) ==
  /\ wpc[w] = "reply"
  /\ response[Head(batch[w])] = <<>>
  /\ response' = [response EXCEPT ![Head(batch[w])] = Append(@, Head(results[w]))]
  /\ batch' = [batch EXCEPT ![w] = Tail(@)]
  /\ results' = [results EXCEPT ![w] = Tail(@)]
  /\ wpc' = [wpc EXCEPT ![w] = IF Len(batch[w]) = 1 THEN "first" ELSE "reply"]
  /\ UNCHANGED <<queue, closed, closer, journal, clientVars>>

-----------------------------------------------------------------------------
(* Close, which main defers: it runs when the server has stopped listening *)
(* and handlers may still be under way.                                    *)

Close ==
  /\ closer = "running"
  /\ closed' = TRUE
  /\ closer' = "waiting"
  /\ UNCHANGED <<queue, response, journal, clientVars, workerVars>>

CloseReturns ==
  /\ closer = "waiting"
  /\ \A w \in Worker : wpc[w] = "exited"
  /\ closer' = "returned"
  /\ UNCHANGED <<queue, closed, response, journal, clientVars, workerVars>>

-----------------------------------------------------------------------------
ClientStep(c) == Send(c) \/ Receive(c)
WorkerStep(w) ==
  TakeFirst(w) \/ PostBatch(w) \/ PostBatchFails(w) \/ Reply(w)

\* The calls are over and Close has returned.
Finished ==
  /\ \A c \in Client : pc[c] \in {"done", "panicked"}
  /\ closer = "returned"
  /\ UNCHANGED vars

Next ==
  \/ \E c \in Client : Submit(c) \/ Direct(c) \/ ClientStep(c)
  \/ \E w \in Worker : WorkerStep(w) \/ Collect(w)
  \/ Close \/ CloseReturns
  \/ Finished

\* Goroutines are scheduled, timers fire and the store returns.  Nothing
\* obliges anybody to call Close.
Fairness ==
  /\ \A c \in Client : WF_vars(ClientStep(c))
  /\ \A w \in Worker : WF_vars(WorkerStep(w))
  /\ WF_vars(CloseReturns)

Spec == Init /\ [][Next]_vars
FairSpec == Spec /\ Fairness

-----------------------------------------------------------------------------
(* Properties.                                                             *)

Result == {Open, Refused, Lost} \cup {Posted(c) : c \in Client}

\* The type of every variable; a worker never gathers more than the store
\* takes in one call, and the buffer keeps its capacity.
TypeOK ==
  /\ queue \in Seq(Client) /\ Len(queue) <= Capacity
  /\ closed \in BOOLEAN
  /\ pc \in [Client -> {"idle", "send", "wait", "done", "panicked"}]
  /\ response \in [Client -> {<<>>} \cup {<<r>> : r \in Result}]
  /\ result \in [Client -> Result]
  /\ wpc \in [Worker -> {"first", "collect", "reply", "exited"}]
  /\ batch \in [Worker -> Seq(Client)]
  /\ results \in [Worker -> Seq(Result)]
  /\ closer \in {"running", "waiting", "returned"}
  /\ journal \in [Client -> Nat]
  /\ \A w \in Worker : Len(batch[w]) <= MaxPostingBatchSize

\* Where the request of a call may be: the buffer, the batches, its channel.
Places(c) ==
  ({"queue"} \X {k \in DOMAIN queue : queue[k] = c})
  \cup ({"response"} \X DOMAIN response[c])
  \cup UNION {{"batch"} \X {w} \X {k \in DOMAIN batch[w] : batch[w][k] = c} : w \in Worker}

\* A call that waits has its request, or its answer, in exactly one place; a
\* call that does not wait has none anywhere.  No worker drops a request when
\* the timer fires or the channel closes, and none is answered twice.
OnePlace ==
  \A c \in Client : Cardinality(Places(c)) = IF pc[c] = "wait" THEN 1 ELSE 0

\* Every call gets its own result: "posted" names its own posting, any other
\* answer, and a panic, mean that nothing was posted (a lost acknowledgement
\* apart), and nothing is posted twice.
OwnResults ==
  \A c \in Client :
    /\ journal[c] <= 1
    /\ result[c].status = "posted" => result[c].txn = c /\ journal[c] = 1
    /\ result[c].status = "refused" \/ pc[c] = "panicked" => journal[c] = 0

\* When Close has returned the store is at rest: no request is left behind in
\* the buffer or in a batch, and every call that waits has its answer ready.
CloseDrains ==
  closer = "returned" =>
    /\ queue = <<>>
    /\ \A w \in Worker : batch[w] = <<>>
    /\ \A c \in Client : pc[c] = "wait" => response[c] # <<>>

\* Every call ends, a full buffer, a half-filled batch and a concurrent Close
\* notwithstanding; and Close returns.
CallsEnd ==
  /\ \A c \in Client : pc[c] # "idle" ~> pc[c] \in {"done", "panicked"}
  /\ closer = "waiting" ~> closer = "returned"
=============================================================================
