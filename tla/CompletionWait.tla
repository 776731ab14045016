--------------------------- MODULE CompletionWait ---------------------------
(***************************************************************************)
(* Waiting for a transfer or a projection: GET /transfers/{id} and         *)
(* GET /transactions/{id}/projection-status with wait_ms, waitForCompletion *)
(* and the subscriptions of completionWaiters, against the workers that    *)
(* commit the completion and then notify.                                  *)
(*                                                                         *)
(* An item is a saga or a posted transaction; a key is what a URL may say: *)
(* the canonical UUID of an item, which is what the workers notify,        *)
(* another spelling that uuid.Parse takes for it (upper case, without      *)
(* hyphens), or the name of nothing.  A call subscribes to the key as it   *)
(* was spelled, so under another spelling only the deadline ends the wait. *)
(***************************************************************************)
EXTENDS Naturals, FiniteSets, Functions

CONSTANTS
  Item,
  Key,
  Canonical,     \* [Item -> Key]: UUID.String()
  Names,         \* [Key -> Item or Nothing]: what the read of a key finds
  Nothing,
  TransferKey,   \* the keys asked of /transfers, the others of /transactions
  Waiter,        \* handlers, each serving one request at a time
  Worker         \* transfer workers and aggregate consumers of this process

ASSUME WaitAssumption ==
  /\ Nothing \notin Item
  /\ Canonical \in [Item -> Key]
  /\ Names \in [Key -> Item \cup {Nothing}]
  /\ \A i \in Item : Names[Canonical[i]] = i
  /\ TransferKey \subseteq Key

VARIABLES
  complete,   \* the items whose completion is committed
  silent,     \* those of them that no worker here has notified or will
  owes,       \* what a worker has committed and not notified yet
  waiters,    \* the map of subscriptions; a key without any is absent
  pc,         \* what a handler is doing
  call,       \* its request
  closes,     \* how often the channel of its subscription was closed
  answer      \* its HTTP answer

vars == <<complete, silent, owes, waiters, pc, call, closes, answer>>
waiterVars == <<pc, call, closes, answer>>

NoCall == [key |-> Nothing, wait |-> FALSE, early |-> FALSE]
NoAnswer == [status |-> 0, complete |-> FALSE]

Init ==
  /\ complete = {}
  /\ silent = {}
  /\ owes = [p \in Worker |-> {}]
  /\ waiters = [k \in {} |-> {}]
  /\ pc = [w \in Waiter |-> "idle"]
  /\ call = [w \in Waiter |-> NoCall]
  /\ closes = [w \in Waiter |-> 0]
  /\ answer = [w \in Waiter |-> NoAnswer]

-----------------------------------------------------------------------------
(* completionWaiters.  Each operation holds the mutex.  A handler has one  *)
(* subscription at a time, so its name stands for the unique ID.           *)

Subscribers(k) == IF k \in DOMAIN waiters THEN waiters[k] ELSE {}

Subscribe(w, k) ==
  /\ waiters' = [j \in DOMAIN waiters \cup {k} |->
                   IF j = k THEN Subscribers(k) \cup {w} ELSE waiters[j]]
  /\ closes' = [closes EXCEPT ![w] = 0]

\* Mutant: the key keeps an empty map.
UnsubscribeKeepsKey(w, k) ==
  waiters' = [j \in DOMAIN waiters |-> waiters[j] \ {w}]

Unsubscribe(w, k) ==
  waiters' = IF Subscribers(k) \subseteq {w}
             THEN Restrict(waiters, DOMAIN waiters \ {k})
             ELSE [waiters EXCEPT ![k] = @ \ {w}]

\* Mutant: the subscriptions stay in the map.
NotifyKeepsKey(k) ==
  /\ UNCHANGED waiters
  /\ closes' = [w \in Waiter |-> closes[w] + IF w \in Subscribers(k) THEN 1 ELSE 0]

Notify(k) ==
  /\ waiters' = Restrict(waiters, DOMAIN waiters \ {k})
  /\ closes' = [w \in Waiter |-> closes[w] + IF w \in Subscribers(k) THEN 1 ELSE 0]

-----------------------------------------------------------------------------
(* The workers.                                                            *)

\* Mutant: the worker commits and notifies in the wrong order.
CommitAfterNotify(p, S) ==
  /\ owes[p] = {}
  /\ owes' = [owes EXCEPT ![p] = S]
  /\ UNCHANGED <<complete, silent, waiters, waiterVars>>

\* A batch of items commits: credits, refunds, or events applied for the
\* first time or delivered again.
Commit(p, S) ==
  /\ owes[p] = {}
  /\ complete' = complete \cup S
  /\ silent' = silent \ S
  /\ owes' = [owes EXCEPT ![p] = S]
  /\ UNCHANGED <<waiters, waiterVars>>

\* The commit takes effect here without its acknowledgement, or in another
\* process of the service: nobody is notified.
CommitSilently(S) ==
  /\ complete' = complete \cup S
  /\ silent' = silent \cup (S \ complete)
  /\ UNCHANGED <<owes, waiters, waiterVars>>

\* After the commit the items are notified one by one.
NotifyNext(p) ==
  \E i \in owes[p] :
    /\ Notify(Canonical[i])
    /\ owes' = [owes EXCEPT ![p] = @ \ {i}]
    /\ UNCHANGED <<complete, silent, pc, call, answer>>

-----------------------------------------------------------------------------
(* The handlers and waitForCompletion.                                     *)

Goto(w, l) == pc' = [pc EXCEPT ![w] = l]
Give(w, status, done) ==
  answer' = [answer EXCEPT ![w] = [status |-> status, complete |-> done]]

\* requestedWait refuses the number, or a transaction ID is not a UUID.
RefuseRequest(w) ==
  /\ pc[w] = "idle"
  /\ Give(w, 400, FALSE)
  /\ Goto(w, "done")
  /\ UNCHANGED <<complete, silent, owes, waiters, call, closes>>

\* Without a positive wait_ms the handler reads once.
Request(w, k, wait) ==
  /\ pc[w] = "idle"
  /\ call' = [call EXCEPT ![w] =
                [key |-> k, wait |-> wait, early |-> Names[k] \in complete]]
  /\ Goto(w, "read")
  /\ UNCHANGED <<complete, silent, owes, waiters, closes, answer>>

\* Where a call goes on that has read its last, with its subscription if any.
Return(w) == Goto(w, IF pc[w] = "read" THEN "done" ELSE "unsubscribe")

\* GetTransferHandler answers 404 to every error, the other handler only when
\* there is no such transaction.
ErrorStatus(k, found) == IF k \in TransferKey \/ ~found THEN 404 ELSE 500

\* A read that fails, or finds nothing, ends the call.
ReadFails(w) ==
  /\ pc[w] \in {"read", "reread", "final"}
  /\ Give(w, ErrorStatus(call[w].key, Names[call[w].key] # Nothing), FALSE)
  /\ Return(w)
  /\ UNCHANGED <<complete, silent, owes, waiters, call, closes>>

IsComplete(w) == Names[call[w].key] \in complete

\* The first read.
Read(w) ==
  /\ pc[w] = "read"
  /\ Names[call[w].key] # Nothing
  /\ \/ /\ IsComplete(w) \/ ~call[w].wait
        /\ Give(w, 200, IsComplete(w))
        /\ Return(w)
     \/ /\ ~IsComplete(w) /\ call[w].wait
        /\ Goto(w, "subscribe")
        /\ UNCHANGED answer
  /\ UNCHANGED <<complete, silent, owes, waiters, call, closes>>

\* Mutant: the call blocks without reading again.
SubscribeAndBlock(w) ==
  /\ pc[w] = "subscribe"
  /\ Subscribe(w, call[w].key)
  /\ Goto(w, "select")
  /\ UNCHANGED <<complete, silent, owes, call, answer>>

SubscribeStep(w) ==
  /\ pc[w] = "subscribe"
  /\ Subscribe(w, call[w].key)
  /\ Goto(w, "reread")
  /\ UNCHANGED <<complete, silent, owes, call, answer>>

\* The second read, which closes the race with a completion before Subscribe.
Reread(w) ==
  /\ pc[w] = "reread"
  /\ \/ IsComplete(w) /\ Give(w, 200, TRUE) /\ Return(w)
     \/ ~IsComplete(w) /\ Goto(w, "select") /\ UNCHANGED answer
  /\ UNCHANGED <<complete, silent, owes, waiters, call, closes>>

Wake(w) ==
  /\ pc[w] = "select"
  /\ closes[w] > 0
  /\ Goto(w, "final")
  /\ UNCHANGED <<complete, silent, owes, waiters, call, closes, answer>>

\* Mutant: the wait has no deadline.
TimeoutNever(w) == FALSE

\* The deadline passes or the client is gone, which may be at any moment.
Timeout(w) ==
  /\ pc[w] = "select"
  /\ Goto(w, "final")
  /\ UNCHANGED <<complete, silent, owes, waiters, call, closes, answer>>

FinalRead(w) ==
  /\ pc[w] = "final"
  /\ Give(w, 200, IsComplete(w))
  /\ Return(w)
  /\ UNCHANGED <<complete, silent, owes, waiters, call, closes>>

\* The deferred unsubscribe, before the handler writes its answer.
UnsubscribeStep(w) ==
  /\ pc[w] = "unsubscribe"
  /\ Unsubscribe(w, call[w].key)
  /\ Goto(w, "done")
  /\ UNCHANGED <<complete, silent, owes, call, closes, answer>>

\* The answer is delivered and the handler serves another request.
NextRequest(w) ==
  /\ pc[w] = "done"
  /\ Goto(w, "idle")
  /\ call' = [call EXCEPT ![w] = NoCall]
  /\ closes' = [closes EXCEPT ![w] = 0]
  /\ answer' = [answer EXCEPT ![w] = NoAnswer]
  /\ UNCHANGED <<complete, silent, owes, waiters>>

-----------------------------------------------------------------------------
WaiterStep(w) ==
  \/ Read(w) \/ ReadFails(w) \/ SubscribeStep(w) \/ Reread(w)
  \/ Wake(w) \/ Timeout(w) \/ FinalRead(w) \/ UnsubscribeStep(w)

Next ==
  \/ \E S \in SUBSET Item \ {{}} :
       CommitSilently(S) \/ \E p \in Worker : Commit(p, S)
  \/ \E p \in Worker : NotifyNext(p)
  \/ \E w \in Waiter, k \in Key, wait \in BOOLEAN : Request(w, k, wait)
  \/ \E w \in Waiter : RefuseRequest(w) \/ WaiterStep(w) \/ NextRequest(w)

\* Handlers and workers are scheduled and deadlines expire.  Nothing has to
\* complete.
Fairness ==
  /\ \A w \in Waiter : WF_vars(WaiterStep(w))
  /\ \A p \in Worker : WF_vars(NotifyNext(p))

Spec == Init /\ [][Next]_vars
FairSpec == Spec /\ Fairness

-----------------------------------------------------------------------------
(* Properties.                                                             *)

\* The type of every variable.  A channel is closed at most once: closing it
\* again would panic with the mutex held.
TypeOK ==
  /\ complete \subseteq Item
  /\ silent \subseteq complete
  /\ owes \in [Worker -> SUBSET Item]
  /\ DOMAIN waiters \subseteq Key
  /\ \A k \in DOMAIN waiters : waiters[k] \subseteq Waiter
  /\ pc \in [Waiter -> {"idle", "read", "subscribe", "reread", "select",
                        "final", "unsubscribe", "done"}]
  /\ call \in [Waiter -> [key : Key \cup {Nothing}, wait : BOOLEAN, early : BOOLEAN]]
  /\ closes \in [Waiter -> 0..1]
  /\ answer \in [Waiter -> [status : {0, 200, 400, 404, 500}, complete : BOOLEAN]]

\* The map holds exactly the calls under way whose channel is still open, each
\* under its own key, and no empty entry: no call, however it ends, leaves a
\* subscription behind, and none loses its own to the end of another one.
SubscriptionsAreCalls ==
  /\ \A k \in DOMAIN waiters : waiters[k] # {}
  /\ \A w \in Waiter, k \in Key :
       w \in Subscribers(k) <=>
         /\ pc[w] \in {"reread", "select", "final", "unsubscribe"}
         /\ call[w].key = k
         /\ closes[w] = 0

\* No wake-up is lost: a call that blocks, under the canonical ID, on an item
\* that is complete has been notified or is about to be, wherever the commit
\* and the notification fell between its two reads and its subscription.
NoLostWakeup ==
  \A w \in Waiter :
    LET i == Names[call[w].key] IN
    /\ pc[w] = "select"
    /\ i \in complete \ silent
    /\ call[w].key = Canonical[i]
    => closes[w] = 1 \/ \E p \in Worker : i \in owes[p]

\* What a call answers is current: "complete" is true, a call made after the
\* completion never answers "pending", and neither does one that is woken: its
\* channel is closed only when the completion is there to be read.
AnswersCurrent ==
  \A w \in Waiter :
    /\ closes[w] > 0 => IsComplete(w)
    /\ answer[w].status = 200 =>
         /\ answer[w].complete => IsComplete(w)
         /\ call[w].early => answer[w].complete

\* Every request is answered, notified or not.
WaitsReturn == \A w \in Waiter : pc[w] = "read" ~> pc[w] = "done"
=============================================================================
