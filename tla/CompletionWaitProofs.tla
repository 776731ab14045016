----------------------- MODULE CompletionWaitProofs -----------------------
(***************************************************************************)
(* Machine-checked proofs about CompletionWait, for every set of items,    *)
(* keys, handlers and workers.                                             *)
(***************************************************************************)
EXTENDS CompletionWait, TLAPS

\* Where a call is, and what it has by then: it is subscribed to the key of
\* its request in Subscribed, and gives no answer before Answered.
Subscribed == {"reread", "select", "final", "unsubscribe"}
Answered == {"unsubscribe", "done"}

CallsAdvance ==
  \A w \in Waiter :
    /\ pc[w] \notin {"idle", "done"} => call[w].key \in Key
    /\ pc[w] \notin Subscribed \cup {"done"} => closes[w] = 0
    /\ pc[w] \notin Answered => answer[w].status = 0
    /\ closes[w] > 0 \/ answer[w].status = 200 \/ call[w].early => call[w].key \in Key

\* What the workers notify has been committed.
OwedIsComplete == \A p \in Worker : owes[p] \subseteq complete

\* A call made after the completion finds it whenever it reads.
EarlyIsComplete == \A w \in Waiter : call[w].early => IsComplete(w)

\* The inductive invariant.
IInv ==
  /\ TypeOK
  /\ SubscriptionsAreCalls
  /\ CallsAdvance
  /\ OwedIsComplete
  /\ EarlyIsComplete
  /\ NoLostWakeup
  /\ AnswersCurrent

-----------------------------------------------------------------------------
(* The subscriptions, seen from a key.                                     *)

\* The map without its empty entries.
MapOK ==
  /\ DOMAIN waiters \subseteq Key
  /\ \A k \in DOMAIN waiters : waiters[k] \subseteq Waiter /\ waiters[k] # {}

\* Subscribe adds one handler to one key.
LEMMA SubscribeAdds ==
  ASSUME MapOK, NEW w \in Waiter, NEW k \in Key, Subscribe(w, k)
  PROVE  /\ MapOK'
         /\ \A j \in Key : Subscribers(j)' =
              IF j = k THEN Subscribers(k) \cup {w} ELSE Subscribers(j)
  BY DEF MapOK, Subscribe, Subscribers

\* unsubscribe takes one handler from one key, and the key with its last one.
LEMMA UnsubscribeRemoves ==
  ASSUME MapOK, NEW w \in Waiter, NEW k \in Key, Unsubscribe(w, k)
  PROVE  /\ MapOK'
         /\ \A j \in Key : Subscribers(j)' =
              IF j = k THEN Subscribers(k) \ {w} ELSE Subscribers(j)
<1>1. CASE Subscribers(k) \subseteq {w}
  BY <1>1 DEF MapOK, Unsubscribe, Subscribers, Restrict
<1>2. CASE ~(Subscribers(k) \subseteq {w})
  <2>1. k \in DOMAIN waiters
    BY <1>2 DEF Subscribers
  <2>2. waiters' = [waiters EXCEPT ![k] = waiters[k] \ {w}]
    BY <1>2 DEF Unsubscribe
  <2>3. DOMAIN waiters' = DOMAIN waiters
    BY <2>2
  <2>4. \A j \in DOMAIN waiters : waiters'[j] = IF j = k THEN waiters[k] \ {w} ELSE waiters[j]
    BY <2>2
  <2>5. waiters[k] \ {w} # {}
    BY <1>2, <2>1 DEF Subscribers
  <2> QED
    BY <2>1, <2>3, <2>4, <2>5 DEF MapOK, Subscribers
<1> QED
  BY <1>1, <1>2

\* notify takes the key with all its handlers.
LEMMA NotifyEmpties ==
  ASSUME MapOK, NEW k \in Key, Notify(k)
  PROVE  /\ MapOK'
         /\ \A j \in Key : Subscribers(j)' = IF j = k THEN {} ELSE Subscribers(j)
  BY DEF MapOK, Notify, Subscribers, Restrict

\* What does not touch the map.
LEMMA MapUnchanged ==
  ASSUME UNCHANGED waiters
  PROVE  MapOK' = MapOK /\ \A j \in Key : Subscribers(j)' = Subscribers(j)
  BY DEF MapOK, Subscribers

-----------------------------------------------------------------------------
(* The actions.                                                            *)

\* Nobody waits for anything.
LEMMA InitIInv == Init => IInv
  BY WaitAssumption DEF Init, IInv, TypeOK, SubscriptionsAreCalls, Subscribers, CallsAdvance,
     OwedIsComplete, EarlyIsComplete, NoLostWakeup, AnswersCurrent, NoCall, NoAnswer,
     Subscribed, Answered, IsComplete

\* What a worker commits it owes, so a call blocked on it is still to be woken.
LEMMA CommitKeeps ==
  ASSUME IInv, NEW S \in SUBSET Item, NEW p \in Worker, Commit(p, S)
  PROVE  IInv'
<1> USE DEF Commit, IInv, waiterVars
<1>1. TypeOK'
  BY DEF TypeOK
<1>2. SubscriptionsAreCalls'
  BY DEF SubscriptionsAreCalls, Subscribers
<1>3. CallsAdvance' /\ OwedIsComplete' /\ EarlyIsComplete'
  BY DEF CallsAdvance, OwedIsComplete, EarlyIsComplete, IsComplete, TypeOK
<1>4. NoLostWakeup'
  BY DEF NoLostWakeup, TypeOK
<1>5. AnswersCurrent'
  BY DEF AnswersCurrent, IsComplete
<1> QED
  BY <1>1, <1>2, <1>3, <1>4, <1>5

\* What is committed without a notification is silent.
LEMMA CommitSilentlyKeeps ==
  ASSUME IInv, NEW S \in SUBSET Item, CommitSilently(S)
  PROVE  IInv'
<1> USE DEF CommitSilently, IInv, waiterVars
<1>1. TypeOK'
  BY DEF TypeOK
<1>2. SubscriptionsAreCalls'
  BY DEF SubscriptionsAreCalls, Subscribers
<1>3. CallsAdvance' /\ OwedIsComplete' /\ EarlyIsComplete'
  BY DEF CallsAdvance, OwedIsComplete, EarlyIsComplete, IsComplete, TypeOK
<1>4. NoLostWakeup'
  BY DEF NoLostWakeup, TypeOK
<1>5. AnswersCurrent'
  BY DEF AnswersCurrent, IsComplete
<1> QED
  BY <1>1, <1>2, <1>3, <1>4, <1>5

\* The calls that notify wakes wait for an item that is complete, and each of
\* them is in the map because its channel is open.
LEMMA NotifyKeeps ==
  ASSUME IInv, NEW p \in Worker, NEW i \in owes[p],
         Notify(Canonical[i]),
         owes' = [owes EXCEPT ![p] = @ \ {i}],
         UNCHANGED <<complete, silent, pc, call, answer>>
  PROVE  IInv'
<1> DEFINE k == Canonical[i]
<1>1. i \in Item /\ k \in Key /\ Names[k] = i /\ i \in complete
  BY WaitAssumption DEF IInv, TypeOK, OwedIsComplete
<1> HIDE DEF k
<1>2. MapOK' /\ \A j \in Key : Subscribers(j)' = IF j = k THEN {} ELSE Subscribers(j)
  BY <1>1, NotifyEmpties DEF IInv, TypeOK, SubscriptionsAreCalls, MapOK, k
<1>3. \A w \in Waiter :
        closes'[w] = IF pc[w] \in Subscribed /\ call[w].key = k THEN 1 ELSE closes[w]
  BY <1>1 DEF Notify, IInv, SubscriptionsAreCalls, TypeOK, CallsAdvance, Subscribed, k
<1>4. closes' \in [Waiter -> 0..1]
  BY <1>3 DEF Notify, IInv, TypeOK
<1>5. TypeOK'
  BY <1>2, <1>4 DEF IInv, TypeOK, MapOK
<1>6. SubscriptionsAreCalls'
  BY <1>2, <1>3 DEF IInv, SubscriptionsAreCalls, MapOK, Subscribed
<1>7. CallsAdvance' /\ OwedIsComplete' /\ EarlyIsComplete'
  BY <1>1, <1>3 DEF IInv, TypeOK, CallsAdvance, OwedIsComplete, EarlyIsComplete, IsComplete, Subscribed
<1>8. NoLostWakeup'
  <2> SUFFICES ASSUME NEW w \in Waiter, pc[w] = "select",
                      Names[call[w].key] \in complete \ silent,
                      call[w].key = Canonical[Names[call[w].key]],
                      closes'[w] # 1
               PROVE  \E q \in Worker : Names[call[w].key] \in owes'[q]
    BY DEF NoLostWakeup
  <2>1. call[w].key # k /\ closes[w] # 1
    BY <1>3 DEF Subscribed
  <2>2. PICK q \in Worker : Names[call[w].key] \in owes[q]
    BY <2>1 DEF IInv, NoLostWakeup
  <2>3. Names[call[w].key] # i
    BY <2>1 DEF k
  <2> QED
    BY <2>2, <2>3 DEF IInv, TypeOK
<1>9. AnswersCurrent'
  BY <1>1, <1>3 DEF IInv, AnswersCurrent, IsComplete
<1> QED
  BY <1>5, <1>6, <1>7, <1>8, <1>9 DEF IInv

-----------------------------------------------------------------------------
(* The steps of the handlers.                                              *)

\* What the invariant says of a handler w that is at l with call c, whose
\* channel was closed n times and whose answer is a.
HandlerAt(w, l, c, n, a) ==
  LET i == Names[c.key] IN
  /\ l \in {"idle", "read", "subscribe", "done"} \cup Subscribed
  /\ c \in [key : Key \cup {Nothing}, wait : BOOLEAN, early : BOOLEAN]
  /\ n \in 0..1
  /\ a \in [status : {0, 200, 400, 404, 500}, complete : BOOLEAN]
  /\ \A k \in Key : w \in Subscribers(k) <=> l \in Subscribed /\ c.key = k /\ n = 0
  /\ l \notin {"idle", "done"} => c.key \in Key
  /\ l \notin Subscribed \cup {"done"} => n = 0
  /\ l \notin Answered => a.status = 0
  /\ n > 0 \/ a.status = 200 \/ c.early => c.key \in Key
  /\ c.early => i \in complete
  /\ l = "select" /\ i \in complete \ silent /\ c.key = Canonical[i]
     => n = 1 \/ \E p \in Worker : i \in owes[p]
  /\ n > 0 => i \in complete
  /\ a.status = 200 => (a.complete => i \in complete) /\ (c.early => a.complete)

HandlerOK(w) == HandlerAt(w, pc[w], call[w], closes[w], answer[w])

\* The types of the handlers' variables, and what a step of w leaves alone.
HandlerTypes ==
  /\ pc \in [Waiter -> {"idle", "read", "subscribe", "done"} \cup Subscribed]
  /\ call \in [Waiter -> [key : Key \cup {Nothing}, wait : BOOLEAN, early : BOOLEAN]]
  /\ closes \in [Waiter -> 0..1]
  /\ answer \in [Waiter -> [status : {0, 200, 400, 404, 500}, complete : BOOLEAN]]

OthersKept(w) ==
  \A v \in Waiter \ {w} :
    pc'[v] = pc[v] /\ call'[v] = call[v] /\ closes'[v] = closes[v] /\ answer'[v] = answer[v]

\* The invariant, seen from one handler.
LEMMA HandlersOK ==
  ASSUME IInv, NEW w \in Waiter
  PROVE  HandlerOK(w)
  BY DEF IInv, HandlerOK, HandlerAt, IsComplete, TypeOK, SubscriptionsAreCalls, CallsAdvance, EarlyIsComplete,
     NoLostWakeup, AnswersCurrent, Subscribed

\* A step of one handler keeps the invariant if it keeps what concerns that
\* handler, and the subscriptions of the others.
LEMMA HandlerStepKeeps ==
  ASSUME IInv, NEW w \in Waiter,
         UNCHANGED <<complete, silent, owes>>,
         HandlerTypes', OthersKept(w),
         MapOK',
         \A v \in Waiter \ {w} : \A k \in Key : v \in Subscribers(k)' <=> v \in Subscribers(k),
         HandlerOK(w)'
  PROVE  IInv'
<1>1. ASSUME NEW v \in Waiter, v # w
      PROVE  HandlerOK(v)'
  <2>1. pc'[v] = pc[v] /\ call'[v] = call[v] /\ closes'[v] = closes[v] /\ answer'[v] = answer[v]
    BY <1>1 DEF OthersKept
  <2>2. HandlerOK(v)
    BY HandlersOK
  <2> QED
    BY <1>1, <2>1, <2>2 DEF HandlerOK, HandlerAt
<1>2. \A v \in Waiter : HandlerOK(v)'
  BY <1>1
<1>4. TypeOK'
  BY DEF IInv, TypeOK, HandlerTypes, MapOK, Subscribed
<1>5. SubscriptionsAreCalls'
  BY <1>2 DEF HandlerOK, HandlerAt, SubscriptionsAreCalls, MapOK, Subscribed
<1>6. CallsAdvance' /\ EarlyIsComplete' /\ NoLostWakeup' /\ AnswersCurrent'
  BY <1>2 DEF HandlerOK, HandlerAt, IsComplete, CallsAdvance, EarlyIsComplete, NoLostWakeup, AnswersCurrent
<1>7. OwedIsComplete'
  BY DEF IInv, OwedIsComplete
<1> QED
  BY <1>4, <1>5, <1>6, <1>7 DEF IInv

\* The steps that leave the subscriptions alone.
LEMMA QuietKeeps ==
  ASSUME IInv, NEW w \in Waiter, UNCHANGED <<complete, silent, owes, waiters>>,
         HandlerTypes', OthersKept(w),
         HandlerAt(w, pc'[w], call'[w], closes'[w], answer'[w])
  PROVE  IInv'
<1>1. MapOK /\ MapOK' = MapOK /\ \A j \in Key : Subscribers(j)' = Subscribers(j)
  BY MapUnchanged DEF IInv, TypeOK, SubscriptionsAreCalls, MapOK
<1>2. HandlerOK(w)'
  BY <1>1 DEF HandlerOK, HandlerAt
<1>3. MapOK' /\ \A v \in Waiter \ {w} : \A k \in Key : v \in Subscribers(k)' <=> v \in Subscribers(k)
  BY <1>1
<1> QED
  BY <1>2, <1>3, HandlerStepKeeps

\* The beginning and the end of a request.
LEMMA RequestKeeps ==
  ASSUME IInv, NEW w \in Waiter,
         RefuseRequest(w) \/ NextRequest(w)
         \/ \E k \in Key, wait \in BOOLEAN : Request(w, k, wait)
  PROVE  IInv'
<1> USE DEF Goto, Give
<1>1. HandlerAt(w, pc[w], call[w], closes[w], answer[w])
  BY HandlersOK DEF HandlerOK
<1>2. CASE RefuseRequest(w)
  <2>1. HandlerAt(w, "done", call[w], closes[w], [status |-> 400, complete |-> FALSE])
    BY <1>1, <1>2 DEF HandlerAt, RefuseRequest, Subscribed, Answered
  <2>2. /\ pc'[w] = "done" /\ call'[w] = call[w] /\ closes'[w] = closes[w]
        /\ answer'[w] = [status |-> 400, complete |-> FALSE]
        /\ HandlerTypes' /\ OthersKept(w)
    BY <1>2 DEF RefuseRequest, IInv, TypeOK, HandlerTypes, OthersKept, Subscribed
  <2> QED
    BY <1>2, <2>1, <2>2, QuietKeeps DEF RefuseRequest
<1>3. CASE NextRequest(w)
  <2>1. HandlerAt(w, "idle", NoCall, 0, NoAnswer)
    BY <1>1, <1>3 DEF HandlerAt, NextRequest, NoCall, NoAnswer, Subscribed, Answered
  <2>2. /\ pc'[w] = "idle" /\ call'[w] = NoCall /\ closes'[w] = 0 /\ answer'[w] = NoAnswer
        /\ HandlerTypes' /\ OthersKept(w)
    BY <1>3 DEF NextRequest, NoCall, NoAnswer, IInv, TypeOK, HandlerTypes, OthersKept, Subscribed
  <2> QED
    BY <1>3, <2>1, <2>2, QuietKeeps DEF NextRequest
<1>4. ASSUME NEW k \in Key, NEW wait \in BOOLEAN, Request(w, k, wait)
      PROVE  IInv'
  <2> DEFINE c == [key |-> k, wait |-> wait, early |-> Names[k] \in complete]
  <2>1. HandlerAt(w, "read", c, closes[w], answer[w])
    <3>1. pc[w] = "idle"
      BY <1>4 DEF Request
    <3>2. CASE Names[k] \in complete
      <4>1. HandlerAt(w, "read", [key |-> k, wait |-> wait, early |-> TRUE], closes[w], answer[w])
        BY <1>1, <3>1, <3>2 DEF HandlerAt, Subscribed, Answered
      <4> QED
        BY <3>2, <4>1
    <3>3. CASE Names[k] \notin complete
      <4>1. HandlerAt(w, "read", [key |-> k, wait |-> wait, early |-> FALSE], closes[w], answer[w])
        BY <1>1, <3>1, <3>3 DEF HandlerAt, Subscribed, Answered
      <4>2. (Names[k] \in complete) = FALSE
        BY <3>3
      <4> QED
        BY <4>1, <4>2
    <3> QED
      BY <3>2, <3>3
  <2>2. c \in [key : Key \cup {Nothing}, wait : BOOLEAN, early : BOOLEAN]
    OBVIOUS
  <2>3. call' = [call EXCEPT ![w] = c]
    BY <1>4 DEF Request
  <2> HIDE DEF c
  <2>4. /\ pc'[w] = "read" /\ call'[w] = c /\ closes'[w] = closes[w] /\ answer'[w] = answer[w]
        /\ HandlerTypes' /\ OthersKept(w)
    BY <1>4, <2>2, <2>3 DEF Request, IInv, TypeOK, HandlerTypes, OthersKept, Subscribed
  <2> QED
    BY <1>4, <2>1, <2>4, QuietKeeps DEF Request
<1> QED
  BY <1>2, <1>3, <1>4

\* What a call may say of its item.
Truthful(w, status, done) ==
  status = 200 => (done <=> IsComplete(w))

\* A read that ends the call.
LEMMA AnswerKeeps ==
  ASSUME IInv, NEW w \in Waiter, pc[w] \in {"read", "reread", "final"},
         NEW status \in {200, 404, 500}, NEW done \in BOOLEAN,
         Truthful(w, status, done),
         Give(w, status, done), Return(w),
         UNCHANGED <<complete, silent, owes, waiters, call, closes>>
  PROVE  IInv'
<1> DEFINE to == IF pc[w] = "read" THEN "done" ELSE "unsubscribe"
           given == [status |-> status, complete |-> done]
<1>1. HandlerAt(w, pc[w], call[w], closes[w], answer[w])
  BY HandlersOK DEF HandlerOK
<1>2. status = 200 => (done <=> Names[call[w].key] \in complete)
  BY DEF IsComplete, Truthful
<1>3. HandlerAt(w, to, call[w], closes[w], given)
  BY <1>1, <1>2 DEF HandlerAt, Subscribed, Answered
<1>4. pc' = [pc EXCEPT ![w] = to] /\ answer' = [answer EXCEPT ![w] = given]
  BY DEF Give, Return, Goto
<1>5. to \in {"idle", "read", "subscribe", "done"} \cup Subscribed
  BY DEF Subscribed
<1>6. given \in [status : {0, 200, 400, 404, 500}, complete : BOOLEAN]
  OBVIOUS
<1> HIDE DEF to, given
<1>7. /\ pc'[w] = to /\ call'[w] = call[w] /\ closes'[w] = closes[w] /\ answer'[w] = given
      /\ HandlerTypes' /\ OthersKept(w)
  BY <1>4, <1>5, <1>6 DEF IInv, TypeOK, HandlerTypes, OthersKept, Subscribed
<1> QED
  BY <1>3, <1>7, QuietKeeps

\* A step after which the call goes on: it blocks only when it has found the
\* item incomplete, with its subscription already in the map.
LEMMA GoOnKeeps ==
  ASSUME IInv, NEW w \in Waiter,
         NEW l \in {"subscribe", "select", "final"}, Goto(w, l),
         \/ pc[w] = "read" /\ l = "subscribe"
         \/ pc[w] = "reread" /\ l = "select" /\ ~IsComplete(w)
         \/ pc[w] = "select" /\ l = "final",
         UNCHANGED <<complete, silent, owes, waiters, call, closes, answer>>
  PROVE  IInv'
<1>1. HandlerAt(w, pc[w], call[w], closes[w], answer[w])
  BY HandlersOK DEF HandlerOK
<1>2. HandlerAt(w, l, call[w], closes[w], answer[w])
  BY <1>1 DEF HandlerAt, Subscribed, Answered, IsComplete
<1>3. pc'[w] = l /\ HandlerTypes' /\ OthersKept(w)
  BY DEF Goto, IInv, TypeOK, HandlerTypes, OthersKept, Subscribed
<1> QED
  BY <1>2, <1>3, QuietKeeps

\* The reads and the end of the wait.
LEMMA ReadsKeep ==
  ASSUME IInv, NEW w \in Waiter,
         ReadFails(w) \/ Read(w) \/ Reread(w) \/ Wake(w) \/ Timeout(w) \/ FinalRead(w)
  PROVE  IInv'
<1>0. IsComplete(w) \in BOOLEAN /\ Truthful(w, 200, IsComplete(w))
  BY DEF IsComplete, Truthful
<1>1. CASE ReadFails(w)
  <2> DEFINE e == ErrorStatus(call[w].key, Names[call[w].key] # Nothing)
  <2>1. e \in {200, 404, 500} /\ Truthful(w, e, FALSE)
    BY DEF ErrorStatus, Truthful
  <2>2. Give(w, e, FALSE)
    BY <1>1 DEF ReadFails
  <2>3. /\ pc[w] \in {"read", "reread", "final"} /\ Return(w)
        /\ UNCHANGED <<complete, silent, owes, waiters, call, closes>>
    BY <1>1 DEF ReadFails
  <2> HIDE DEF e
  <2> QED
    BY <2>1, <2>2, <2>3, AnswerKeeps, ZenonT(60)
<1>2. CASE Read(w)
  <2>1. CASE Give(w, 200, IsComplete(w)) /\ Return(w)
    BY <1>0, <1>2, <2>1, AnswerKeeps DEF Read
  <2>2. CASE Goto(w, "subscribe") /\ UNCHANGED answer
    BY <1>2, <2>2, GoOnKeeps DEF Read
  <2> QED
    BY <1>2, <2>1, <2>2 DEF Read
<1>3. CASE Reread(w)
  <2>1. CASE IsComplete(w) /\ Give(w, 200, TRUE) /\ Return(w)
    <3>1. Truthful(w, 200, TRUE)
      BY <2>1 DEF Truthful
    <3> QED
      BY <1>3, <2>1, <3>1, AnswerKeeps, ZenonT(60) DEF Reread
  <2>2. CASE ~IsComplete(w) /\ Goto(w, "select") /\ UNCHANGED answer
    BY <1>3, <2>2, GoOnKeeps DEF Reread
  <2> QED
    BY <1>3, <2>1, <2>2 DEF Reread
<1>4. CASE Wake(w) \/ Timeout(w)
  BY <1>4, GoOnKeeps DEF Wake, Timeout
<1>5. CASE FinalRead(w)
  BY <1>0, <1>5, AnswerKeeps DEF FinalRead
<1> QED
  BY <1>1, <1>2, <1>3, <1>4, <1>5

\* The two steps that change the map.
LEMMA SubscribeKeeps ==
  ASSUME IInv, NEW w \in Waiter, SubscribeStep(w) \/ UnsubscribeStep(w)
  PROVE  IInv'
<1>1. HandlerAt(w, pc[w], call[w], closes[w], answer[w])
  BY HandlersOK DEF HandlerOK
<1>2. MapOK
  BY DEF IInv, TypeOK, SubscriptionsAreCalls, MapOK
<1> DEFINE k == call[w].key
<1>3. k \in Key
  BY <1>1 DEF HandlerAt, SubscribeStep, UnsubscribeStep
<1>4. CASE SubscribeStep(w)
  <2>1. /\ pc' = [pc EXCEPT ![w] = "reread"] /\ closes' = [closes EXCEPT ![w] = 0]
        /\ UNCHANGED <<complete, silent, owes, call, answer>>
    BY <1>4 DEF SubscribeStep, Subscribe, Goto
  <2>2. pc'[w] = "reread" /\ closes'[w] = 0 /\ HandlerTypes' /\ OthersKept(w)
    BY <2>1 DEF IInv, TypeOK, HandlerTypes, OthersKept, Subscribed
  <2>3. MapOK' /\ \A j \in Key : Subscribers(j)' =
                     IF j = k THEN Subscribers(k) \cup {w} ELSE Subscribers(j)
    BY <1>2, <1>3, <1>4, SubscribeAdds DEF SubscribeStep
  <2>4. pc[w] = "subscribe"
    BY <1>4 DEF SubscribeStep
  <2>5. HandlerOK(w)'
    BY <1>1, <1>3, <2>1, <2>2, <2>3, <2>4 DEF HandlerOK, HandlerAt, Subscribed, Answered
  <2>6. \A v \in Waiter \ {w} : \A j \in Key : v \in Subscribers(j)' <=> v \in Subscribers(j)
    BY <2>3
  <2>7. MapOK'
    BY <2>3
  <2> QED
    BY <2>1, <2>2, <2>5, <2>6, <2>7, HandlerStepKeeps
<1>5. CASE UnsubscribeStep(w)
  <2>1. /\ pc' = [pc EXCEPT ![w] = "done"]
        /\ UNCHANGED <<complete, silent, owes, call, closes, answer>>
    BY <1>5 DEF UnsubscribeStep, Goto
  <2>2. pc'[w] = "done" /\ HandlerTypes' /\ OthersKept(w)
    BY <2>1 DEF IInv, TypeOK, HandlerTypes, OthersKept, Subscribed
  <2>3. MapOK' /\ \A j \in Key : Subscribers(j)' =
                     IF j = k THEN Subscribers(k) \ {w} ELSE Subscribers(j)
    BY <1>2, <1>3, <1>5, UnsubscribeRemoves DEF UnsubscribeStep
  <2>4. pc[w] = "unsubscribe"
    BY <1>5 DEF UnsubscribeStep
  <2>5. HandlerOK(w)'
    BY <1>1, <1>3, <2>1, <2>2, <2>3, <2>4 DEF HandlerOK, HandlerAt, Subscribed, Answered
  <2>6. \A v \in Waiter \ {w} : \A j \in Key : v \in Subscribers(j)' <=> v \in Subscribers(j)
    BY <2>3
  <2>7. MapOK'
    BY <2>3
  <2> QED
    BY <2>1, <2>2, <2>5, <2>6, <2>7, HandlerStepKeeps
<1> QED
  BY <1>4, <1>5

-----------------------------------------------------------------------------
(* The theorems.                                                           *)

\* Every step keeps the invariant.
LEMMA NextKeeps == IInv /\ [Next]_vars => IInv'
<1> SUFFICES ASSUME IInv, [Next]_vars
             PROVE  IInv'
  OBVIOUS
<1>1. ASSUME NEW S \in SUBSET Item, NEW p \in Worker, Commit(p, S)
      PROVE  IInv'
  BY <1>1, CommitKeeps
<1>2. ASSUME NEW S \in SUBSET Item, CommitSilently(S)
      PROVE  IInv'
  BY <1>2, CommitSilentlyKeeps
<1>3. ASSUME NEW p \in Worker, NotifyNext(p)
      PROVE  IInv'
  BY <1>3, NotifyKeeps DEF NotifyNext
<1>4. ASSUME NEW w \in Waiter, NEW k \in Key, NEW wait \in BOOLEAN, Request(w, k, wait)
      PROVE  IInv'
  BY <1>4, RequestKeeps
<1>5. ASSUME NEW w \in Waiter, RefuseRequest(w) \/ NextRequest(w)
      PROVE  IInv'
  BY <1>5, RequestKeeps
<1>6. ASSUME NEW w \in Waiter, WaiterStep(w)
      PROVE  IInv'
  BY <1>6, ReadsKeep, SubscribeKeeps DEF WaiterStep
<1>7. CASE UNCHANGED vars
  BY <1>7 DEF vars, IInv, TypeOK, SubscriptionsAreCalls, Subscribers, CallsAdvance,
     OwedIsComplete, EarlyIsComplete, IsComplete, NoLostWakeup, AnswersCurrent
<1> QED
  BY <1>1, <1>2, <1>3, <1>4, <1>5, <1>6, <1>7 DEF Next

\* The invariant holds in every state of the waiting calls.
THEOREM Inductive == Spec => []IInv
<1>1. Init => IInv
  BY InitIInv
<1>2. IInv /\ [Next]_vars => IInv'
  BY NextKeeps
<1> QED
  BY <1>1, <1>2, PTL DEF Spec

\* No channel of completionWaiters is closed twice, and every variable keeps
\* its type, however many handlers wait for however many items.
THEOREM TypeCorrect == Spec => []TypeOK
  BY Inductive, PTL DEF IInv

\* The map of completionWaiters holds exactly the waiting calls.
THEOREM Subscriptions == Spec => []SubscriptionsAreCalls
  BY Inductive, PTL DEF IInv

\* waitForCompletion loses no wake-up between its reads and its subscription.
THEOREM WakeupsArrive == Spec => []NoLostWakeup
  BY Inductive, PTL DEF IInv

\* What waitForCompletion answers is current.
THEOREM CurrentAnswers == Spec => []AnswersCurrent
  BY Inductive, PTL DEF IInv
=============================================================================
