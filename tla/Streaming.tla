----------------------------- MODULE Streaming -----------------------------
(***************************************************************************)
(* From a committed posting to the daily aggregates.  Publishers           *)
(* (PublishCommittedEvents) lease transaction_posted events from the       *)
(* outbox, publish them to JetStream and mark them processed; consumers    *)
(* (RunAggregateConsumerConcurrent) fetch messages, apply them to the      *)
(* projection together with an inbox row per event, and acknowledge them.  *)
(* Every arrow is at least once; the inbox makes the projection exactly    *)
(* once.                                                                   *)
(***************************************************************************)
EXTENDS LedgerRules

CONSTANTS
  Event,            \* transaction_posted events, as naturals: created_at and ID order
  Postings,         \* the entries the events' transactions may have, by event
  Row,              \* aggregate rows: [table, id, day]
  LedgerOf, DayOf,  \* of an event's transaction
  Publisher, Consumer,
  NoOwner,          \* lease_owner IS NULL
  Gone,             \* the lease_owner of a pass that will not come back
  ClaimLimit, FetchBatch,
  MaxFaults         \* bound on injected failures and missed deadlines, by what was posted

ASSUME StreamingAssumption ==
  /\ Event \subseteq Nat \ {0}
  /\ {NoOwner, Gone} \cap Publisher = {} /\ NoOwner # Gone
  /\ ClaimLimit \in Nat \ {0} /\ FetchBatch \in Nat \ {0}
  /\ MaxFaults \in [SUBSET Event -> Nat]

\* A posting is a finite list of entries in whole units.
ASSUME PostingsAssumption ==
  \A p \in Postings, e \in Event :
    /\ IsFiniteSet(DOMAIN p[e])
    /\ \A i \in DOMAIN p[e] : p[e][i].debit \in Int /\ p[e][i].credit \in Int

VARIABLES
  entriesOf,    \* the entries of an event's transaction
  \* outbox_events
  status, owner,
  lapsed,       \* leases past lease_expires_at
  \* publishers
  ppc,
  toSend,       \* events hydrated and not yet published
  sent, failed, \* events by the outcome of their publication
  \* JetStream: the stream, and what the durable consumer knows of a message
  stream, delivery,
  \* consumers
  cpc,
  fetched,      \* messages in hand
  left,         \* events whose inbox row is yet to be inserted
  fresh,        \* inbox rows inserted, not committed
  \* projection database
  inbox, aggregate,
  faults

outboxVars    == <<entriesOf, status, owner, lapsed>>
publisherVars == <<ppc, toSend, sent, failed>>
brokerVars    == <<stream, delivery>>
consumerVars  == <<cpc, fetched, left, fresh>>
projection    == <<inbox, aggregate>>
vars == <<outboxVars, publisherVars, brokerVars, consumerVars, projection, faults>>

Init ==
  /\ entriesOf \in Postings
  /\ status = [e \in Event |-> "none"]
  /\ owner = [e \in Event |-> NoOwner]
  /\ lapsed = {}
  /\ ppc = [p \in Publisher |-> "idle"]
  /\ toSend = [p \in Publisher |-> {}]
  /\ sent = [p \in Publisher |-> {}]
  /\ failed = [p \in Publisher |-> {}]
  /\ stream = <<>>
  /\ delivery = <<>>
  /\ cpc = [c \in Consumer |-> "idle"]
  /\ fetched = [c \in Consumer |-> {}]
  /\ left = [c \in Consumer |-> {}]
  /\ fresh = [c \in Consumer |-> {}]
  /\ inbox = {}
  /\ aggregate = [r \in Row |-> [debit |-> 0, credit |-> 0, last |-> 0]]
  /\ faults = 0

Posted == {e \in Event : status[e] # "none"}

Fault == faults < MaxFaults[Posted] /\ faults' = faults + 1

\* Mutant: a status that CHECK (status IN ...) does not know.
PostUnknownStatus(e) ==
  /\ status[e] = "none"
  /\ faults <= MaxFaults[Posted \cup {e}]
  /\ \A d \in Event : d < e => status[d] # "none"
  /\ status' = [status EXCEPT ![e] = "new"]
  /\ UNCHANGED <<entriesOf, owner, lapsed, publisherVars, brokerVars, consumerVars, projection, faults>>

\* A posting commits, its event with it.  One numbering serves for the order of
\* created_at, in which events are claimed, and for that of the event IDs, in
\* which a consumer inserts them; in the code the IDs are random and the two
\* orders are unrelated, but no step depends on both.
Post(e) ==
  /\ status[e] = "none"
  /\ faults <= MaxFaults[Posted \cup {e}]
  /\ \A d \in Event : d < e => status[d] # "none"
  /\ status' = [status EXCEPT ![e] = "pending"]
  /\ UNCHANGED <<entriesOf, owner, lapsed, publisherVars, brokerVars, consumerVars, projection, faults>>

-----------------------------------------------------------------------------
(* PublishCommittedEvents.                                                 *)

Leased(p) == {e \in Event : owner[e] = p}

\* Mutant: nobody looks for expired leases.
ResetNothing(p) ==
  /\ ppc[p] = "idle"
  /\ ppc' = [ppc EXCEPT ![p] = "claim"]
  /\ UNCHANGED <<outboxVars, toSend, sent, failed, brokerVars, consumerVars, projection, faults>>

\* The first statement of claimTransactionOutboxEvents: expired leases are
\* given up, whoever holds them.
ResetExpired(p) ==
  /\ ppc[p] = "idle"
  /\ status' = [e \in Event |-> IF e \in lapsed THEN "pending" ELSE status[e]]
  /\ owner' = [e \in Event |-> IF e \in lapsed THEN NoOwner ELSE owner[e]]
  /\ lapsed' = {}
  /\ ppc' = [ppc EXCEPT ![p] = "claim"]
  /\ UNCHANGED <<entriesOf, toSend, sent, failed, brokerVars, consumerVars, projection, faults>>

Oldest(n, S) == {e \in S : Cardinality({d \in S : d < e}) < n}

\* Mutant: events somebody is publishing are claimed too.
PendingOrLeased == {e \in Event : status[e] \in {"pending", "processing"}}

Pending == {e \in Event : status[e] = "pending"}

\* The second: the oldest pending events change to "processing", leased to
\* this pass.
ClaimEvents(p) ==
  /\ ppc[p] = "claim"
  /\ LET claimed == Oldest(ClaimLimit, Pending) IN
       /\ status' = [e \in Event |-> IF e \in claimed THEN "processing" ELSE status[e]]
       /\ owner' = [e \in Event |-> IF e \in claimed THEN p ELSE owner[e]]
       /\ ppc' = [ppc EXCEPT ![p] = IF claimed = {} THEN "idle" ELSE "hydrate"]
  /\ UNCHANGED <<entriesOf, lapsed, toSend, sent, failed, brokerVars, consumerVars, projection, faults>>

\* hydrateClaimedTransactionEvents reads what this pass still leases.
Hydrate(p) ==
  /\ ppc[p] = "hydrate"
  /\ toSend' = [toSend EXCEPT ![p] = Leased(p)]
  /\ ppc' = [ppc EXCEPT ![p] = "publish"]
  /\ UNCHANGED <<outboxVars, sent, failed, brokerVars, consumerVars, projection, faults>>

\* The read fails and releaseTransactionOutboxClaim gives the lease back.
HydrateFails(p) ==
  /\ ppc[p] = "hydrate"
  /\ Fault
  /\ status' = [e \in Event |-> IF owner[e] = p THEN "pending" ELSE status[e]]
  /\ owner' = [e \in Event |-> IF owner[e] = p THEN NoOwner ELSE owner[e]]
  /\ lapsed' = lapsed \ Leased(p)
  /\ ppc' = [ppc EXCEPT ![p] = "idle"]
  /\ UNCHANGED <<entriesOf, toSend, sent, failed, brokerVars, consumerVars, projection>>

\* JetStream stores a message for the durable consumer.
Enqueue(e) == stream' = Append(stream, e) /\ delivery' = Append(delivery, "ready")

\* PublishBatch, one event: stored and acknowledged ...
Publish(p) ==
  /\ ppc[p] = "publish"
  /\ \E e \in toSend[p] :
       /\ Enqueue(e)
       /\ sent' = [sent EXCEPT ![p] = @ \cup {e}]
       /\ toSend' = [toSend EXCEPT ![p] = @ \ {e}]
  /\ UNCHANGED <<outboxVars, ppc, failed, consumerVars, projection, faults>>

\* Mutant: an error of the broker goes unnoticed.
PublishErrorIgnored(p) ==
  /\ ppc[p] = "publish"
  /\ Fault
  /\ \E e \in toSend[p] :
       /\ sent' = [sent EXCEPT ![p] = @ \cup {e}]
       /\ toSend' = [toSend EXCEPT ![p] = @ \ {e}]
  /\ UNCHANGED <<outboxVars, ppc, failed, brokerVars, consumerVars, projection>>

\* ... or reported as an error, stored or not.
PublishFails(p) ==
  /\ ppc[p] = "publish"
  /\ Fault
  /\ \E e \in toSend[p] :
       /\ Enqueue(e) \/ UNCHANGED brokerVars
       /\ failed' = [failed EXCEPT ![p] = @ \cup {e}]
       /\ toSend' = [toSend EXCEPT ![p] = @ \ {e}]
  /\ UNCHANGED <<outboxVars, ppc, sent, consumerVars, projection>>

\* Mutant: the update forgets lease_owner = $1.
CompleteAnyLease(p) ==
  /\ ppc[p] = "publish"
  /\ toSend[p] = {}
  /\ status' = [e \in Event |-> CASE e \in sent[p] -> "processed"
                                 [] e \in failed[p] -> "pending"
                                 [] OTHER -> status[e]]
  /\ owner' = [e \in Event |-> IF e \in sent[p] \cup failed[p] THEN NoOwner ELSE owner[e]]
  /\ lapsed' = lapsed \ (sent[p] \cup failed[p])
  /\ ppc' = [ppc EXCEPT ![p] = "idle"]
  /\ sent' = [sent EXCEPT ![p] = {}]
  /\ failed' = [failed EXCEPT ![p] = {}]
  /\ UNCHANGED <<entriesOf, toSend, brokerVars, consumerVars, projection, faults>>

\* completeTransactionOutboxClaim touches only events this pass still leases:
\* a pass that outlived its lease changes nothing of theirs.
CompleteClaim(p) ==
  /\ ppc[p] = "publish"
  /\ toSend[p] = {}
  /\ LET done == sent[p] \cap Leased(p)
         back == failed[p] \cap Leased(p)
     IN  /\ status' = [e \in Event |-> CASE e \in done -> "processed"
                                        [] e \in back -> "pending"
                                        [] OTHER -> status[e]]
         /\ owner' = [e \in Event |-> IF e \in done \cup back THEN NoOwner ELSE owner[e]]
         /\ lapsed' = lapsed \ (done \cup back)
  /\ ppc' = [ppc EXCEPT ![p] = "idle"]
  /\ sent' = [sent EXCEPT ![p] = {}]
  /\ failed' = [failed EXCEPT ![p] = {}]
  /\ UNCHANGED <<entriesOf, toSend, brokerVars, consumerVars, projection, faults>>

\* A pass ends without bookkeeping (a statement fails, the one that gives the
\* lease back included): its owner, a fresh UUID, is never used again.
Abandoned(P) == [e \in Event |-> IF owner[e] \in P THEN Gone ELSE owner[e]]

PassFails(p) ==
  /\ ppc[p] \in {"claim", "hydrate", "publish"}
  /\ Fault
  /\ owner' = Abandoned({p})
  /\ ppc' = [ppc EXCEPT ![p] = "idle"]
  /\ toSend' = [toSend EXCEPT ![p] = {}]
  /\ sent' = [sent EXCEPT ![p] = {}]
  /\ failed' = [failed EXCEPT ![p] = {}]
  /\ UNCHANGED <<entriesOf, status, lapsed, brokerVars, consumerVars, projection>>

\* The ten seconds of a lease run out: always in the end once its pass is
\* gone, and sometimes on a pass that is only slow.
LeaseExpires(e) ==
  /\ status[e] = "processing"
  /\ e \notin lapsed
  /\ owner[e] = Gone
  /\ lapsed' = lapsed \cup {e}
  /\ UNCHANGED <<entriesOf, status, owner, publisherVars, brokerVars, consumerVars, projection, faults>>

SlowPass(e) ==
  /\ status[e] = "processing"
  /\ e \notin lapsed
  /\ owner[e] \in Publisher
  /\ Fault
  /\ lapsed' = lapsed \cup {e}
  /\ UNCHANGED <<entriesOf, status, owner, publisherVars, brokerVars, consumerVars, projection>>

-----------------------------------------------------------------------------
(* RunAggregateConsumerConcurrent.                                         *)

Events(messages) == {stream[i] : i \in messages}
Ready == {i \in DOMAIN stream : delivery[i] = "ready"}

\* FetchBatch; ApplyTransactionPostedBatch starts.
Fetch(c) ==
  /\ cpc[c] = "idle"
  /\ Ready # {}
  /\ LET messages == Oldest(FetchBatch, Ready) IN
       /\ fetched' = [fetched EXCEPT ![c] = messages]
       /\ left' = [left EXCEPT ![c] = Events(messages)]
       /\ delivery' = [i \in DOMAIN stream |-> IF i \in messages THEN "out" ELSE delivery[i]]
  /\ cpc' = [cpc EXCEPT ![c] = "apply"]
  /\ UNCHANGED <<outboxVars, publisherVars, stream, fresh, projection, faults>>

IsNextEvent(c, e) == e \in left[c] /\ \A d \in left[c] : e <= d

\* INSERT INTO processed_events ... ON CONFLICT DO NOTHING, in event order:
\* waits for anybody inserting the same row, then inserts or skips.
InsertInbox(c) ==
  /\ cpc[c] = "apply"
  /\ \E e \in Event :
       /\ IsNextEvent(c, e)
       /\ \A d \in Consumer \ {c} : e \notin fresh[d]
       /\ left' = [left EXCEPT ![c] = @ \ {e}]
       /\ fresh' = [fresh EXCEPT ![c] = IF e \in inbox THEN @ ELSE @ \cup {e}]
  /\ UNCHANGED <<outboxVars, publisherVars, brokerVars, cpc, fetched, projection, faults>>

\* What an event adds to an aggregate row.
Counts(r, e, entry) ==
  /\ r.day = DayOf[e]
  /\ \/ r.table = "account" /\ entry.account = r.id
     \/ r.table = "ledger" /\ LedgerOf[e] = r.id

DebitAdded(r, e) == Total(LAMBDA x : IF Counts(r, e, x) THEN x.debit ELSE 0, entriesOf[e])
CreditAdded(r, e) == Total(LAMBDA x : IF Counts(r, e, x) THEN x.credit ELSE 0, entriesOf[e])

Adds(r, events) ==
  [debit  |-> SumFunction([e \in events |-> DebitAdded(r, e)]),
   credit |-> SumFunction([e \in events |-> CreditAdded(r, e)])]

\* The events that have an entry in an aggregate row.
CountedIn(r, events) ==
  {e \in events : \E i \in DOMAIN entriesOf[e] : Counts(r, e, entriesOf[e][i])}

\* Mutant: every row of the batch gets the batch's last event.
NewCursorOfBatch(r, events) == IF events = {} THEN aggregate[r].last ELSE Max(events)

\* last_event_id: the last event, in ID order, that the batch adds to the row.
\* It overwrites the stored one, older or newer.
NewCursor(r, events) ==
  IF CountedIn(r, events) = {} THEN aggregate[r].last ELSE Max(CountedIn(r, events))

\* Mutant: the aggregates count every event in hand, known to the inbox or not.
NewAggregateOfAll(c) ==
  [r \in Row |-> [debit  |-> aggregate[r].debit + Adds(r, Events(fetched[c])).debit,
                  credit |-> aggregate[r].credit + Adds(r, Events(fetched[c])).credit,
                  last   |-> NewCursor(r, fresh[c])]]

\* upsertAggregateDeltas: SET debit = debit + EXCLUDED.debit, ...
NewAggregate(c) ==
  [r \in Row |-> [debit  |-> aggregate[r].debit + Adds(r, fresh[c]).debit,
                  credit |-> aggregate[r].credit + Adds(r, fresh[c]).credit,
                  last   |-> NewCursor(r, fresh[c])]]

AggregatesFit(c) ==
  \A r \in Row : Fits(NewAggregate(c)[r].debit) /\ Fits(NewAggregate(c)[r].credit)

\* Inbox rows and aggregates commit together.
ApplyCommits(c) ==
  /\ inbox' = inbox \cup fresh[c]
  /\ aggregate' = NewAggregate(c)

Apply(c) ==
  /\ cpc[c] = "apply"
  /\ left[c] = {}
  /\ AggregatesFit(c)
  /\ ApplyCommits(c)
  /\ fresh' = [fresh EXCEPT ![c] = {}]
  /\ cpc' = [cpc EXCEPT ![c] = "ack"]
  /\ UNCHANGED <<outboxVars, publisherVars, brokerVars, fetched, left, faults>>

\* Mutant: messages that cannot be applied are acknowledged to be rid of them.
DropAll(c) ==
  /\ delivery' = [i \in DOMAIN stream |-> IF i \in fetched[c] THEN "acked" ELSE delivery[i]]
  /\ fetched' = [fetched EXCEPT ![c] = {}]
  /\ left' = [left EXCEPT ![c] = {}]
  /\ fresh' = [fresh EXCEPT ![c] = {}]
  /\ cpc' = [cpc EXCEPT ![c] = "idle"]
  /\ UNCHANGED <<outboxVars, publisherVars, stream>>

\* The transaction is rolled back and every message is refused.
NakAll(c) ==
  /\ delivery' = [i \in DOMAIN stream |->
                    IF i \in fetched[c] /\ delivery[i] = "out" THEN "ready" ELSE delivery[i]]
  /\ fetched' = [fetched EXCEPT ![c] = {}]
  /\ left' = [left EXCEPT ![c] = {}]
  /\ fresh' = [fresh EXCEPT ![c] = {}]
  /\ cpc' = [cpc EXCEPT ![c] = "idle"]
  /\ UNCHANGED <<outboxVars, publisherVars, stream>>

ApplyOverflows(c) ==
  /\ cpc[c] = "apply"
  /\ left[c] = {}
  /\ ~AggregatesFit(c)
  /\ NakAll(c)
  /\ UNCHANGED <<projection, faults>>

\* The commit may have taken effect when the error is reported.
ApplyFails(c) ==
  /\ cpc[c] = "apply"
  /\ Fault
  /\ NakAll(c)
  /\ \/ UNCHANGED projection
     \/ left[c] = {} /\ AggregatesFit(c) /\ ApplyCommits(c)

\* Messages are acknowledged one by one.
Acknowledge(c) ==
  /\ cpc[c] = "ack"
  /\ \E i \in fetched[c] :
       /\ \A j \in fetched[c] : i <= j
       /\ delivery' = [delivery EXCEPT ![i] = "acked"]
       /\ fetched' = [fetched EXCEPT ![c] = @ \ {i}]
  /\ UNCHANGED <<outboxVars, publisherVars, stream, cpc, left, fresh, projection, faults>>

\* Ack returns once the message is written to the connection, not when the
\* broker has it: it may be lost without an error.
AckLost(c) ==
  /\ cpc[c] = "ack"
  /\ Fault
  /\ \E i \in fetched[c] :
       /\ \A j \in fetched[c] : i <= j
       /\ fetched' = [fetched EXCEPT ![c] = @ \ {i}]
  /\ UNCHANGED <<outboxVars, publisherVars, brokerVars, cpc, left, fresh, projection>>

Acknowledged(c) ==
  /\ cpc[c] = "ack"
  /\ fetched[c] = {}
  /\ cpc' = [cpc EXCEPT ![c] = "idle"]
  /\ UNCHANGED <<outboxVars, publisherVars, brokerVars, fetched, left, fresh, projection, faults>>

\* A fetch or an acknowledgement fails: the worker reports it and returns.
\* Nothing starts it again.
ConsumerStops(c) ==
  /\ cpc[c] \in {"idle", "ack"}
  /\ Fault
  /\ cpc' = [cpc EXCEPT ![c] = "stopped"]
  /\ fetched' = [fetched EXCEPT ![c] = {}]
  /\ UNCHANGED <<outboxVars, publisherVars, brokerVars, left, fresh, projection>>

\* AckWait runs out: a message nobody will acknowledge becomes available
\* again, and sometimes one whose consumer is only slow.
Redeliver(i) ==
  /\ delivery[i] = "out"
  /\ \A c \in Consumer : i \notin fetched[c]
  /\ delivery' = [delivery EXCEPT ![i] = "ready"]
  /\ UNCHANGED <<outboxVars, publisherVars, stream, consumerVars, projection, faults>>

SlowConsumer(i) ==
  /\ delivery[i] = "out"
  /\ \E c \in Consumer : i \in fetched[c]
  /\ Fault
  /\ delivery' = [delivery EXCEPT ![i] = "ready"]
  /\ UNCHANGED <<outboxVars, publisherVars, stream, consumerVars, projection>>

-----------------------------------------------------------------------------
\* The process crashes and is started again: open transactions roll back,
\* leases and deliveries are left to expire.
Restart ==
  /\ Fault
  /\ owner' = Abandoned(Publisher)
  /\ ppc' = [p \in Publisher |-> "idle"]
  /\ toSend' = [p \in Publisher |-> {}]
  /\ sent' = [p \in Publisher |-> {}]
  /\ failed' = [p \in Publisher |-> {}]
  /\ cpc' = [c \in Consumer |-> "idle"]
  /\ fetched' = [c \in Consumer |-> {}]
  /\ left' = [c \in Consumer |-> {}]
  /\ fresh' = [c \in Consumer |-> {}]
  /\ UNCHANGED <<entriesOf, status, lapsed, brokerVars, projection>>

PublisherStep(p) ==
  ResetExpired(p) \/ ClaimEvents(p) \/ Hydrate(p) \/ Publish(p) \/ CompleteClaim(p)

ConsumerStep(c) ==
  Fetch(c) \/ InsertInbox(c) \/ Apply(c) \/ ApplyOverflows(c) \/ Acknowledge(c) \/ Acknowledged(c)

Next ==
  \/ \E e \in Event : Post(e) \/ LeaseExpires(e) \/ SlowPass(e)
  \/ \E p \in Publisher : PublisherStep(p) \/ HydrateFails(p) \/ PublishFails(p) \/ PassFails(p)
  \/ \E c \in Consumer : ConsumerStep(c) \/ ApplyFails(c) \/ AckLost(c) \/ ConsumerStops(c)
  \/ \E i \in DOMAIN stream : Redeliver(i) \/ SlowConsumer(i)
  \/ Restart

\* Background workers loop for ever, timers run out, and waits for an inbox
\* row end with the transaction that inserts it.  Nothing obliges the process
\* to restart.
Fairness ==
  /\ \A p \in Publisher : WF_vars(PublisherStep(p))
  /\ \A c \in Consumer : SF_vars(ConsumerStep(c))
  /\ WF_vars(\E e \in Event : LeaseExpires(e))
  /\ WF_vars(\E i \in DOMAIN stream : Redeliver(i))

Spec == Init /\ [][Next]_vars
FairSpec == Spec /\ Fairness

-----------------------------------------------------------------------------
(* Properties.                                                             *)

Aggregate == [debit : Int, credit : Int, last : Event \cup {0}]

\* The type of every variable.
TypeOK ==
  /\ entriesOf \in Postings
  /\ status \in [Event -> {"none", "pending", "processing", "processed"}]
  /\ owner \in [Event -> Publisher \cup {NoOwner, Gone}]
  /\ lapsed \subseteq Event
  /\ ppc \in [Publisher -> {"idle", "claim", "hydrate", "publish"}]
  /\ toSend \in [Publisher -> SUBSET Event]
  /\ sent \in [Publisher -> SUBSET Event]
  /\ failed \in [Publisher -> SUBSET Event]
  /\ stream \in Seq(Event)
  /\ delivery \in [DOMAIN stream -> {"ready", "out", "acked"}]
  /\ cpc \in [Consumer -> {"idle", "apply", "ack", "stopped"}]
  /\ fetched \in [Consumer -> SUBSET DOMAIN stream]
  /\ left \in [Consumer -> SUBSET Event]
  /\ fresh \in [Consumer -> SUBSET Event]
  /\ inbox \subseteq Event
  /\ aggregate \in [Row -> Aggregate]
  /\ faults \in Nat

\* The aggregates are exactly the sums over the events in the inbox: however
\* often an event is published, delivered and applied, it counts once, and
\* projection-status is never ahead of the projection.
AggregatesMatchInbox ==
  \A r \in Row : [debit |-> aggregate[r].debit, credit |-> aggregate[r].credit] = Adds(r, inbox)

\* The freshness cursor of an aggregate row never runs ahead of it: it names
\* an event of this very row that the row's sums already contain, whatever
\* the order in which batches commit (it may name an older event than before).
CursorsAreCounted ==
  \A r \in Row :
    aggregate[r].last \in IF CountedIn(r, inbox) = {} THEN {0} ELSE CountedIn(r, inbox)

\* No event falls between two stages: one marked processed is in the stream,
\* a message acknowledged has been applied, and only posted events get there.
NothingLost ==
  /\ \A e \in Event : status[e] = "processed" => e \in Events(DOMAIN stream)
  /\ \A i \in DOMAIN stream : delivery[i] = "acked" => stream[i] \in inbox
  /\ \A e \in Events(DOMAIN stream) \cup inbox : status[e] # "none"

\* Concurrent publishers never publish an event twice while no deadline is
\* missed and nothing fails: a claimed event belongs to one pass.
PublishedOnce ==
  faults = 0 => \A i, j \in DOMAIN stream : stream[i] = stream[j] => i = j

\* Once processed, an event is never offered again, not even by a pass that
\* failed to publish it and lost its lease in the meantime; and an event once
\* projected stays projected.
ProcessedForGood ==
  [][/\ \A e \in Event : status[e] = "processed" => status'[e] = "processed"
     /\ inbox \subseteq inbox']_vars

\* A batch that is about to be written overflows no aggregate row.
AggregatesHaveRoom ==
  \A c \in Consumer : cpc[c] = "apply" /\ left[c] = {} => AggregatesFit(c)

\* Every committed posting reaches the aggregates, through crashes, expired
\* leases, redeliveries and failed batches, on two conditions.  The aggregate
\* rows have room: upsertAggregateDeltas refuses a batch that overflows one
\* each time it is delivered, and every event in it waits for ever.  And the
\* projection is not left without a consumer: one that meets an error of the
\* broker returns, and nothing but a restart brings it back.
EventuallyProjected ==
  []AggregatesHaveRoom /\ []<>(\E c \in Consumer : cpc[c] # "stopped")
    => \A e \in Event : status[e] # "none" ~> e \in inbox
=============================================================================
