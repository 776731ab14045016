--------------------------- MODULE StreamingProofs ---------------------------
(***************************************************************************)
(* Machine-checked proofs about Streaming, for every set of events (also   *)
(* an infinite one), publishers, consumers and rows, and for every number  *)
(* of failures.                                                            *)
(***************************************************************************)
EXTENDS Streaming, SumTheorems, SequenceTheorems

\* The types of the variables, by component.
OutboxTypes ==
  /\ entriesOf \in Postings
  /\ status \in [Event -> {"none", "pending", "processing", "processed"}]
  /\ owner \in [Event -> Publisher \cup {NoOwner, Gone}]
  /\ lapsed \subseteq Event

PublisherTypes ==
  /\ ppc \in [Publisher -> {"idle", "claim", "hydrate", "publish"}]
  /\ toSend \in [Publisher -> SUBSET Event]
  /\ sent \in [Publisher -> SUBSET Event]
  /\ failed \in [Publisher -> SUBSET Event]

BrokerTypes ==
  /\ stream \in Seq(Event)
  /\ delivery \in [DOMAIN stream -> {"ready", "out", "acked"}]

ConsumerTypes ==
  /\ cpc \in [Consumer -> {"idle", "apply", "ack", "stopped"}]
  /\ fetched \in [Consumer -> SUBSET DOMAIN stream]
  /\ left \in [Consumer -> SUBSET Event]
  /\ fresh \in [Consumer -> SUBSET Event]

ProjectionTypes ==
  /\ inbox \subseteq Event
  /\ aggregate \in [Row -> Aggregate]

\* What the broker has stored.
Streamed == Events(DOMAIN stream)

\* An event is leased exactly while it is "processing", and only then can its
\* lease run out.
LeasesAreOpen ==
  \A e \in Event :
    /\ owner[e] # NoOwner <=> status[e] = "processing"
    /\ e \in lapsed => status[e] = "processing"

\* What a pass holds has been posted, and what it counts as sent is stored.
PassesHoldPosted ==
  \A p \in Publisher :
    /\ \A e \in toSend[p] : status[e] # "none"
    /\ sent[p] \subseteq Streamed

\* While nothing has failed a pass leases exactly what it has sent and what it
\* is going to send, and no event is on offer, or to be sent, that the broker
\* has already.
LeasesAreKept ==
  faults = 0 =>
    /\ lapsed = {}
    /\ \A e \in Event : owner[e] # Gone
    /\ \A e \in Event : status[e] \in {"none", "pending"} => e \notin Streamed
    /\ \A p \in Publisher :
         /\ failed[p] = {}
         /\ ppc[p] # "publish" => toSend[p] = {} /\ sent[p] = {}
         /\ ppc[p] \in {"idle", "claim"} => Leased(p) = {}
         /\ ppc[p] = "hydrate" => Leased(p) \cap Streamed = {}
         /\ ppc[p] = "publish" => /\ Leased(p) = toSend[p] \cup sent[p]
                                  /\ toSend[p] \cap Streamed = {}

\* A batch holds the events of its messages until they are in the inbox.
BatchesAdvance ==
  /\ inbox \subseteq Streamed
  /\ \A c \in Consumer :
       /\ cpc[c] # "apply" => left[c] = {} /\ fresh[c] = {}
       /\ cpc[c] \in {"idle", "stopped"} => fetched[c] = {}
       /\ cpc[c] = "apply" => Events(fetched[c]) \subseteq left[c] \cup fresh[c] \cup inbox
       /\ cpc[c] = "ack" => Events(fetched[c]) \subseteq inbox
       /\ left[c] \cup fresh[c] \subseteq Streamed

\* The inbox rows of open transactions are new, and no two of them the same.
FreshIsNew ==
  /\ IsFiniteSet(inbox)
  /\ \A c \in Consumer : IsFiniteSet(fresh[c]) /\ fresh[c] \cap inbox = {}
  /\ \A c, d \in Consumer : c # d => fresh[c] \cap fresh[d] = {}

\* The inductive invariant.
IInv ==
  /\ TypeOK
  /\ LeasesAreOpen
  /\ PassesHoldPosted
  /\ LeasesAreKept
  /\ BatchesAdvance
  /\ FreshIsNew
  /\ NothingLost
  /\ PublishedOnce
  /\ AggregatesMatchInbox
  /\ CursorsAreCounted

-----------------------------------------------------------------------------
(* What a step leaves alone.                                               *)

\* The type invariant, component by component.
LEMMA TypeParts ==
  TypeOK <=> /\ OutboxTypes /\ PublisherTypes /\ BrokerTypes
             /\ ConsumerTypes /\ ProjectionTypes
             /\ faults \in Nat
  BY DEF TypeOK, OutboxTypes, PublisherTypes, BrokerTypes, ConsumerTypes, ProjectionTypes

\* The conjuncts of the invariant that concern the publishers, ...
PublishInv ==
  /\ OutboxTypes /\ PublisherTypes /\ faults \in Nat
  /\ LeasesAreOpen /\ PassesHoldPosted /\ LeasesAreKept /\ PublishedOnce
  /\ \A e \in Event : status[e] = "processed" => e \in Streamed
  /\ \A e \in Streamed : status[e] # "none"

\* ... and those that concern the consumers.
ConsumeInv ==
  /\ ConsumerTypes /\ ProjectionTypes
  /\ BatchesAdvance /\ FreshIsNew
  /\ \A i \in DOMAIN stream : delivery[i] = "acked" => stream[i] \in inbox
  /\ AggregatesMatchInbox /\ CursorsAreCounted

\* The invariant, side by side.
LEMMA IInvParts == IInv <=> PublishInv /\ BrokerTypes /\ ConsumeInv
<1>1. IInv => PublishInv /\ BrokerTypes /\ ConsumeInv
  BY TypeParts DEF IInv, PublishInv, ConsumeInv, NothingLost, Streamed
<1>2. PublishInv /\ BrokerTypes /\ ConsumeInv => IInv
  BY TypeParts DEF IInv, PublishInv, ConsumeInv, NothingLost, Streamed, BatchesAdvance
<1> QED
  BY <1>1, <1>2

\* The same in the next state.
LEMMA IInvPartsNext == IInv' <=> PublishInv' /\ BrokerTypes' /\ ConsumeInv'
  BY IInvParts, PTL

\* The broker is as it was.
LEMMA StreamSame ==
  ASSUME UNCHANGED stream
  PROVE  Streamed' = Streamed /\ \A S : Events(S)' = {stream[i] : i \in S'}
  BY DEF Streamed, Events

\* What an event adds to a row never changes.
LEMMA AddedSame ==
  ASSUME UNCHANGED entriesOf
  PROVE  /\ \A r, e : DebitAdded(r, e)' = DebitAdded(r, e) /\ CreditAdded(r, e)' = CreditAdded(r, e)
         /\ \A r, S : Adds(r, S)' = Adds(r, S) /\ CountedIn(r, S)' = CountedIn(r, S)
<1>1. \A r, e : DebitAdded(r, e)' = DebitAdded(r, e)
  BY DEF DebitAdded, Total, Counts
<1>2. \A r, e : CreditAdded(r, e)' = CreditAdded(r, e)
  BY DEF CreditAdded, Total, Counts
<1>3. \A r, S : Adds(r, S)' = Adds(r, S)
  BY <1>1, <1>2 DEF Adds
<1>4. \A r, S : CountedIn(r, S)' = CountedIn(r, S)
  BY DEF CountedIn, Counts
<1> QED
  BY <1>1, <1>2, <1>3, <1>4

\* The consumers do not see a step of the outbox or of a publisher.
LEMMA ConsumersKept ==
  ASSUME ConsumeInv, UNCHANGED <<entriesOf, stream, delivery, consumerVars, projection>>
  PROVE  ConsumeInv'
<1>1. ConsumerTypes' /\ ProjectionTypes'
  BY DEF ConsumeInv, ConsumerTypes, ProjectionTypes, consumerVars, projection
<1>2. BatchesAdvance' /\ FreshIsNew'
  BY DEF ConsumeInv, BatchesAdvance, FreshIsNew, Streamed, Events, consumerVars, projection
<1>3. AggregatesMatchInbox' /\ CursorsAreCounted'
  BY AddedSame DEF ConsumeInv, AggregatesMatchInbox, CursorsAreCounted, projection
<1> QED
  BY <1>1, <1>2, <1>3 DEF ConsumeInv, projection

\* The publishers do not see a step of the consumers, or of the broker's
\* deliveries.
LEMMA PublishersKept ==
  ASSUME PublishInv, UNCHANGED <<outboxVars, publisherVars, stream>>,
         faults' \in Nat, faults' = faults \/ faults' # 0
  PROVE  PublishInv'
<1>1. OutboxTypes' /\ PublisherTypes'
  BY DEF PublishInv, OutboxTypes, PublisherTypes, outboxVars, publisherVars
<1>2. LeasesAreOpen' /\ PassesHoldPosted'
  BY DEF PublishInv, LeasesAreOpen, PassesHoldPosted, Streamed, Events, outboxVars, publisherVars
<1>3. LeasesAreKept' /\ PublishedOnce'
  BY DEF PublishInv, LeasesAreKept, PublishedOnce, Streamed, Events, Leased, outboxVars, publisherVars
<1> QED
  BY <1>1, <1>2, <1>3, StreamSame DEF PublishInv, outboxVars

\* The initial state.
LEMMA InitIInv == Init => IInv
<1> SUFFICES ASSUME Init PROVE IInv
  OBVIOUS
<1> USE DEF Init
<1>1. Streamed = {} /\ DOMAIN stream = {}
  BY DEF Streamed, Events
<1>2. OutboxTypes /\ PublisherTypes /\ faults \in Nat
  BY StreamingAssumption DEF OutboxTypes, PublisherTypes
<1>3. BrokerTypes
  BY <1>1, EmptySeq DEF BrokerTypes
<1>4. ConsumerTypes /\ ProjectionTypes
  BY DEF ConsumerTypes, ProjectionTypes, Aggregate
<1>5. LeasesAreOpen /\ PassesHoldPosted
  BY DEF LeasesAreOpen, PassesHoldPosted
<1>6. LeasesAreKept /\ PublishedOnce
  BY <1>1, StreamingAssumption DEF LeasesAreKept, PublishedOnce, Leased
<1>7. BatchesAdvance /\ FreshIsNew
  BY <1>1, FS_EmptySet DEF BatchesAdvance, FreshIsNew, Events
<1>8. AggregatesMatchInbox
  <2>1. \A r \in Row : Adds(r, {}) = [debit |-> 0, credit |-> 0]
    BY SumEmpty DEF Adds, SumFunction
  <2> QED
    BY <2>1 DEF AggregatesMatchInbox
<1>9. CursorsAreCounted
  BY DEF CursorsAreCounted, CountedIn
<1>10. PublishInv
  BY <1>1, <1>2, <1>5, <1>6 DEF PublishInv
<1>11. ConsumeInv
  BY <1>1, <1>4, <1>7, <1>8, <1>9 DEF ConsumeInv
<1> QED
  BY <1>3, <1>10, <1>11, IInvParts

-----------------------------------------------------------------------------
(* The outbox and the publishers.                                          *)

\* A failure is counted, and what holds while nothing fails is void.
LEMMA Faulty ==
  ASSUME faults \in Nat, Fault
  PROVE  faults' \in Nat /\ faults' # 0
  BY StreamingAssumption DEF Fault

\* A step of the outbox or of a publisher that stores nothing.
LEMMA OutboxStepKeeps ==
  ASSUME IInv, PublishInv', UNCHANGED <<entriesOf, brokerVars, consumerVars, projection>>
  PROVE  IInv'
<1>1. ConsumeInv'
  BY IInvParts, ConsumersKept DEF brokerVars
<1>2. BrokerTypes'
  BY IInvParts DEF BrokerTypes, brokerVars
<1> QED
  BY <1>1, <1>2, IInvPartsNext

\* A posting puts an event on offer that no pass has seen.
LEMMA PostKeeps ==
  ASSUME IInv, NEW e \in Event, Post(e)
  PROVE  IInv'
<1> USE DEF Post, publisherVars, brokerVars
<1>0. PublishInv
  BY IInvParts
<1>1. Streamed' = Streamed
  BY StreamSame
<1>2. OutboxTypes' /\ PublisherTypes'
  BY <1>0 DEF PublishInv, OutboxTypes, PublisherTypes
<1>3. /\ status[e] = "none" /\ status'[e] = "pending"
      /\ \A d \in Event \ {e} : status'[d] = status[d]
  BY <1>0 DEF PublishInv, OutboxTypes
<1>4. LeasesAreOpen'
  BY <1>0, <1>3 DEF PublishInv, LeasesAreOpen
<1>5. PassesHoldPosted'
  BY <1>0, <1>1, <1>3 DEF PublishInv, PublisherTypes, PassesHoldPosted
<1>6. LeasesAreKept' /\ PublishedOnce'
  BY <1>0, <1>1, <1>3 DEF PublishInv, LeasesAreKept, PublishedOnce, Leased
<1>7. \A d \in Streamed : d \in Event
  BY IInvParts, ElementOfSeq, LenProperties DEF BrokerTypes, Streamed, Events
<1>8. PublishInv'
  BY <1>0, <1>1, <1>2, <1>3, <1>4, <1>5, <1>6, <1>7 DEF PublishInv
<1> QED
  BY <1>8, OutboxStepKeeps

\* A lease runs out: without a failure only one whose pass is gone, and then
\* something has failed.
LEMMA ExpireKeeps ==
  ASSUME IInv, NEW e \in Event, LeaseExpires(e) \/ SlowPass(e)
  PROVE  IInv'
<1> USE DEF LeaseExpires, SlowPass, publisherVars, brokerVars
<1>0. PublishInv
  BY IInvParts
<1>1. /\ status[e] = "processing" /\ lapsed' = lapsed \cup {e}
      /\ UNCHANGED <<entriesOf, status, owner, publisherVars, brokerVars, consumerVars, projection>>
  OBVIOUS
<1>2. faults' \in Nat /\ (faults' # 0 \/ (faults' = faults /\ owner[e] = Gone))
  BY <1>0, Faulty DEF PublishInv
<1>3. Streamed' = Streamed
  BY <1>1, StreamSame
<1>4. OutboxTypes' /\ PublisherTypes'
  BY <1>0, <1>1 DEF PublishInv, OutboxTypes, PublisherTypes
<1>5. LeasesAreOpen' /\ PassesHoldPosted'
  BY <1>0, <1>1, <1>3 DEF PublishInv, LeasesAreOpen, PassesHoldPosted
<1>6. faults' # 0
  BY <1>0, <1>2 DEF PublishInv, LeasesAreKept
<1>7. LeasesAreKept' /\ PublishedOnce'
  BY <1>6 DEF LeasesAreKept, PublishedOnce
<1>8. PublishInv'
  BY <1>0, <1>1, <1>2, <1>3, <1>4, <1>5, <1>7 DEF PublishInv
<1> QED
  BY <1>1, <1>8, OutboxStepKeeps

\* Expired leases are given up; while nothing fails there are none.
LEMMA ResetKeeps ==
  ASSUME IInv, NEW p \in Publisher, ResetExpired(p)
  PROVE  IInv'
<1> USE DEF ResetExpired, brokerVars
<1>0. PublishInv
  BY IInvParts
<1>1. Streamed' = Streamed /\ \A d \in Streamed : d \in Event
  BY StreamSame, IInvParts, ElementOfSeq, LenProperties DEF BrokerTypes, Streamed, Events
<1>2. OutboxTypes' /\ PublisherTypes'
  BY <1>0 DEF PublishInv, OutboxTypes, PublisherTypes
<1>3. \A e \in Event : /\ status'[e] = IF e \in lapsed THEN "pending" ELSE status[e]
                       /\ owner'[e] = IF e \in lapsed THEN NoOwner ELSE owner[e]
                       /\ e \in lapsed => status[e] = "processing"
  BY <1>0 DEF PublishInv, LeasesAreOpen
<1>4. LeasesAreOpen'
  BY <1>0, <1>3 DEF PublishInv, LeasesAreOpen
<1>5. PassesHoldPosted'
  BY <1>0, <1>1, <1>3 DEF PublishInv, PublisherTypes, PassesHoldPosted
<1>6. ppc'[p] = "claim" /\ ppc[p] = "idle" /\ \A q \in Publisher \ {p} : ppc'[q] = ppc[q]
  BY <1>0 DEF PublishInv, PublisherTypes
<1>7. LeasesAreKept' /\ PublishedOnce'
  <2>1. CASE faults = 0
    <3>1. lapsed = {}
      BY <1>0, <2>1 DEF PublishInv, LeasesAreKept
    <3>2. \A e \in Event : status'[e] = status[e] /\ owner'[e] = owner[e]
      BY <1>3, <3>1
    <3>3. \A q \in Publisher : Leased(q)' = Leased(q)
      BY <3>2 DEF Leased
    <3> QED
      BY <1>0, <1>1, <1>6, <2>1, <3>1, <3>2, <3>3 DEF PublishInv, LeasesAreKept, PublishedOnce
  <2>2. CASE faults # 0
    BY <2>2 DEF LeasesAreKept, PublishedOnce
  <2> QED
    BY <2>1, <2>2
<1>8. PublishInv'
  BY <1>0, <1>1, <1>2, <1>3, <1>4, <1>5, <1>7 DEF PublishInv
<1> QED
  BY <1>8, OutboxStepKeeps

\* The events a pass claims are on offer, so nobody else leases them and the
\* broker does not have them.
LEMMA ClaimKeeps ==
  ASSUME IInv, NEW p \in Publisher, ClaimEvents(p)
  PROVE  IInv'
<1> DEFINE claimed == Oldest(ClaimLimit, Pending)
<1>0. PublishInv
  BY IInvParts
<1>1. \A e \in claimed : e \in Event /\ status[e] = "pending"
  BY DEF Oldest, Pending
<1>2. /\ ppc[p] = "claim"
      /\ status' = [e \in Event |-> IF e \in claimed THEN "processing" ELSE status[e]]
      /\ owner' = [e \in Event |-> IF e \in claimed THEN p ELSE owner[e]]
      /\ ppc' = [ppc EXCEPT ![p] = IF claimed = {} THEN "idle" ELSE "hydrate"]
      /\ UNCHANGED <<entriesOf, lapsed, toSend, sent, failed, brokerVars, consumerVars, projection, faults>>
  BY DEF ClaimEvents
<1> HIDE DEF claimed
<1>3. Streamed' = Streamed /\ \A d \in Streamed : d \in Event
  BY <1>2, StreamSame, IInvParts, ElementOfSeq, LenProperties DEF BrokerTypes, Streamed, Events, brokerVars
<1>4. OutboxTypes' /\ PublisherTypes'
  BY <1>0, <1>2 DEF PublishInv, OutboxTypes, PublisherTypes
<1>5. \A e \in Event : /\ status'[e] = IF e \in claimed THEN "processing" ELSE status[e]
                       /\ owner'[e] = IF e \in claimed THEN p ELSE owner[e]
  BY <1>2
<1>6. LeasesAreOpen'
  BY <1>0, <1>1, <1>2, <1>5, StreamingAssumption DEF PublishInv, LeasesAreOpen
<1>7. PassesHoldPosted'
  BY <1>0, <1>2, <1>3, <1>5 DEF PublishInv, PublisherTypes, PassesHoldPosted
<1>8. LeasesAreKept' /\ PublishedOnce'
  <2>1. CASE faults = 0
    <3>1. /\ ppc'[p] = IF claimed = {} THEN "idle" ELSE "hydrate"
          /\ \A q \in Publisher \ {p} : ppc'[q] = ppc[q]
      BY <1>0, <1>2 DEF PublishInv, PublisherTypes
    <3>2. Leased(p) = {} /\ \A e \in claimed : owner[e] = NoOwner /\ e \notin Streamed
      BY <1>0, <1>1, <1>2, <2>1 DEF PublishInv, LeasesAreKept, LeasesAreOpen
    <3>3. Leased(p)' = claimed
      BY <1>1, <1>5, <3>2 DEF Leased
    <3>4. \A q \in Publisher \ {p} : Leased(q)' = Leased(q)
      BY <1>5, <3>2, StreamingAssumption DEF Leased
    <3>5. \A e \in Event : owner'[e] # Gone
      BY <1>0, <1>5, <2>1, StreamingAssumption DEF PublishInv, LeasesAreKept
    <3>6. \A e \in Event : status'[e] \in {"none", "pending"} => e \notin Streamed
      BY <1>0, <1>5, <2>1 DEF PublishInv, LeasesAreKept
    <3>7. \A q \in Publisher :
            /\ failed'[q] = {}
            /\ ppc'[q] # "publish" => toSend'[q] = {} /\ sent'[q] = {}
            /\ ppc'[q] \in {"idle", "claim"} => Leased(q)' = {}
            /\ ppc'[q] = "hydrate" => Leased(q)' \cap Streamed = {}
            /\ ppc'[q] = "publish" => /\ Leased(q)' = toSend'[q] \cup sent'[q]
                                      /\ toSend'[q] \cap Streamed = {}
      <4> SUFFICES ASSUME NEW q \in Publisher
                   PROVE  /\ failed'[q] = {}
                          /\ ppc'[q] # "publish" => toSend'[q] = {} /\ sent'[q] = {}
                          /\ ppc'[q] \in {"idle", "claim"} => Leased(q)' = {}
                          /\ ppc'[q] = "hydrate" => Leased(q)' \cap Streamed = {}
                          /\ ppc'[q] = "publish" => /\ Leased(q)' = toSend'[q] \cup sent'[q]
                                                    /\ toSend'[q] \cap Streamed = {}
        OBVIOUS
      <4>1. CASE q = p
        BY <1>0, <1>2, <2>1, <3>1, <3>2, <3>3, <4>1 DEF PublishInv, LeasesAreKept
      <4>2. CASE q # p
        BY <1>0, <1>2, <2>1, <3>1, <3>4, <4>2 DEF PublishInv, LeasesAreKept
      <4> QED
        BY <4>1, <4>2
    <3>8. lapsed' = {}
      BY <1>0, <1>2, <2>1 DEF PublishInv, LeasesAreKept
    <3> QED
      BY <1>0, <1>2, <1>3, <3>5, <3>6, <3>7, <3>8 DEF PublishInv, LeasesAreKept, PublishedOnce, brokerVars
  <2>2. CASE faults # 0
    BY <1>2, <2>2 DEF LeasesAreKept, PublishedOnce
  <2> QED
    BY <2>1, <2>2
<1>9. PublishInv'
  BY <1>0, <1>1, <1>2, <1>3, <1>4, <1>5, <1>6, <1>7, <1>8 DEF PublishInv
<1> QED
  BY <1>2, <1>9, OutboxStepKeeps

\* A pass reads what it leases.
LEMMA HydrateKeeps ==
  ASSUME IInv, NEW p \in Publisher, Hydrate(p)
  PROVE  IInv'
<1> USE DEF Hydrate, outboxVars, brokerVars
<1>0. PublishInv
  BY IInvParts
<1>1. Streamed' = Streamed /\ \A q \in Publisher : Leased(q)' = Leased(q)
  BY StreamSame DEF Leased
<1>2. OutboxTypes' /\ PublisherTypes'
  BY <1>0 DEF PublishInv, OutboxTypes, PublisherTypes, Leased
<1>3. /\ ppc[p] = "hydrate" /\ ppc'[p] = "publish" /\ toSend'[p] = Leased(p)
      /\ \A q \in Publisher \ {p} : ppc'[q] = ppc[q] /\ toSend'[q] = toSend[q]
  BY <1>0 DEF PublishInv, PublisherTypes
<1>4. \A e \in Leased(p) : e \in Event /\ status[e] # "none"
  BY <1>0, StreamingAssumption DEF PublishInv, LeasesAreOpen, Leased
<1>5. LeasesAreOpen' /\ PassesHoldPosted'
  BY <1>0, <1>1, <1>3, <1>4 DEF PublishInv, LeasesAreOpen, PassesHoldPosted
<1>6. LeasesAreKept' /\ PublishedOnce'
  BY <1>0, <1>1, <1>3 DEF PublishInv, LeasesAreKept, PublishedOnce
<1>7. PublishInv'
  BY <1>0, <1>1, <1>2, <1>5, <1>6 DEF PublishInv
<1> QED
  BY <1>7, OutboxStepKeeps

\* A pass that fails gives its leases back, or leaves them to expire.
LEMMA FailKeeps ==
  ASSUME IInv, NEW p \in Publisher, HydrateFails(p) \/ PassFails(p)
  PROVE  IInv'
<1> USE DEF brokerVars
<1>0. PublishInv
  BY IInvParts
<1>1. faults' \in Nat /\ faults' # 0
  BY <1>0, Faulty DEF PublishInv, HydrateFails, PassFails
<1>2. Streamed' = Streamed /\ \A d \in Streamed : d \in Event
  BY StreamSame, IInvParts, ElementOfSeq, LenProperties
     DEF HydrateFails, PassFails, BrokerTypes, Streamed, Events
<1>3. OutboxTypes' /\ PublisherTypes'
  BY <1>0 DEF HydrateFails, PassFails, Abandoned, PublishInv, OutboxTypes, PublisherTypes
<1>4. \A e \in Event : /\ status[e] # "none" <=> status'[e] # "none"
                       /\ status[e] = "processed" <=> status'[e] = "processed"
  BY <1>0, StreamingAssumption DEF HydrateFails, PassFails, PublishInv, OutboxTypes, LeasesAreOpen
<1>5. LeasesAreOpen'
  BY <1>0, StreamingAssumption DEF HydrateFails, PassFails, Abandoned, Leased, PublishInv, OutboxTypes, LeasesAreOpen
<1>6. \A q \in Publisher : toSend'[q] \subseteq toSend[q] /\ sent'[q] \subseteq sent[q]
  BY <1>0 DEF HydrateFails, PassFails, PublishInv, PublisherTypes
<1>7. PassesHoldPosted'
  BY <1>0, <1>2, <1>4, <1>6 DEF PublishInv, PublisherTypes, PassesHoldPosted
<1>8. LeasesAreKept' /\ PublishedOnce'
  BY <1>1 DEF LeasesAreKept, PublishedOnce
<1>9. PublishInv'
  BY <1>0, <1>1, <1>2, <1>3, <1>4, <1>5, <1>7, <1>8 DEF PublishInv
<1> QED
  BY <1>9, OutboxStepKeeps DEF HydrateFails, PassFails

\* completeTransactionOutboxClaim: what a pass still leases is "processing",
\* so it takes back nothing that is processed.
LEMMA CompleteKeeps ==
  ASSUME IInv, NEW p \in Publisher, CompleteClaim(p)
  PROVE  IInv'
<1> DEFINE done == sent[p] \cap Leased(p)
           back == failed[p] \cap Leased(p)
<1> USE DEF brokerVars
<1>0. PublishInv
  BY IInvParts
<1>1. /\ ppc[p] = "publish" /\ toSend[p] = {}
      /\ status' = [e \in Event |-> CASE e \in done -> "processed"
                                      [] e \in back -> "pending"
                                      [] OTHER -> status[e]]
      /\ owner' = [e \in Event |-> IF e \in done \cup back THEN NoOwner ELSE owner[e]]
      /\ lapsed' = lapsed \ (done \cup back)
      /\ ppc' = [ppc EXCEPT ![p] = "idle"]
      /\ sent' = [sent EXCEPT ![p] = {}]
      /\ failed' = [failed EXCEPT ![p] = {}]
      /\ UNCHANGED <<entriesOf, toSend, brokerVars, consumerVars, projection, faults>>
  BY DEF CompleteClaim
<1>2. Streamed' = Streamed /\ \A d \in Streamed : d \in Event
  BY <1>1, StreamSame, IInvParts, ElementOfSeq, LenProperties DEF BrokerTypes, Streamed, Events
<1>3. \A e \in done \cup back : e \in Event /\ owner[e] = p /\ status[e] = "processing"
  BY <1>0, StreamingAssumption DEF PublishInv, LeasesAreOpen, Leased
<1>4. done \subseteq Streamed
  BY <1>0 DEF PublishInv, PassesHoldPosted
<1>5. done \subseteq sent[p] /\ back \subseteq failed[p] /\ done \subseteq Leased(p)
  OBVIOUS
<1>6. sent[p] \subseteq Leased(p) => done = sent[p]
  OBVIOUS
<1> HIDE DEF done, back
<1>7. \A e \in Event : /\ e \in done /\ e \notin back => status'[e] = "processed"
                       /\ e \in done \cup back => status'[e] \in {"processed", "pending"}
                       /\ e \in back /\ e \notin done => status'[e] = "pending"
                       /\ e \notin done \cup back => status'[e] = status[e]
                       /\ owner'[e] = IF e \in done \cup back THEN NoOwner ELSE owner[e]
  BY <1>1
<1>8. OutboxTypes' /\ PublisherTypes'
  <2>1. status' \in [Event -> {"none", "pending", "processing", "processed"}]
    BY <1>0, <1>1, <1>7 DEF PublishInv, OutboxTypes
  <2> QED
    BY <1>0, <1>1, <2>1 DEF PublishInv, OutboxTypes, PublisherTypes
<1>9. LeasesAreOpen'
  BY <1>0, <1>1, <1>3, <1>7 DEF PublishInv, LeasesAreOpen
<1>10. /\ sent'[p] = {} /\ failed'[p] = {} /\ ppc'[p] = "idle"
       /\ \A q \in Publisher \ {p} : sent'[q] = sent[q] /\ failed'[q] = failed[q] /\ ppc'[q] = ppc[q]
  BY <1>0, <1>1 DEF PublishInv, PublisherTypes
<1>11. PassesHoldPosted'
  BY <1>0, <1>1, <1>2, <1>7, <1>10 DEF PublishInv, PublisherTypes, PassesHoldPosted
<1>12. LeasesAreKept' /\ PublishedOnce'
  <2>1. CASE faults = 0
    <3>1. back = {} /\ Leased(p) = sent[p] /\ done = sent[p]
      BY <1>0, <1>1, <1>5, <1>6, <2>1 DEF PublishInv, LeasesAreKept
    <3>2. Leased(p)' = {}
      <4>1. p # NoOwner
        BY StreamingAssumption
      <4>2. ASSUME NEW e \in Event PROVE owner'[e] # p
        <5>1. CASE e \in done
          BY <1>7, <4>1, <5>1
        <5>2. CASE e \notin done
          <6>1. e \notin Leased(p) /\ e \notin done \cup back
            BY <3>1, <5>2
          <6>2. owner[e] # p
            BY <6>1 DEF Leased
          <6> QED
            BY <1>7, <6>1, <6>2
        <5> QED
          BY <5>1, <5>2
      <4> QED
        BY <4>2, Zenon DEF Leased
    <3>3. \A q \in Publisher \ {p} : Leased(q)' = Leased(q)
      BY <1>3, <1>7, StreamingAssumption DEF Leased
    <3>4. \A e \in Event : owner'[e] # Gone
      BY <1>0, <1>7, <2>1, StreamingAssumption DEF PublishInv, LeasesAreKept
    <3>5. \A e \in Event : status'[e] \in {"none", "pending"} => e \notin Streamed
      BY <1>0, <1>7, <2>1, <3>1 DEF PublishInv, LeasesAreKept
    <3>6. \A q \in Publisher :
            /\ failed'[q] = {}
            /\ ppc'[q] # "publish" => toSend'[q] = {} /\ sent'[q] = {}
            /\ ppc'[q] \in {"idle", "claim"} => Leased(q)' = {}
            /\ ppc'[q] = "hydrate" => Leased(q)' \cap Streamed = {}
            /\ ppc'[q] = "publish" => /\ Leased(q)' = toSend'[q] \cup sent'[q]
                                      /\ toSend'[q] \cap Streamed = {}
      BY <1>0, <1>1, <1>10, <2>1, <3>2, <3>3 DEF PublishInv, LeasesAreKept
    <3>7. lapsed' = {}
      BY <1>0, <1>1, <2>1 DEF PublishInv, LeasesAreKept
    <3> QED
      BY <1>0, <1>1, <1>2, <3>4, <3>5, <3>6, <3>7 DEF PublishInv, LeasesAreKept, PublishedOnce
  <2>2. CASE faults # 0
    BY <1>1, <2>2 DEF LeasesAreKept, PublishedOnce
  <2> QED
    BY <2>1, <2>2
<1>13. PublishInv'
  BY <1>0, <1>1, <1>2, <1>3, <1>4, <1>7, <1>8, <1>9, <1>11, <1>12 DEF PublishInv
<1> QED
  BY <1>1, <1>13, OutboxStepKeeps

-----------------------------------------------------------------------------
(* The broker.                                                             *)

\* A message more.
LEMMA EnqueueAdds ==
  ASSUME BrokerTypes, NEW e \in Event, Enqueue(e)
  PROVE  /\ BrokerTypes'
         /\ Streamed' = Streamed \cup {e}
         /\ DOMAIN stream' = DOMAIN stream \cup {Len(stream) + 1}
         /\ Len(stream) + 1 \notin DOMAIN stream
         /\ stream'[Len(stream) + 1] = e /\ delivery'[Len(stream) + 1] = "ready"
         /\ \A i \in DOMAIN stream : stream'[i] = stream[i] /\ delivery'[i] = delivery[i]
<1> DEFINE n == Len(stream)
<1>1. n \in Nat /\ DOMAIN stream = 1..n /\ stream \in Seq(Event)
  BY LenProperties DEF BrokerTypes
<1>2. delivery \in Seq({"ready", "out", "acked"}) /\ Len(delivery) = n
  BY <1>1 DEF BrokerTypes
<1>3. /\ stream' \in Seq(Event) /\ Len(stream') = n + 1
      /\ \A i \in 1..n : stream'[i] = stream[i]
      /\ stream'[n + 1] = e
  BY <1>1, AppendProperties DEF Enqueue
<1>4. /\ delivery' \in Seq({"ready", "out", "acked"}) /\ Len(delivery') = n + 1
      /\ \A i \in 1..n : delivery'[i] = delivery[i]
      /\ delivery'[n + 1] = "ready"
  BY <1>2, AppendProperties DEF Enqueue
<1>5. DOMAIN stream' = 1..(n + 1) /\ DOMAIN delivery' = 1..(n + 1)
  BY <1>3, <1>4, LenProperties
<1>6. delivery' \in [1..(n + 1) -> {"ready", "out", "acked"}]
  BY <1>4, <1>5, LenProperties
<1>7. BrokerTypes'
  BY <1>3, <1>5, <1>6 DEF BrokerTypes
<1>8. 1..(n + 1) = (1..n) \cup {n + 1} /\ n + 1 \notin 1..n
  <2>1. \A m \in Nat : 1..(m + 1) = (1..m) \cup {m + 1} /\ m + 1 \notin 1..m
    OBVIOUS
  <2> QED
    BY <1>1, <2>1
<1> HIDE DEF n
<1>9. Streamed' = Streamed \cup {e}
  BY <1>1, <1>3, <1>5, <1>8 DEF Streamed, Events
<1> QED
  BY <1>1, <1>3, <1>4, <1>5, <1>7, <1>8, <1>9 DEF n

\* A stored message changes nothing for the consumers but what there is to fetch.
LEMMA EnqueueKeepsConsumers ==
  ASSUME BrokerTypes, ConsumeInv, NEW e \in Event, Enqueue(e),
         UNCHANGED <<entriesOf, consumerVars, projection>>
  PROVE  ConsumeInv'
<1> USE DEF consumerVars, projection
<1>1. /\ DOMAIN stream \subseteq DOMAIN stream' /\ Streamed \subseteq Streamed'
      /\ \A i \in DOMAIN stream : stream'[i] = stream[i] /\ delivery'[i] = delivery[i]
      /\ \A i \in DOMAIN stream' \ DOMAIN stream : delivery'[i] = "ready"
  BY EnqueueAdds
<1>2. ConsumerTypes' /\ ProjectionTypes'
  BY <1>1 DEF ConsumeInv, ConsumerTypes, ProjectionTypes
<1>3. \A c \in Consumer : fetched[c] \subseteq DOMAIN stream /\ Events(fetched[c])' = Events(fetched[c])
  BY <1>1 DEF ConsumeInv, ConsumerTypes, Events
<1>4. BatchesAdvance' /\ FreshIsNew'
  BY <1>1, <1>3 DEF ConsumeInv, BatchesAdvance, FreshIsNew
<1>5. AggregatesMatchInbox' /\ CursorsAreCounted'
  BY AddedSame DEF ConsumeInv, AggregatesMatchInbox, CursorsAreCounted
<1>6. \A i \in DOMAIN stream' : delivery'[i] = "acked" => stream'[i] \in inbox'
  BY <1>1 DEF ConsumeInv
<1> QED
  BY <1>2, <1>4, <1>5, <1>6 DEF ConsumeInv

\* The broker stores an event that only this pass leases, and not yet stored
\* unless something has failed.
LEMMA PublishKeeps ==
  ASSUME IInv, NEW p \in Publisher, Publish(p)
  PROVE  IInv'
<1> USE DEF outboxVars
<1>0. PublishInv /\ BrokerTypes /\ ConsumeInv
  BY IInvParts
<1>1. PICK e \in toSend[p] : /\ Enqueue(e)
                            /\ sent' = [sent EXCEPT ![p] = @ \cup {e}]
                            /\ toSend' = [toSend EXCEPT ![p] = @ \ {e}]
  BY DEF Publish
<1>2. /\ ppc[p] = "publish"
      /\ UNCHANGED <<outboxVars, ppc, failed, consumerVars, projection, faults>>
  BY DEF Publish
<1>3. e \in Event /\ status[e] # "none"
  BY <1>0 DEF PublishInv, PublisherTypes, PassesHoldPosted
<1>4. BrokerTypes' /\ ConsumeInv' /\ Streamed' = Streamed \cup {e}
  BY <1>0, <1>1, <1>2, <1>3, EnqueueAdds, EnqueueKeepsConsumers
<1>5. /\ sent'[p] = sent[p] \cup {e} /\ toSend'[p] = toSend[p] \ {e}
      /\ \A q \in Publisher \ {p} : sent'[q] = sent[q] /\ toSend'[q] = toSend[q]
  BY <1>0, <1>1 DEF PublishInv, PublisherTypes
<1>6. OutboxTypes' /\ PublisherTypes'
  BY <1>0, <1>1, <1>2, <1>3 DEF PublishInv, OutboxTypes, PublisherTypes
<1>7. LeasesAreOpen' /\ PassesHoldPosted'
  <2>1. LeasesAreOpen'
    BY <1>0, <1>2 DEF PublishInv, LeasesAreOpen
  <2>2. PassesHoldPosted'
    BY <1>0, <1>2, <1>4, <1>5 DEF PublishInv, PassesHoldPosted
  <2> QED
    BY <2>1, <2>2
<1>8. LeasesAreKept' /\ PublishedOnce'
  <2>1. CASE faults = 0
    <3>1. \A q \in Publisher : Leased(q)' = Leased(q)
      BY <1>2 DEF Leased
    <3>2. e \notin Streamed /\ e \in Leased(p) /\ status[e] \notin {"none", "pending"}
      BY <1>0, <1>2, <1>3, <2>1, StreamingAssumption DEF PublishInv, LeasesAreKept, LeasesAreOpen, Leased
    <3>3. \A q \in Publisher \ {p} : e \notin Leased(q)
      BY <3>2 DEF Leased
    <3>4. LeasesAreKept'
      <4>1. lapsed' = {} /\ \A d \in Event : owner'[d] # Gone
        BY <1>0, <1>2, <2>1 DEF PublishInv, LeasesAreKept
      <4>2. \A d \in Event : status'[d] \in {"none", "pending"} => d \notin Streamed'
        BY <1>0, <1>2, <1>4, <2>1, <3>2 DEF PublishInv, LeasesAreKept
      <4>3. \A q \in Publisher :
            /\ failed'[q] = {}
            /\ ppc'[q] # "publish" => toSend'[q] = {} /\ sent'[q] = {}
            /\ ppc'[q] \in {"idle", "claim"} => Leased(q)' = {}
            /\ ppc'[q] = "hydrate" => Leased(q)' \cap Streamed' = {}
            /\ ppc'[q] = "publish" => /\ Leased(q)' = toSend'[q] \cup sent'[q]
                                      /\ toSend'[q] \cap Streamed' = {}
        <5> SUFFICES ASSUME NEW q \in Publisher
                     PROVE  /\ failed'[q] = {}
                            /\ ppc'[q] # "publish" => toSend'[q] = {} /\ sent'[q] = {}
                            /\ ppc'[q] \in {"idle", "claim"} => Leased(q)' = {}
                            /\ ppc'[q] = "hydrate" => Leased(q)' \cap Streamed' = {}
                            /\ ppc'[q] = "publish" => /\ Leased(q)' = toSend'[q] \cup sent'[q]
                                                      /\ toSend'[q] \cap Streamed' = {}
          OBVIOUS
        <5>1. CASE q = p
          BY <1>0, <1>2, <1>4, <1>5, <2>1, <3>1, <5>1 DEF PublishInv, LeasesAreKept
        <5>2. CASE q # p
          BY <1>0, <1>2, <1>4, <1>5, <2>1, <3>1, <3>3, <5>2 DEF PublishInv, LeasesAreKept
        <5> QED
          BY <5>1, <5>2
      <4> QED
        BY <4>1, <4>2, <4>3 DEF LeasesAreKept
    <3>5. \A i, j \in DOMAIN stream' : stream'[i] = stream'[j] => i = j
      <4>1. \A i \in DOMAIN stream : stream[i] # e
        BY <3>2 DEF Streamed, Events
      <4>2. \A i, j \in DOMAIN stream : stream[i] = stream[j] => i = j
        BY <1>0, <2>1 DEF PublishInv, PublishedOnce
      <4> QED
        BY <1>0, <1>1, <1>3, <4>1, <4>2, EnqueueAdds
    <3> QED
      BY <3>4, <3>5 DEF PublishedOnce
  <2>2. CASE faults # 0
    BY <1>2, <2>2 DEF LeasesAreKept, PublishedOnce
  <2> QED
    BY <2>1, <2>2
<1>9. PublishInv'
  BY <1>0, <1>2, <1>3, <1>4, <1>6, <1>7, <1>8 DEF PublishInv
<1> QED
  BY <1>4, <1>9, IInvPartsNext

\* A publication reported as an error, stored or not.
LEMMA PublishFailsKeeps ==
  ASSUME IInv, NEW p \in Publisher, PublishFails(p)
  PROVE  IInv'
<1> USE DEF outboxVars
<1>0. PublishInv /\ BrokerTypes /\ ConsumeInv
  BY IInvParts
<1>1. PICK e \in toSend[p] : /\ Enqueue(e) \/ UNCHANGED brokerVars
                            /\ failed' = [failed EXCEPT ![p] = @ \cup {e}]
                            /\ toSend' = [toSend EXCEPT ![p] = @ \ {e}]
  BY DEF PublishFails
<1>2. UNCHANGED <<outboxVars, ppc, sent, consumerVars, projection>>
  BY DEF PublishFails
<1>3. e \in Event /\ status[e] # "none"
  BY <1>0 DEF PublishInv, PublisherTypes, PassesHoldPosted
<1>4. faults' \in Nat /\ faults' # 0
  BY <1>0, Faulty DEF PublishFails, PublishInv
<1>5. /\ BrokerTypes' /\ ConsumeInv'
      /\ Streamed \subseteq Streamed' /\ Streamed' \subseteq Streamed \cup {e}
  <2>1. CASE Enqueue(e)
    BY <1>0, <1>2, <1>3, <2>1, EnqueueAdds, EnqueueKeepsConsumers
  <2>2. CASE UNCHANGED brokerVars
    BY <1>0, <1>2, <2>2, ConsumersKept, StreamSame DEF brokerVars, BrokerTypes
  <2> QED
    BY <1>1, <2>1, <2>2
<1>6. OutboxTypes' /\ PublisherTypes'
  BY <1>0, <1>1, <1>2, <1>3 DEF PublishInv, OutboxTypes, PublisherTypes
<1>7. \A q \in Publisher : toSend'[q] \subseteq toSend[q]
  BY <1>0, <1>1 DEF PublishInv, PublisherTypes
<1>8. LeasesAreOpen' /\ PassesHoldPosted'
  <2>1. LeasesAreOpen'
    BY <1>0, <1>2 DEF PublishInv, LeasesAreOpen
  <2>2. PassesHoldPosted'
    BY <1>0, <1>2, <1>5, <1>7 DEF PublishInv, PassesHoldPosted
  <2> QED
    BY <2>1, <2>2
<1>9. LeasesAreKept' /\ PublishedOnce'
  BY <1>4 DEF LeasesAreKept, PublishedOnce
<1>10. PublishInv'
  BY <1>0, <1>2, <1>3, <1>4, <1>5, <1>6, <1>8, <1>9 DEF PublishInv
<1> QED
  BY <1>5, <1>10, IInvPartsNext

-----------------------------------------------------------------------------
(* The consumers.                                                          *)

\* A step of a consumer or of the broker's deliveries.
LEMMA ConsumerStepKeeps ==
  ASSUME IInv, ConsumeInv', UNCHANGED <<outboxVars, publisherVars, stream>>,
         delivery' \in [DOMAIN stream -> {"ready", "out", "acked"}],
         UNCHANGED faults \/ Fault
  PROVE  IInv'
<1>1. faults' \in Nat /\ (faults' = faults \/ faults' # 0)
  BY Faulty DEF IInv, TypeOK
<1>2. PublishInv'
  BY <1>1, IInvParts, PublishersKept
<1>3. BrokerTypes'
  BY IInvParts DEF BrokerTypes
<1> QED
  BY <1>2, <1>3, IInvPartsNext

\* The others do not see a consumer's step that leaves the projection alone.
LEMMA ConsumerFrame ==
  ASSUME ConsumeInv, NEW c \in Consumer, ConsumerTypes',
         UNCHANGED <<entriesOf, stream, projection>>,
         \A d \in Consumer \ {c} :
           UNCHANGED <<cpc[d], fetched[d], left[d], fresh[d]>>,
         cpc'[c] # "apply" => left'[c] = {} /\ fresh'[c] = {},
         cpc'[c] \in {"idle", "stopped"} => fetched'[c] = {},
         cpc'[c] = "apply" => {stream[i] : i \in fetched'[c]} \subseteq left'[c] \cup fresh'[c] \cup inbox,
         cpc'[c] = "ack" => {stream[i] : i \in fetched'[c]} \subseteq inbox,
         left'[c] \cup fresh'[c] \subseteq Streamed,
         IsFiniteSet(fresh'[c]), fresh'[c] \cap inbox = {},
         \A d \in Consumer \ {c} : fresh'[c] \cap fresh[d] = {},
         \A i \in DOMAIN stream : delivery'[i] = "acked" => stream[i] \in inbox
  PROVE  ConsumeInv'
<1> USE DEF projection
<1>1. ProjectionTypes'
  BY DEF ConsumeInv, ProjectionTypes
<1>2. AggregatesMatchInbox' /\ CursorsAreCounted'
  BY AddedSame DEF ConsumeInv, AggregatesMatchInbox, CursorsAreCounted
<1>3. FreshIsNew'
  BY DEF ConsumeInv, FreshIsNew
<1>4. Streamed' = Streamed
  BY StreamSame
<1>5. \A d \in Consumer : Events(fetched[d])' = {stream[i] : i \in fetched'[d]}
  BY DEF Events
<1>6. \A d \in Consumer \ {c} : Events(fetched[d])' = Events(fetched[d])
  BY DEF Events
<1>7. BatchesAdvance'
  <2>1. ASSUME NEW d \in Consumer
        PROVE  /\ cpc'[d] # "apply" => left'[d] = {} /\ fresh'[d] = {}
               /\ cpc'[d] \in {"idle", "stopped"} => fetched'[d] = {}
               /\ cpc'[d] = "apply" => Events(fetched[d])' \subseteq left'[d] \cup fresh'[d] \cup inbox
               /\ cpc'[d] = "ack" => Events(fetched[d])' \subseteq inbox
               /\ left'[d] \cup fresh'[d] \subseteq Streamed
    <3>1. CASE d = c
      BY <1>5, <3>1
    <3>2. CASE d # c
      BY <1>6, <3>2 DEF ConsumeInv, BatchesAdvance
    <3> QED
      BY <3>1, <3>2
  <2> QED
    BY <1>4, <2>1 DEF ConsumeInv, BatchesAdvance
<1> QED
  BY <1>1, <1>2, <1>3, <1>7 DEF ConsumeInv

\* FetchBatch: the transaction is to insert a row for every event in hand.
LEMMA FetchKeeps ==
  ASSUME IInv, NEW c \in Consumer, Fetch(c)
  PROVE  IInv'
<1> DEFINE messages == Oldest(FetchBatch, Ready)
<1>0. ConsumeInv /\ BrokerTypes
  BY IInvParts
<1>1. /\ cpc[c] = "idle"
      /\ fetched' = [fetched EXCEPT ![c] = messages]
      /\ left' = [left EXCEPT ![c] = Events(messages)]
      /\ delivery' = [i \in DOMAIN stream |-> IF i \in messages THEN "out" ELSE delivery[i]]
      /\ cpc' = [cpc EXCEPT ![c] = "apply"]
      /\ UNCHANGED <<outboxVars, publisherVars, stream, fresh, projection, faults>>
  BY DEF Fetch
<1>2. messages \subseteq DOMAIN stream
  BY DEF Oldest, Ready
<1> HIDE DEF messages
<1>3. Events(messages) \subseteq Streamed /\ Events(messages) \subseteq Event
  BY <1>0, <1>2, ElementOfSeq, LenProperties DEF BrokerTypes, Streamed, Events
<1>4. /\ cpc'[c] = "apply" /\ fetched'[c] = messages /\ left'[c] = Events(messages)
      /\ fresh'[c] = {} /\ fresh[c] = {}
      /\ \A d \in Consumer \ {c} : UNCHANGED <<cpc[d], fetched[d], left[d], fresh[d]>>
  BY <1>0, <1>1 DEF ConsumeInv, ConsumerTypes, BatchesAdvance
<1>5. ConsumerTypes'
  BY <1>0, <1>1, <1>2, <1>3 DEF ConsumeInv, ConsumerTypes
<1>6. delivery' \in [DOMAIN stream -> {"ready", "out", "acked"}]
  BY <1>0, <1>1 DEF BrokerTypes
<1>7. \A i \in DOMAIN stream : delivery'[i] = "acked" => stream[i] \in inbox
  BY <1>0, <1>1 DEF ConsumeInv
<1>8. {stream[i] : i \in fetched'[c]} \subseteq left'[c] \cup fresh'[c] \cup inbox
  BY <1>4 DEF Events
<1>9. left'[c] \cup fresh'[c] \subseteq Streamed
  BY <1>3, <1>4
<1>10. UNCHANGED <<entriesOf, stream, projection>>
  BY <1>1 DEF outboxVars
<1>11. ConsumeInv'
  BY <1>0, <1>4, <1>5, <1>7, <1>8, <1>9, <1>10, FS_EmptySet, ConsumerFrame
<1> QED
  BY <1>1, <1>6, <1>11, ConsumerStepKeeps

\* An inbox row is inserted unless it is there; nobody else is inserting it.
LEMMA InsertKeeps ==
  ASSUME IInv, NEW c \in Consumer, InsertInbox(c)
  PROVE  IInv'
<1>0. ConsumeInv /\ BrokerTypes
  BY IInvParts
<1>1. PICK e \in Event :
        /\ e \in left[c]
        /\ \A d \in Consumer \ {c} : e \notin fresh[d]
        /\ left' = [left EXCEPT ![c] = @ \ {e}]
        /\ fresh' = [fresh EXCEPT ![c] = IF e \in inbox THEN @ ELSE @ \cup {e}]
  BY DEF InsertInbox, IsNextEvent
<1>2. /\ cpc[c] = "apply"
      /\ UNCHANGED <<outboxVars, publisherVars, brokerVars, cpc, fetched, projection, faults>>
  BY DEF InsertInbox
<1>3. /\ left'[c] = left[c] \ {e} /\ fresh'[c] = IF e \in inbox THEN fresh[c] ELSE fresh[c] \cup {e}
      /\ \A d \in Consumer \ {c} : UNCHANGED <<cpc[d], fetched[d], left[d], fresh[d]>>
      /\ cpc'[c] = cpc[c] /\ fetched'[c] = fetched[c]
  BY <1>0, <1>1, <1>2 DEF ConsumeInv, ConsumerTypes
<1>4. ConsumerTypes'
  BY <1>0, <1>1, <1>2 DEF ConsumeInv, ConsumerTypes, brokerVars
<1>5. {stream[i] : i \in fetched'[c]} \subseteq left'[c] \cup fresh'[c] \cup inbox
  BY <1>0, <1>2, <1>3 DEF ConsumeInv, BatchesAdvance, Events
<1>6. left'[c] \cup fresh'[c] \subseteq Streamed
  BY <1>0, <1>1, <1>3 DEF ConsumeInv, BatchesAdvance
<1>7. IsFiniteSet(fresh'[c]) /\ fresh'[c] \cap inbox = {}
  <2>1. IsFiniteSet(fresh[c]) /\ fresh[c] \cap inbox = {}
    BY <1>0 DEF ConsumeInv, FreshIsNew
  <2>2. IsFiniteSet(fresh[c] \cup {e})
    BY <2>1, FS_AddElement
  <2> QED
    BY <1>3, <2>1, <2>2
<1>8. \A d \in Consumer \ {c} : fresh'[c] \cap fresh[d] = {}
  BY <1>0, <1>1, <1>3 DEF ConsumeInv, FreshIsNew
<1>9. \A i \in DOMAIN stream : delivery'[i] = "acked" => stream[i] \in inbox
  BY <1>0, <1>2 DEF ConsumeInv, brokerVars
<1>10. UNCHANGED <<entriesOf, stream, projection>>
  BY <1>2 DEF outboxVars, brokerVars
<1>11. ConsumeInv'
  BY <1>0, <1>2, <1>3, <1>4, <1>5, <1>6, <1>7, <1>8, <1>9, <1>10, ConsumerFrame
<1> QED
  BY <1>0, <1>2, <1>11, ConsumerStepKeeps DEF BrokerTypes, brokerVars

\* What an event adds to a row is a number.
LEMMA AddedType ==
  ASSUME OutboxTypes, NEW r, NEW e \in Event
  PROVE  DebitAdded(r, e) \in Int /\ CreditAdded(r, e) \in Int
<1> DEFINE E == entriesOf[e]
           f == [i \in DOMAIN E |-> IF Counts(r, e, E[i]) THEN E[i].debit ELSE 0]
           g == [i \in DOMAIN E |-> IF Counts(r, e, E[i]) THEN E[i].credit ELSE 0]
<1>1. entriesOf \in Postings
  BY DEF OutboxTypes
<1>2. IsFiniteSet(DOMAIN E) /\ \A i \in DOMAIN E : E[i].debit \in Int /\ E[i].credit \in Int
  BY <1>1, PostingsAssumption
<1>3. DebitAdded(r, e) = SumFunctionOnSet(f, DOMAIN E)
  BY DEF DebitAdded, Total, SumFunction
<1>4. CreditAdded(r, e) = SumFunctionOnSet(g, DOMAIN E)
  BY DEF CreditAdded, Total, SumFunction
<1> HIDE DEF E
<1>5. \A i \in DOMAIN E : f[i] \in Int /\ g[i] \in Int
  BY <1>2
<1> HIDE DEF f, g
<1> QED
  BY <1>2, <1>3, <1>4, <1>5, SumType

\* What two batches with no event in common add.
LEMMA AddsUnion ==
  ASSUME OutboxTypes, NEW r, NEW S \in SUBSET Event, NEW T \in SUBSET Event,
         IsFiniteSet(S), IsFiniteSet(T), S \cap T = {}
  PROVE  /\ Adds(r, S).debit \in Int /\ Adds(r, S).credit \in Int
         /\ Adds(r, T).debit \in Int /\ Adds(r, T).credit \in Int
         /\ Adds(r, S \cup T) = [debit  |-> Adds(r, S).debit + Adds(r, T).debit,
                                 credit |-> Adds(r, S).credit + Adds(r, T).credit]
<1> DEFINE D(U) == [e \in U |-> DebitAdded(r, e)]
           C(U) == [e \in U |-> CreditAdded(r, e)]
           SD(U) == SumFunctionOnSet(D(U), U)
           SC(U) == SumFunctionOnSet(C(U), U)
<1>1. \A U : Adds(r, U) = [debit |-> SD(U), credit |-> SC(U)]
  BY DEF Adds, SumFunction
<1>2. \A e \in S \cup T : DebitAdded(r, e) \in Int /\ CreditAdded(r, e) \in Int
  BY AddedType
<1>3. SD(S) \in Int /\ SC(S) \in Int /\ SD(T) \in Int /\ SC(T) \in Int
  <2>1. \A e \in S : D(S)[e] \in Int /\ C(S)[e] \in Int
    BY <1>2
  <2>2. \A e \in T : D(T)[e] \in Int /\ C(T)[e] \in Int
    BY <1>2
  <2> HIDE DEF D, C
  <2> QED
    BY <2>1, <2>2, SumType
<1>4. SD(S \cup T) = SD(S) + SD(T)
  <2> DEFINE f == D(S \cup T)
  <2>1. \A e \in S \cup T : f[e] \in Int
    BY <1>2
  <2>2. /\ \A e \in S : f[e] \in Int /\ D(S)[e] = f[e]
        /\ \A e \in T : f[e] \in Int /\ D(T)[e] = f[e]
    BY <1>2
  <2> HIDE DEF f, D
  <2>3. SumFunctionOnSet(f, S \cup T) = SumFunctionOnSet(f, S) + SumFunctionOnSet(f, T)
    BY <2>1, SumUnion
  <2>4. SumFunctionOnSet(f, S) = SD(S) /\ SumFunctionOnSet(f, T) = SD(T)
    BY <2>2, SumEqual
  <2> QED
    BY <2>3, <2>4 DEF f
<1>5. SC(S \cup T) = SC(S) + SC(T)
  <2> DEFINE f == C(S \cup T)
  <2>1. \A e \in S \cup T : f[e] \in Int
    BY <1>2
  <2>2. /\ \A e \in S : f[e] \in Int /\ C(S)[e] = f[e]
        /\ \A e \in T : f[e] \in Int /\ C(T)[e] = f[e]
    BY <1>2
  <2> HIDE DEF f, C
  <2>3. SumFunctionOnSet(f, S \cup T) = SumFunctionOnSet(f, S) + SumFunctionOnSet(f, T)
    BY <2>1, SumUnion
  <2>4. SumFunctionOnSet(f, S) = SC(S) /\ SumFunctionOnSet(f, T) = SC(T)
    BY <2>2, SumEqual
  <2> QED
    BY <2>3, <2>4 DEF f
<1> HIDE DEF SD, SC
<1> QED
  BY <1>1, <1>3, <1>4, <1>5

\* The commit of a batch: it adds what its new inbox rows stand for, once.
LEMMA CommitKeeps ==
  ASSUME OutboxTypes, ConsumeInv, NEW c \in Consumer, ApplyCommits(c), UNCHANGED entriesOf
  PROVE  /\ ProjectionTypes'
         /\ inbox' = inbox \cup fresh[c] /\ IsFiniteSet(inbox')
         /\ AggregatesMatchInbox' /\ CursorsAreCounted'
<1> DEFINE new == fresh[c]
<1>1. /\ inbox \subseteq Event /\ new \subseteq Event
      /\ IsFiniteSet(inbox) /\ IsFiniteSet(new) /\ inbox \cap new = {}
  BY DEF ConsumeInv, ConsumerTypes, ProjectionTypes, FreshIsNew
<1>2. /\ inbox' = inbox \cup new
      /\ aggregate' = [r \in Row |-> [debit  |-> aggregate[r].debit + Adds(r, new).debit,
                                      credit |-> aggregate[r].credit + Adds(r, new).credit,
                                      last   |-> NewCursor(r, new)]]
  BY DEF ApplyCommits, NewAggregate
<1>3. /\ aggregate \in [Row -> Aggregate] /\ AggregatesMatchInbox /\ CursorsAreCounted
  BY DEF ConsumeInv, ProjectionTypes
<1> HIDE DEF new
<1>4. IsFiniteSet(inbox')
  BY <1>1, <1>2, FS_Union
<1>5. ASSUME NEW r \in Row
      PROVE  /\ Adds(r, inbox)' = [debit  |-> aggregate'[r].debit, credit |-> aggregate'[r].credit]
             /\ aggregate'[r].debit \in Int /\ aggregate'[r].credit \in Int
  <2>1. /\ Adds(r, new).debit \in Int /\ Adds(r, new).credit \in Int
        /\ Adds(r, inbox).debit \in Int /\ Adds(r, inbox).credit \in Int
        /\ Adds(r, inbox \cup new) = [debit  |-> Adds(r, inbox).debit + Adds(r, new).debit,
                                      credit |-> Adds(r, inbox).credit + Adds(r, new).credit]
    BY <1>1, AddsUnion
  <2>2. Adds(r, inbox)' = Adds(r, inbox \cup new)
    <3>1. \A S : Adds(r, S)' = Adds(r, S)
      BY AddedSame
    <3> QED
      BY <1>2, <3>1
  <2>3. aggregate[r].debit = Adds(r, inbox).debit /\ aggregate[r].credit = Adds(r, inbox).credit
    BY <1>3 DEF AggregatesMatchInbox
  <2>4. /\ aggregate'[r].debit = aggregate[r].debit + Adds(r, new).debit
        /\ aggregate'[r].credit = aggregate[r].credit + Adds(r, new).credit
    BY <1>2
  <2> QED
    BY <2>1, <2>2, <2>3, <2>4
<1>6. AggregatesMatchInbox'
  BY <1>5 DEF AggregatesMatchInbox
<1>7. ASSUME NEW r \in Row
      PROVE  /\ aggregate'[r].last = NewCursor(r, new)
             /\ aggregate'[r].last \in IF CountedIn(r, inbox') = {} THEN {0} ELSE CountedIn(r, inbox')
  <2>1. aggregate'[r].last = NewCursor(r, new)
    BY <1>2
  <2>2. CountedIn(r, inbox') = CountedIn(r, inbox) \cup CountedIn(r, new)
    BY <1>2 DEF CountedIn
  <2>3. aggregate[r].last \in IF CountedIn(r, inbox) = {} THEN {0} ELSE CountedIn(r, inbox)
    BY <1>3 DEF CursorsAreCounted
  <2>4. CASE CountedIn(r, new) = {}
    BY <2>1, <2>2, <2>3, <2>4 DEF NewCursor
  <2>5. CASE CountedIn(r, new) # {}
    <3>1. CountedIn(r, new) \subseteq new /\ IsFiniteSet(CountedIn(r, new))
      BY <1>1, FS_Subset DEF CountedIn
    <3>2. CountedIn(r, new) \subseteq Int
      <4>1. \A e \in Event : e \in Int
        BY StreamingAssumption
      <4> QED
        BY <1>1, <3>1, <4>1
    <3>3. Max(CountedIn(r, new)) \in CountedIn(r, new)
      BY <2>5, <3>1, <3>2, MaxOfFinite
    <3> QED
      BY <2>1, <2>2, <2>5, <3>3 DEF NewCursor
  <2> QED
    BY <2>1, <2>4, <2>5
<1>8. CursorsAreCounted'
  <2>1. \A r, S : CountedIn(r, S)' = CountedIn(r, S)
    BY AddedSame
  <2>2. \A r \in Row : CountedIn(r, inbox)' = CountedIn(r, inbox')
    BY <2>1
  <2> QED
    BY <1>7, <2>2 DEF CursorsAreCounted
<1>9. ProjectionTypes'
  <2>1. \A r \in Row : aggregate'[r].last \in Event \cup {0}
    <3>1. inbox' \subseteq Event
      BY <1>1, <1>2
    <3>2. \A r \in Row : CountedIn(r, inbox') \subseteq inbox'
      BY DEF CountedIn
    <3> QED
      BY <1>7, <3>1, <3>2
  <2>2. aggregate' \in [Row -> Aggregate]
    BY <1>2, <1>5, <2>1, <1>7 DEF Aggregate
  <2> QED
    BY <1>1, <1>2, <2>2 DEF ProjectionTypes
<1> QED
  BY <1>2, <1>4, <1>6, <1>8, <1>9 DEF new

\* A transaction commits and its messages can be acknowledged.
LEMMA ApplyKeeps ==
  ASSUME IInv, NEW c \in Consumer, Apply(c)
  PROVE  IInv'
<1>0. ConsumeInv /\ BrokerTypes /\ OutboxTypes
  BY IInvParts DEF PublishInv
<1>1. /\ cpc[c] = "apply" /\ left[c] = {} /\ ApplyCommits(c)
      /\ fresh' = [fresh EXCEPT ![c] = {}]
      /\ cpc' = [cpc EXCEPT ![c] = "ack"]
      /\ UNCHANGED <<outboxVars, publisherVars, brokerVars, fetched, left, faults>>
  BY DEF Apply
<1>2. /\ ProjectionTypes' /\ inbox' = inbox \cup fresh[c] /\ IsFiniteSet(inbox')
      /\ AggregatesMatchInbox' /\ CursorsAreCounted'
  BY <1>0, <1>1, CommitKeeps DEF outboxVars
<1>3. ConsumerTypes'
  BY <1>0, <1>1 DEF ConsumeInv, ConsumerTypes, brokerVars
<1>4. /\ fresh'[c] = {} /\ cpc'[c] = "ack"
      /\ \A d \in Consumer \ {c} : fresh'[d] = fresh[d] /\ cpc'[d] = cpc[d]
  BY <1>0, <1>1 DEF ConsumeInv, ConsumerTypes
<1>5. Streamed' = Streamed /\ \A d \in Consumer : Events(fetched[d])' = Events(fetched[d])
  BY <1>1 DEF brokerVars, Streamed, Events
<1>6. FreshIsNew'
  BY <1>0, <1>2, <1>4, FS_EmptySet DEF ConsumeInv, FreshIsNew
<1>7. BatchesAdvance'
  BY <1>0, <1>1, <1>2, <1>4, <1>5 DEF ConsumeInv, BatchesAdvance
<1>8. \A i \in DOMAIN stream' : delivery'[i] = "acked" => stream'[i] \in inbox'
  BY <1>0, <1>1, <1>2 DEF ConsumeInv, brokerVars
<1>9. ConsumeInv'
  BY <1>2, <1>3, <1>6, <1>7, <1>8 DEF ConsumeInv
<1> QED
  BY <1>0, <1>1, <1>9, ConsumerStepKeeps DEF BrokerTypes, brokerVars

\* A refused batch leaves nothing behind.
LEMMA NakFits ==
  ASSUME ConsumeInv, BrokerTypes, NEW c \in Consumer, NakAll(c)
  PROVE  /\ ConsumerTypes' /\ delivery' \in [DOMAIN stream -> {"ready", "out", "acked"}]
         /\ cpc'[c] = "idle" /\ fetched'[c] = {} /\ left'[c] = {} /\ fresh'[c] = {}
         /\ \A d \in Consumer \ {c} : UNCHANGED <<cpc[d], fetched[d], left[d], fresh[d]>>
         /\ \A i \in DOMAIN stream : delivery'[i] = "acked" => stream[i] \in inbox
  BY DEF NakAll, ConsumeInv, ConsumerTypes, BrokerTypes

\* The transaction is rolled back.
LEMMA RollbackKeeps ==
  ASSUME IInv, NEW c \in Consumer, NakAll(c), UNCHANGED projection,
         UNCHANGED faults \/ Fault
  PROVE  IInv'
<1>0. ConsumeInv /\ BrokerTypes
  BY IInvParts
<1>1. UNCHANGED <<outboxVars, publisherVars, stream>>
  BY DEF NakAll
<1>2. UNCHANGED <<entriesOf, stream, projection>>
  BY <1>1 DEF outboxVars
<1>3. ConsumeInv'
  BY <1>0, <1>2, NakFits, ConsumerFrame, FS_EmptySet
<1> QED
  BY <1>0, <1>1, <1>3, NakFits, ConsumerStepKeeps

\* The commit takes effect and an error is reported all the same.
LEMMA LostCommitKeeps ==
  ASSUME IInv, NEW c \in Consumer, NakAll(c), ApplyCommits(c), Fault
  PROVE  IInv'
<1>0. ConsumeInv /\ BrokerTypes /\ OutboxTypes
  BY IInvParts DEF PublishInv
<1>1. UNCHANGED <<outboxVars, publisherVars, stream>>
  BY DEF NakAll
<1>2. /\ ProjectionTypes' /\ inbox' = inbox \cup fresh[c] /\ IsFiniteSet(inbox')
      /\ AggregatesMatchInbox' /\ CursorsAreCounted'
  BY <1>0, <1>1, CommitKeeps DEF outboxVars
<1>3. /\ Streamed' = Streamed
      /\ \A d \in Consumer \ {c} : Events(fetched[d])' = Events(fetched[d])
  BY <1>0, <1>1, NakFits DEF Streamed, Events
<1>4. FreshIsNew'
  BY <1>0, <1>2, NakFits, FS_EmptySet, ZenonT(60) DEF ConsumeInv, FreshIsNew
<1>5. BatchesAdvance'
  <2>1. inbox' \subseteq Streamed
    BY <1>0, <1>2 DEF ConsumeInv, BatchesAdvance
  <2>2. ASSUME NEW d \in Consumer
        PROVE  /\ cpc'[d] # "apply" => left'[d] = {} /\ fresh'[d] = {}
               /\ cpc'[d] \in {"idle", "stopped"} => fetched'[d] = {}
               /\ cpc'[d] = "apply" => Events(fetched[d])' \subseteq left'[d] \cup fresh'[d] \cup inbox'
               /\ cpc'[d] = "ack" => Events(fetched[d])' \subseteq inbox'
               /\ left'[d] \cup fresh'[d] \subseteq Streamed
    <3>1. CASE d = c
      BY <1>0, <3>1, NakFits
    <3>2. CASE d # c
      BY <1>0, <1>2, <1>3, <3>2, NakFits DEF ConsumeInv, BatchesAdvance
    <3> QED
      BY <3>1, <3>2
  <2> QED
    BY <1>3, <2>1, <2>2 DEF BatchesAdvance
<1>6. \A i \in DOMAIN stream' : delivery'[i] = "acked" => stream'[i] \in inbox'
  BY <1>0, <1>1, <1>2, NakFits
<1>7. ConsumeInv'
  BY <1>0, <1>2, <1>4, <1>5, <1>6, NakFits DEF ConsumeInv
<1> QED
  BY <1>0, <1>1, <1>7, NakFits, ConsumerStepKeeps

\* A batch that cannot be applied.
LEMMA RefuseKeeps ==
  ASSUME IInv, NEW c \in Consumer, ApplyOverflows(c) \/ ApplyFails(c)
  PROVE  IInv'
<1>1. CASE ApplyOverflows(c)
  BY <1>1, RollbackKeeps DEF ApplyOverflows
<1>2. CASE ApplyFails(c)
  BY <1>2, RollbackKeeps, LostCommitKeeps DEF ApplyFails
<1> QED
  BY <1>1, <1>2

\* A message of a committed batch is acknowledged, the acknowledgement is
\* lost, the worker returns, or the batch is done.
LEMMA AcknowledgeKeeps ==
  ASSUME IInv, NEW c \in Consumer,
         Acknowledge(c) \/ AckLost(c) \/ Acknowledged(c) \/ ConsumerStops(c)
  PROVE  IInv'
<1>0. ConsumeInv /\ BrokerTypes
  BY IInvParts
<1> USE DEF Acknowledge, AckLost, Acknowledged, ConsumerStops, brokerVars
<1>1. UNCHANGED <<outboxVars, publisherVars, stream, left, fresh, projection>>
  OBVIOUS
<1>2. UNCHANGED faults \/ Fault
  OBVIOUS
<1>3. UNCHANGED <<entriesOf, stream, projection>>
  BY <1>1 DEF outboxVars
<1>4. cpc[c] \in {"idle", "ack"} /\ cpc'[c] \in {"ack", "idle", "stopped"}
  BY <1>0 DEF ConsumeInv, ConsumerTypes
<1>5. ConsumerTypes'
  BY <1>0, <1>1 DEF ConsumeInv, ConsumerTypes
<1>6. \A d \in Consumer \ {c} : UNCHANGED <<cpc[d], fetched[d], left[d], fresh[d]>>
  BY <1>0, <1>1 DEF ConsumeInv, ConsumerTypes
<1>7. left'[c] = {} /\ fresh'[c] = {}
  BY <1>0, <1>1, <1>4 DEF ConsumeInv, BatchesAdvance
<1>8. cpc'[c] \in {"idle", "stopped"} => fetched'[c] = {}
  BY <1>0 DEF ConsumeInv, ConsumerTypes
<1>9. {stream[i] : i \in fetched[c]} \subseteq inbox
  <2>1. Events(fetched[c]) \subseteq inbox
    BY <1>0, <1>4 DEF ConsumeInv, BatchesAdvance, Events
  <2> QED
    BY <2>1 DEF Events
<1>10. fetched'[c] \subseteq fetched[c]
  BY <1>0 DEF ConsumeInv, ConsumerTypes
<1>11. {stream[i] : i \in fetched'[c]} \subseteq inbox
  BY <1>9, <1>10
<1>12. delivery' \in [DOMAIN stream -> {"ready", "out", "acked"}]
  BY <1>0 DEF BrokerTypes
<1>13. \A i \in DOMAIN stream : delivery'[i] = "acked" => delivery[i] = "acked" \/ i \in fetched[c]
  BY <1>0 DEF BrokerTypes
<1>14. \A i \in DOMAIN stream : delivery'[i] = "acked" => stream[i] \in inbox
  BY <1>0, <1>9, <1>13 DEF ConsumeInv
<1>15. ConsumeInv'
  BY <1>0, <1>3, <1>4, <1>5, <1>6, <1>7, <1>8, <1>11, <1>14, FS_EmptySet, ConsumerFrame
<1> QED
  BY <1>1, <1>2, <1>12, <1>15, ConsumerStepKeeps

\* A message becomes available again.
LEMMA RedeliverKeeps ==
  ASSUME IInv, NEW i \in DOMAIN stream, Redeliver(i) \/ SlowConsumer(i)
  PROVE  IInv'
<1>0. ConsumeInv /\ BrokerTypes
  BY IInvParts
<1>1. /\ delivery' = [delivery EXCEPT ![i] = "ready"]
      /\ UNCHANGED <<outboxVars, publisherVars, stream, consumerVars, projection>>
      /\ UNCHANGED faults \/ Fault
  BY DEF Redeliver, SlowConsumer
<1>2. /\ delivery' \in [DOMAIN stream -> {"ready", "out", "acked"}]
      /\ \A j \in DOMAIN stream : delivery'[j] = "acked" => delivery[j] = "acked"
  BY <1>0, <1>1 DEF BrokerTypes
<1>3. ConsumerTypes' /\ ProjectionTypes'
  BY <1>0, <1>1 DEF ConsumeInv, ConsumerTypes, ProjectionTypes, consumerVars, projection
<1>4. BatchesAdvance' /\ FreshIsNew'
  BY <1>0, <1>1 DEF ConsumeInv, BatchesAdvance, FreshIsNew, Streamed, Events, consumerVars, projection
<1>5. AggregatesMatchInbox' /\ CursorsAreCounted'
  BY <1>0, <1>1, AddedSame DEF ConsumeInv, AggregatesMatchInbox, CursorsAreCounted, projection, outboxVars
<1>6. ConsumeInv'
  BY <1>0, <1>1, <1>2, <1>3, <1>4, <1>5 DEF ConsumeInv, projection
<1> QED
  BY <1>1, <1>2, <1>6, ConsumerStepKeeps

-----------------------------------------------------------------------------
(* The whole system.                                                       *)

\* A crash: what was committed stays, what was in hand is gone.
LEMMA RestartKeeps ==
  ASSUME IInv, Restart
  PROVE  IInv'
<1> USE DEF Restart, brokerVars, projection
<1>0. PublishInv /\ ConsumeInv /\ BrokerTypes
  BY IInvParts
<1>1. faults' \in Nat /\ faults' # 0
  BY <1>0, Faulty DEF PublishInv
<1>2. Streamed' = Streamed
  BY StreamSame
<1>3. OutboxTypes' /\ PublisherTypes' /\ BrokerTypes'
  BY <1>0 DEF Abandoned, PublishInv, OutboxTypes, PublisherTypes, BrokerTypes
<1>4. LeasesAreOpen' /\ PassesHoldPosted'
  BY <1>0, <1>2, StreamingAssumption
     DEF Abandoned, PublishInv, OutboxTypes, LeasesAreOpen, PassesHoldPosted
<1>5. LeasesAreKept' /\ PublishedOnce'
  BY <1>1 DEF LeasesAreKept, PublishedOnce
<1>6. PublishInv'
  BY <1>0, <1>1, <1>2, <1>3, <1>4, <1>5 DEF PublishInv
<1>7. ConsumerTypes' /\ ProjectionTypes'
  BY <1>0 DEF ConsumeInv, ConsumerTypes, ProjectionTypes
<1>8. BatchesAdvance'
  BY <1>0, <1>2 DEF ConsumeInv, BatchesAdvance, Events
<1>9. FreshIsNew'
  BY <1>0, FS_EmptySet DEF ConsumeInv, FreshIsNew
<1>10. AggregatesMatchInbox' /\ CursorsAreCounted'
  BY <1>0, AddedSame DEF ConsumeInv, AggregatesMatchInbox, CursorsAreCounted
<1>11. ConsumeInv'
  BY <1>0, <1>7, <1>8, <1>9, <1>10 DEF ConsumeInv
<1> QED
  BY <1>3, <1>6, <1>11, IInvPartsNext

\* Nothing happens.
LEMMA StutterKeeps ==
  ASSUME IInv, UNCHANGED vars
  PROVE  IInv'
<1> USE DEF vars
<1>1. PublishInv'
  BY IInvParts, PublishersKept DEF IInv, TypeOK, brokerVars
<1> QED
  BY <1>1, OutboxStepKeeps DEF outboxVars

\* Every step keeps the invariant.
LEMMA NextKeeps == IInv /\ [Next]_vars => IInv'
<1> SUFFICES ASSUME IInv, [Next]_vars PROVE IInv'
  OBVIOUS
<1>1. CASE UNCHANGED vars
  BY <1>1, StutterKeeps
<1>2. ASSUME NEW e \in Event, Post(e) \/ LeaseExpires(e) \/ SlowPass(e) PROVE IInv'
  BY <1>2, PostKeeps, ExpireKeeps
<1>3. ASSUME NEW p \in Publisher,
             PublisherStep(p) \/ HydrateFails(p) \/ PublishFails(p) \/ PassFails(p)
      PROVE  IInv'
  BY <1>3, ResetKeeps, ClaimKeeps, HydrateKeeps, PublishKeeps, CompleteKeeps, FailKeeps,
     PublishFailsKeeps DEF PublisherStep
<1>4. ASSUME NEW c \in Consumer,
             ConsumerStep(c) \/ ApplyFails(c) \/ AckLost(c) \/ ConsumerStops(c)
      PROVE  IInv'
  BY <1>4, FetchKeeps, InsertKeeps, ApplyKeeps, RefuseKeeps, AcknowledgeKeeps DEF ConsumerStep
<1>5. ASSUME NEW i \in DOMAIN stream, Redeliver(i) \/ SlowConsumer(i) PROVE IInv'
  BY <1>5, RedeliverKeeps
<1>6. CASE Restart
  BY <1>6, RestartKeeps
<1> QED
  BY <1>1, <1>2, <1>3, <1>4, <1>5, <1>6 DEF Next

\* The inductive invariant holds: publishers and consumers, however they
\* interleave, fail and restart.
THEOREM Inductive == Spec => []IInv
<1>1. Init => IInv
  BY InitIInv
<1>2. IInv /\ [Next]_vars => IInv'
  BY NextKeeps
<1> QED
  BY <1>1, <1>2, PTL DEF Spec

\* Every variable keeps its type.
THEOREM TypeCorrect == Spec => []TypeOK
<1>1. IInv => TypeOK
  BY DEF IInv
<1> QED
  BY <1>1, Inductive, PTL

\* No event falls between outbox, stream and projection.
THEOREM EventsAreKept == Spec => []NothingLost
<1>1. IInv => NothingLost
  BY DEF IInv
<1> QED
  BY <1>1, Inductive, PTL

\* While no deadline is missed and nothing fails, concurrent publishers
\* publish every event at most once.
THEOREM LeasesExclude == Spec => []PublishedOnce
<1>1. IInv => PublishedOnce
  BY DEF IInv
<1> QED
  BY <1>1, Inductive, PTL

\* At-least-once publication and delivery, exactly-once projection: every
\* aggregate row is the sum over the events in the inbox.
THEOREM ProjectedExactlyOnce == Spec => []AggregatesMatchInbox
<1>1. IInv => AggregatesMatchInbox
  BY DEF IInv
<1> QED
  BY <1>1, Inductive, PTL

\* The freshness cursor of a row names an event the row contains.
THEOREM CursorsAreHonest == Spec => []CursorsAreCounted
<1>1. IInv => CursorsAreCounted
  BY DEF IInv
<1> QED
  BY <1>1, Inductive, PTL

\* A step takes nothing back: a processed event stays processed, since only
\* leased events change status and a processed one has no lease; the inbox
\* only grows.
LEMMA NothingTakenBack ==
  ASSUME IInv, Next
  PROVE  /\ \A e \in Event : status[e] = "processed" => status'[e] = "processed"
         /\ inbox \subseteq inbox'
<1>0. OutboxTypes /\ LeasesAreOpen
  BY TypeParts DEF IInv
<1> USE DEF outboxVars, projection
<1>1. ASSUME NEW e \in Event, Post(e) \/ LeaseExpires(e) \/ SlowPass(e)
      PROVE  /\ \A d \in Event : status[d] = "processed" => status'[d] = "processed"
             /\ inbox' = inbox
  BY <1>0, <1>1 DEF OutboxTypes, Post, LeaseExpires, SlowPass
<1>2. ASSUME NEW p \in Publisher,
             PublisherStep(p) \/ HydrateFails(p) \/ PublishFails(p) \/ PassFails(p)
      PROVE  /\ \A d \in Event : status[d] = "processed" => status'[d] = "processed"
             /\ inbox' = inbox
  <2>1. CASE ResetExpired(p)
    BY <1>0, <2>1 DEF ResetExpired, LeasesAreOpen
  <2>2. CASE ClaimEvents(p)
    BY <1>0, <2>2 DEF ClaimEvents, Oldest, Pending
  <2>3. CASE CompleteClaim(p)
    <3>1. \A d \in Event : status[d] = "processed" => d \notin Leased(p)
      BY <1>0, StreamingAssumption DEF LeasesAreOpen, Leased
    <3> QED
      BY <2>3, <3>1 DEF CompleteClaim
  <2>4. CASE HydrateFails(p)
    BY <1>0, <2>4, StreamingAssumption DEF HydrateFails, LeasesAreOpen
  <2>5. CASE Hydrate(p) \/ Publish(p) \/ PublishFails(p) \/ PassFails(p)
    BY <2>5 DEF Hydrate, Publish, PublishFails, PassFails
  <2> QED
    BY <1>2, <2>1, <2>2, <2>3, <2>4, <2>5 DEF PublisherStep
<1>3. ASSUME NEW c \in Consumer,
             ConsumerStep(c) \/ ApplyFails(c) \/ AckLost(c) \/ ConsumerStops(c)
      PROVE  status' = status /\ inbox \subseteq inbox'
  BY <1>3 DEF ConsumerStep, Fetch, InsertInbox, Apply, ApplyOverflows, Acknowledge, Acknowledged,
              ApplyFails, AckLost, ConsumerStops, NakAll, ApplyCommits
<1>4. ASSUME NEW i \in DOMAIN stream, Redeliver(i) \/ SlowConsumer(i)
      PROVE  status' = status /\ inbox' = inbox
  BY <1>4 DEF Redeliver, SlowConsumer
<1>5. CASE Restart
  BY <1>5 DEF Restart
<1> QED
  BY <1>1, <1>2, <1>3, <1>4, <1>5 DEF Next

\* Processed is for good, and so is projected.
THEOREM NothingIsTakenBack == Spec => ProcessedForGood
<1>1. IInv /\ [Next]_vars =>
        [/\ \A e \in Event : status[e] = "processed" => status'[e] = "processed"
         /\ inbox \subseteq inbox']_vars
  BY NothingTakenBack
<1> QED
  BY <1>1, Inductive, PTL DEF Spec, ProcessedForGood
=============================================================================
