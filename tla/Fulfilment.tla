----------------------------- MODULE Fulfilment -----------------------------
(***************************************************************************)
(* The end of the saga: shipping-svc ships, its outbox delivers            *)
(* ShipmentShipped, and orders-svc applies it to the order.                *)
(*                                                                         *)
(* Shipping and Orders run as they are, each with its own failures.        *)
(* Between them stands the ledger that OutboxDispatch is shown to          *)
(* implement: a ShipmentShipped row is published late, repeatedly, on      *)
(* another service's subject, or never, as a claimed row may be left in    *)
(* nobody's hands.  The other shipment events have no consumer and are     *)
(* left out.                                                               *)
(***************************************************************************)
EXTENDS Shipping, FiniteSets, Functions

CONSTANTS
    MaxEvents,      \* bound: events of one type of one shipment
    MaxAttempts,    \* OUTBOX_MAX_ATTEMPTS
    LossyWire,      \* whether a publication may not reach orders-svc
    \* of Orders:
    Skus, Lines, OrderKeys, Txs, OrderRequests, OrderFailures, NoKey

ASSUME ShipmentIdsAssumption == ShipmentIds \subseteq Nat
ASSUME LimitAssumption == MaxAttempts \in Nat \ {0} /\ MaxEvents \in Nat
ASSUME FiniteAssumption == IsFiniteSet(ShipmentIds) /\ IsFiniteSet(Txs)

VARIABLES
    phase, tries, pubs,         \* of OutboxLedger, over the rows of Events
    status, orderKey, progress, usedKeys, orderEmitted, inbox, tx,
    orderRaced,                 \* of Orders
    stranded,   \* rows that are PROCESSING in nobody's hands
    missed      \* history: orders one of whose notices was lost on its way in

\* Mutant of Heard: the type check is dropped.
HeardAll == {"ShipmentShipped", "ShipmentCanceled"}

\* The shipment events orders-svc listens to.
Heard == {"ShipmentShipped"}

\* The n-th event of each of these types of each shipment.
Events == ShipmentIds \X Heard \X (1..MaxEvents)

\* The message orders-svc reads from the payload.
Messages == [type : {"ShipmentShipped"}, order : OrderIds, id : ShipmentIds]
Message(s) == [type |-> "ShipmentShipped", order |-> origin[s].order, id |-> s]

Ledger == INSTANCE OutboxLedger WITH Rows <- Events

Ord == INSTANCE Orders WITH
    Keys <- OrderKeys, Requests <- OrderRequests, Failures <- OrderFailures,
    Copies <- [m \in Messages |-> 0], emitted <- orderEmitted, raced <- orderRaced

orderVars  == <<status, orderKey, progress, usedKeys, orderEmitted, inbox, tx, orderRaced>>
ledgerVars == <<phase, tries, pubs>>
vars == <<shippingVars, ledgerVars, orderVars, stranded, missed>>

Init ==
    /\ ShippingInit
    /\ Ledger!Init
    /\ Ord!Init
    /\ stranded = {}
    /\ missed = {}

-----------------------------------------------------------------------------

\* A client ships an order whose id it has been given.
ClientKnows(q) == q.op = "create" => status[q.order] # "NONE"

Request(h, q) ==
    /\ ClientKnows(q)
    /\ Arrive(h, q)
    /\ UNCHANGED <<ledgerVars, orderVars, stranded, missed>>

\* addOutboxEvent: the transaction of shipping-svc that announces an event
\* orders-svc listens to records its row.
Record ==
    \/ /\ \A s \in ShipmentIds, e \in Heard : emitted'[s][e] = emitted[s][e]
       /\ UNCHANGED ledgerVars
    \/ \E s \in ShipmentIds, e \in Heard, n \in 1..MaxEvents :
         /\ emitted'[s][e] = emitted[s][e] + 1
         /\ emitted'[s][e] = n
         /\ Ledger!Record(<<s, e, n>>)

\* A step of a handler of shipping-svc.
ShippingStep(h) ==
    /\ Work(h) \/ Fail(h)
    /\ Record
    /\ UNCHANGED <<orderVars, stranded, missed>>

\* Redis or the process of shipping-svc fails.
ShippingFault ==
    /\ Crash \/ \E e \in cache : Expire(e)
    /\ UNCHANGED <<ledgerVars, orderVars, stranded, missed>>

\* The four outbox workers share the table: any of them claims the row.
Take(e) == Ledger!Take({e}) /\ UNCHANGED <<shippingVars, orderVars, stranded, missed>>

\* The worker that has e is running and published it as shipping-svc does.
Send(e) ==
    /\ e \notin stranded
    /\ Ledger!Send(e)
    /\ inbox' = [inbox EXCEPT ![Message(e[1])] = @ + 1]
    /\ UNCHANGED <<shippingVars, status, orderKey, progress, usedKeys, orderEmitted, tx,
                   orderRaced, stranded, missed>>

\* The worker of another service published it, on a subject of its own that
\* orders-svc does not take for a shipment's, or orders-svc was away and
\* core NATS kept nothing for it.
SendMissed(e) ==
    /\ LossyWire
    /\ e \notin stranded
    /\ Ledger!Send(e)
    /\ missed' = missed \cup {origin[e[1]].order}
    /\ UNCHANGED <<shippingVars, orderVars, stranded>>

Settle(e) ==
    /\ e \notin stranded
    /\ Ledger!Complete({e}) \/ Ledger!GiveBack(e)
    /\ UNCHANGED <<shippingVars, orderVars, stranded, missed>>

\* The worker dies after the claim's COMMIT, markFailed throws for this row
\* or an earlier one of the batch, or the dispatch hangs: the row stays
\* PROCESSING, and no claim selects it again.
Strand(e) ==
    /\ phase[e] = "held"
    /\ stranded' = stranded \cup {e}
    /\ UNCHANGED <<shippingVars, ledgerVars, orderVars, missed>>

OrdersStep(t) ==
    /\ Ord!Start(t) \/ Ord!Proceed(t)
    /\ UNCHANGED <<shippingVars, ledgerVars, stranded, missed>>

\* onShippingEvent swallows its errors, and nobody delivers again.
OrdersFail(t) ==
    /\ Ord!Fail(t)
    /\ missed' = IF tx[t].op = "shipped" THEN missed \cup {tx[t].order} ELSE missed
    /\ UNCHANGED <<shippingVars, ledgerVars, stranded>>

Next ==
    \/ \E h \in Handlers, q \in Requests : Request(h, q)
    \/ \E h \in Handlers : ShippingStep(h)
    \/ ShippingFault
    \/ \E e \in Events : Take(e) \/ Send(e) \/ SendMissed(e) \/ Settle(e) \/ Strand(e)
    \/ \E t \in Txs : OrdersStep(t) \/ OrdersFail(t)

\* Some worker keeps claiming; a row is settled by a worker that has it and
\* keeps running (nothing is assumed of a stranded one, for which none of
\* the three is enabled); transactions end, as failing is ending, and a
\* delivered message gets its handler, however many requests come between
\* (that these may take all of Txs is only a bound of the model, hence SF).
Fairness ==
    /\ \A e \in Events : WF_vars(Take(e)) /\ WF_vars(Send(e) \/ SendMissed(e) \/ Settle(e))
    /\ \A t \in Txs : WF_vars(Ord!Proceed(t) /\ OrdersStep(t))
    /\ \A m \in Messages : SF_vars(\E t \in Txs : Ord!ShippingRead(t, m) /\ OrdersStep(t))

Spec == Init /\ [][Next]_vars
FairSpec == Spec /\ Fairness

-----------------------------------------------------------------------------
(* Properties.                                                             *)

\* An order is SHIPPED only if one of its shipments was shipped: however the
\* event was repeated or delayed on its way, and whatever else happened to
\* the order or to the shipment meanwhile.
OrderShippedIsShipped ==
    \A o \in OrderIds : status[o] = "SHIPPED" =>
        \E s \in ShipmentIds :
            /\ origin[s] # NoRequest /\ origin[s].order = o
            /\ emitted[s]["ShipmentShipped"] > 0

\* How often the shipments of order o were announced as shipped.
ShippedEvents(o) ==
    SumFunction([s \in ShipmentIds |->
                   IF origin[s] # NoRequest /\ origin[s].order = o
                   THEN emitted[s]["ShipmentShipped"] ELSE 0])

\* onShippingEvent announces every delivery anew; what bounds the notices an
\* order gives is the outbox, MaxAttempts for each event of its shipments.
NoticesAreBounded ==
    \A o \in OrderIds :
        orderEmitted[o]["OrderShipmentShipped"] <= MaxAttempts * ShippedEvents(o)

\* A shipment that was shipped reaches its order, in any interleaving with
\* cancels, approves and repeated notices, unless each of its events died
\* or was stranded with its worker, orders-svc did not hear one of the
\* order's notices, or the handler of one failed.
ShipmentReachesOrder ==
    \A s \in ShipmentIds : \A o \in OrderIds :
        emitted[s]["ShipmentShipped"] > 0 /\ origin[s].order = o ~>
            \/ orderEmitted[o]["OrderShipmentShipped"] > 0
            \/ o \in missed
            \/ \A e \in Events : e[1] = s =>
                 phase[e] \in {"absent", "dead"} \/ e \in stranded
=============================================================================
