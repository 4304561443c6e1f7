------------------------------- MODULE Orders -------------------------------
(***************************************************************************)
(* orders-svc: create, approve and cancel (OrdersService) and the handlers *)
(* of the payment, shipping and inventory subjects                         *)
(* (OrdersMessageController).                                              *)
(*                                                                         *)
(* Each runs in a READ COMMITTED transaction that reads the order without  *)
(* locking it and writes later, and Nest does not await an event handler   *)
(* before it takes the next message; so a transaction is a read step and   *)
(* one or two later steps, and the steps of several interleave.  A write   *)
(* is absolute (TypeORM updates the columns that changed), so the status   *)
(* a commit leaves is the one its read step decided on.                    *)
(*                                                                         *)
(* The outbox is a count of each order's events and the set of idempotency *)
(* keys in use; the events go out through OutboxDispatch, and messages     *)
(* come in with its guarantees: late, repeatedly, or never.                *)
(***************************************************************************)
EXTENDS Integers, Sequences, FiniteSets, Functions

CONSTANTS
    OrderIds,   \* ids the database may give to new orders
    Skus,
    Lines,      \* [OrderIds -> Seq([sku : Skus, qty : Nat])], the order's items
    Keys,       \* Idempotency-Key values of clients
    Txs,        \* bound: transactions open at a time
    Requests,   \* the client requests made: <<create, approve or cancel, key>>
    Messages,   \* the events other services publish about these orders
    Copies,     \* [Messages -> Nat], bound: deliveries of one event
    Failures,   \* whether a statement or the process may fail at any point
    NoKey

ASSUME LinesAssumption ==
    Lines \in [OrderIds -> Seq([sku : Skus, qty : Nat \ {0}])]
ASSUME MessagesAssumption ==
    Messages \subseteq
        [type : {"PaymentCaptured", "ShipmentShipped"}, order : OrderIds, id : Nat]
        \cup [type : {"InventoryCommitted"}, order : OrderIds, id : Nat,
              sku : Skus, qty : Nat \ {0}]
ASSUME FiniteAssumption == IsFiniteSet(OrderIds) /\ IsFiniteSet(Messages)
ASSUME BoundsAssumption ==
    Copies \in [Messages -> Nat] /\ Failures \in BOOLEAN /\ NoKey \notin Keys

VARIABLES
    status,     \* [OrderIds -> Statuses], "NONE" before the order exists
    orderKey,   \* [OrderIds -> Keys], orders.idempotency_key
    progress,   \* [OrderIds -> [Skus -> Nat]], committedQty; 0 means no row
    usedKeys,   \* unique outbox keys taken: <<base key, request>>
    emitted,    \* [OrderIds -> [EventTypes -> Nat]], outbox rows inserted
    inbox,      \* [Messages -> Nat], deliveries still to come
    tx,         \* [Txs -> the open transaction]
    raced       \* history: orders a transaction committed on although what it
                \* had read of them had changed; no guard reads it

database == <<status, orderKey, progress, usedKeys, emitted, raced>>
vars == <<status, orderKey, progress, usedKeys, emitted, inbox, tx, raced>>

OrderStatusEnum == {"PENDING", "RESERVED", "PAID", "SHIPPED", "CANCELED"}
Statuses == OrderStatusEnum \cup {"NONE"}

EventTypes ==
    { "OrderCreated", "InventoryReserveRequested", "PaymentChargeRequested",
      "InventoryReleaseRequested", "PaymentRefundRequested", "OrderCanceled",
      "OrderPaid", "OrderShipmentShipped", "OrderReadyToShip" }

RequestTypes == {"create", "approve", "cancel"}

Idle == [op |-> "idle"]

\* What an open transaction remembers of its read step.
OpenTx ==
    [op : {"create"}, order : OrderIds, key : Keys]
    \cup [op : {"approve", "cancel"}, order : OrderIds, key : Keys, seen : OrderStatusEnum]
    \cup [op : {"paid", "shipped"}, order : OrderIds, seen : OrderStatusEnum]
    \cup [op : {"commit"}, order : OrderIds, sku : Skus, seen : Nat, next : Nat]
    \cup [op : {"saved"}, order : OrderIds, sku : Skus, next : Nat, read : [Skus -> Nat]]

TypeOK ==
    /\ status \in [OrderIds -> Statuses]
    /\ orderKey \in [OrderIds -> Keys \cup {NoKey}]
    /\ progress \in [OrderIds -> [Skus -> Nat]]
    /\ usedKeys \subseteq Keys \X RequestTypes
    /\ emitted \in [OrderIds -> [EventTypes -> Nat]]
    /\ inbox \in [Messages -> Nat]
    /\ tx \in [Txs -> OpenTx \cup {Idle}]
    /\ raced \subseteq OrderIds

Init ==
    /\ status = [o \in OrderIds |-> "NONE"]
    /\ orderKey = [o \in OrderIds |-> NoKey]
    /\ progress = [o \in OrderIds |-> [s \in Skus |-> 0]]
    /\ usedKeys = {}
    /\ emitted = [o \in OrderIds |-> [e \in EventTypes |-> 0]]
    /\ inbox = Copies
    /\ tx = [t \in Txs |-> Idle]
    /\ raced = {}

-----------------------------------------------------------------------------
(* Transactions and the outbox.                                            *)

Begin(t, record) ==
    /\ tx[t] = Idle
    /\ tx' = [tx EXCEPT ![t] = record]

End(t) == tx' = [tx EXCEPT ![t] = Idle]

\* outbox.enqueue of one event of each type in E (one per line of the order
\* for the two inventory requests) in the transaction.
Enqueue(o, E) ==
    emitted' = [emitted EXCEPT ![o] =
                  [e \in EventTypes |-> @[e] + IF e \in E THEN 1 ELSE 0]]

\* The unique index on outbox.idempotency_key accepts the rows of request
\* `req` under base key k.  The derived keys (k:pay, k:inv:sku, ...) are
\* distinct per request, so one entry stands for them.

\* Mutant of KeyIsFree: rows without an idempotency key.
KeyAlwaysFree(k, req) == TRUE

KeyIsFree(k, req) == <<k, req>> \notin usedKeys

TakeKey(k, req) == usedKeys' = usedKeys \cup {<<k, req>>}

\* A commit on o; "stale" says that what was read of o no longer holds.
Remember(o, stale) == raced' = IF stale THEN raced \cup {o} ELSE raced

\* A statement of t fails: rollback and InternalServerError, or the event
\* handler's catch, which swallows it.
Rollback(t) == End(t) /\ UNCHANGED database

\* Two lines of one SKU derive the same outbox key twice.
HasRepeatedSku(o) ==
    \E i, j \in DOMAIN Lines[o] : i # j /\ Lines[o][i].sku = Lines[o][j].sku

-----------------------------------------------------------------------------
(* create                                                                  *)

\* A fresh id; OrderIds bounds the creates that are open or done.
IsFresh(o) ==
    /\ status[o] = "NONE"
    /\ \A u \in Txs : ~(tx[u].op = "create" /\ tx[u].order = o)

\* An order with the key is returned as it is; otherwise a transaction opens.
CreateRead(t, o, k) ==
    /\ <<"create", k>> \in Requests
    /\ \A p \in OrderIds : orderKey[p] # k
    /\ IsFresh(o)
    /\ Begin(t, [op |-> "create", order |-> o, key |-> k])
    /\ UNCHANGED <<database, inbox>>

\* Mutants of CreateCommit: no unique index, and an unknown status.
CreateCommitUnchecked(t) ==
    /\ tx[t].op = "create"
    /\ status' = [status EXCEPT ![tx[t].order] = "PENDING"]
    /\ orderKey' = [orderKey EXCEPT ![tx[t].order] = tx[t].key]
    /\ TakeKey(tx[t].key, "create")
    /\ Enqueue(tx[t].order, {"OrderCreated"})
    /\ End(t)
    /\ UNCHANGED <<progress, inbox, raced>>

CreateCommitUnknownStatus(t) ==
    /\ tx[t].op = "create"
    /\ status' = [status EXCEPT ![tx[t].order] = "NEW"]
    /\ orderKey' = [orderKey EXCEPT ![tx[t].order] = tx[t].key]
    /\ TakeKey(tx[t].key, "create")
    /\ Enqueue(tx[t].order, {"OrderCreated"})
    /\ End(t)
    /\ UNCHANGED <<progress, inbox, raced>>

\* uq_orders_idempotency_key and the outbox key reject a second order.
CreateCommit(t) ==
    /\ tx[t].op = "create"
    /\ UNCHANGED inbox
    /\ LET o == tx[t].order
           k == tx[t].key
       IN  IF KeyIsFree(k, "create") /\ \A p \in OrderIds : orderKey[p] # k
           THEN /\ status' = [status EXCEPT ![o] = "PENDING"]
                /\ orderKey' = [orderKey EXCEPT ![o] = k]
                /\ TakeKey(k, "create")
                /\ Enqueue(o, {"OrderCreated"})
                /\ End(t)
                /\ UNCHANGED <<progress, raced>>
           ELSE Rollback(t)

-----------------------------------------------------------------------------
(* approve                                                                 *)

Approvable == {"PENDING", "RESERVED"}

ApproveRead(t, o, k) ==
    /\ <<"approve", k>> \in Requests
    /\ status[o] \in Approvable
    /\ Begin(t, [op |-> "approve", order |-> o, key |-> k, seen |-> status[o]])
    /\ UNCHANGED <<database, inbox>>

\* Mutant of ApproveCommit: the status is saved outside the transaction.
ApproveCommitUntransacted(t) ==
    LET o == tx[t].order
        k == tx[t].key
        accepted == KeyIsFree(k, "approve") /\ ~HasRepeatedSku(o)
    IN  /\ tx[t].op = "approve"
        /\ status' = IF tx[t].seen = "PENDING"
                     THEN [status EXCEPT ![o] = "RESERVED"] ELSE status
        /\ TakeKey(k, "approve")
        /\ Enqueue(o, IF accepted THEN {"InventoryReserveRequested", "PaymentChargeRequested"}
                      ELSE {})
        /\ Remember(o, tx[t].seen # status[o])
        /\ End(t)
        /\ UNCHANGED <<orderKey, progress, inbox>>

\* Only an order read as PENDING is saved (as RESERVED).
ApproveCommit(t) ==
    /\ tx[t].op = "approve"
    /\ UNCHANGED inbox
    /\ LET o == tx[t].order
           k == tx[t].key
       IN  IF KeyIsFree(k, "approve") /\ ~HasRepeatedSku(o)
           THEN /\ status' = IF tx[t].seen = "PENDING"
                             THEN [status EXCEPT ![o] = "RESERVED"] ELSE status
                /\ TakeKey(k, "approve")
                /\ Enqueue(o, {"InventoryReserveRequested", "PaymentChargeRequested"})
                /\ Remember(o, tx[t].seen # status[o])
                /\ End(t)
                /\ UNCHANGED <<orderKey, progress>>
           ELSE Rollback(t)

-----------------------------------------------------------------------------
(* cancel                                                                  *)

\* Mutant of Cancelable: the check for SHIPPED is dropped.
CancelableShipped == {"PENDING", "RESERVED", "PAID", "SHIPPED"}

\* CANCELED returns the order as it is, SHIPPED is refused.
Cancelable == {"PENDING", "RESERVED", "PAID"}

CancelRead(t, o, k) ==
    /\ <<"cancel", k>> \in Requests
    /\ status[o] \in Cancelable
    /\ Begin(t, [op |-> "cancel", order |-> o, key |-> k, seen |-> status[o]])
    /\ UNCHANGED <<database, inbox>>

\* Mutant of Compensation: the branches swapped.
CompensationSwapped(seen) ==
    IF seen = "PAID" THEN {"InventoryReleaseRequested"} ELSE {"PaymentRefundRequested"}

\* The compensation a cancel asks for, from the status it read.
Compensation(seen) ==
    IF seen = "PAID" THEN {"PaymentRefundRequested"} ELSE {"InventoryReleaseRequested"}

CancelCommit(t) ==
    /\ tx[t].op = "cancel"
    /\ UNCHANGED inbox
    /\ LET o == tx[t].order
           k == tx[t].key
           releases == tx[t].seen # "PAID"
       IN  IF KeyIsFree(k, "cancel") /\ ~(releases /\ HasRepeatedSku(o))
           THEN /\ status' = [status EXCEPT ![o] = "CANCELED"]
                /\ TakeKey(k, "cancel")
                /\ Enqueue(o, Compensation(tx[t].seen) \cup {"OrderCanceled"})
                /\ Remember(o, tx[t].seen # status[o])
                /\ End(t)
                /\ UNCHANGED <<orderKey, progress>>
           ELSE Rollback(t)

-----------------------------------------------------------------------------
(* Event handlers.  A message is about an existing order, and is gone once *)
(* its handler has started: core NATS redelivers nothing.                  *)

\* Mutant of Receive: the broker keeps the message and delivers it again.
ReceiveKept(m, type) ==
    /\ m.type = type
    /\ inbox[m] > 0
    /\ status[m.order] # "NONE"
    /\ UNCHANGED inbox

Receive(m, type) ==
    /\ m.type = type
    /\ inbox[m] > 0
    /\ status[m.order] # "NONE"
    /\ inbox' = [inbox EXCEPT ![m] = @ - 1]

\* Mutant of PaymentRead: the order's status is not looked at.
PaymentReadAlways(t, m) ==
    /\ Receive(m, "PaymentCaptured")
    /\ Begin(t, [op |-> "paid", order |-> m.order, seen |-> status[m.order]])
    /\ UNCHANGED database

\* onPaymentEvent
PaymentRead(t, m) ==
    /\ Receive(m, "PaymentCaptured")
    /\ tx[t] = Idle
    /\ tx' = IF status[m.order] \in {"PENDING", "RESERVED"}
             THEN [tx EXCEPT ![t] = [op |-> "paid", order |-> m.order,
                                     seen |-> status[m.order]]]
             ELSE tx
    /\ UNCHANGED database

PaymentCommit(t) ==
    /\ tx[t].op = "paid"
    /\ status' = [status EXCEPT ![tx[t].order] = "PAID"]
    /\ Enqueue(tx[t].order, {"OrderPaid"})
    /\ Remember(tx[t].order, tx[t].seen # status[tx[t].order])
    /\ End(t)
    /\ UNCHANGED <<orderKey, progress, usedKeys, inbox>>

\* Mutant of ShippingRead: only an order that can be shipped is.
ShippingReadPaid(t, m) ==
    /\ Receive(m, "ShipmentShipped")
    /\ tx[t] = Idle
    /\ tx' = IF status[m.order] = "PAID"
             THEN [tx EXCEPT ![t] = [op |-> "shipped", order |-> m.order, seen |-> "PAID"]]
             ELSE tx
    /\ UNCHANGED database

\* onShippingEvent
ShippingRead(t, m) ==
    /\ Receive(m, "ShipmentShipped")
    /\ Begin(t, [op |-> "shipped", order |-> m.order, seen |-> status[m.order]])
    /\ UNCHANGED database

\* Every delivery is announced, the first and the repeated ones.
ShippingCommit(t) ==
    /\ tx[t].op = "shipped"
    /\ status' = IF tx[t].seen # "SHIPPED"
                 THEN [status EXCEPT ![tx[t].order] = "SHIPPED"] ELSE status
    /\ Enqueue(tx[t].order, {"OrderShipmentShipped"})
    /\ Remember(tx[t].order, tx[t].seen # status[tx[t].order])
    /\ End(t)
    /\ UNCHANGED <<orderKey, progress, usedKeys, inbox>>

Required(o, s) ==
    SumFunction([i \in DOMAIN Lines[o] |->
                   IF Lines[o][i].sku = s THEN Lines[o][i].qty ELSE 0])

AtMost(n, limit) == IF n < limit THEN n ELSE limit

\* onInventoryEvent: the read of the order and of the progress row.
CommitRead(t, m) ==
    /\ Receive(m, "InventoryCommitted")
    /\ tx[t] = Idle
    /\ LET seen == progress[m.order][m.sku]
           next == AtMost(seen + m.qty, Required(m.order, m.sku))
       IN  tx' = IF next # seen
                 THEN [tx EXCEPT ![t] = [op |-> "commit", order |-> m.order,
                                         sku |-> m.sku, seen |-> seen, next |-> next]]
                 ELSE tx
    /\ UNCHANGED database

\* A transaction that wrote the progress row and has not committed.
HoldsRow(u, o, s) == tx[u].op = "saved" /\ tx[u].order = o /\ tx[u].sku = s

\* Mutant of AllCommitted: only the SKUs that have a row are looked at.
AllCommittedWithRow(o, rows) == \A z \in Skus : rows[z] > 0 => rows[z] >= Required(o, z)

\* All lines committed, by the progress rows a transaction has read.
AllCommitted(o, rows) ==
    \A z \in {Lines[o][i].sku : i \in DOMAIN Lines[o]} : rows[z] >= Required(o, z)

\* save(progress), then the read of all progress rows: its own and what the
\* others have committed.  An INSERT waits for a concurrent INSERT of the
\* row and then violates (orderId, sku); an UPDATE waits for the row lock
\* and then overwrites.
CommitSave(t) ==
    /\ tx[t].op = "commit"
    /\ UNCHANGED inbox
    /\ LET o == tx[t].order
           s == tx[t].sku
       IN  /\ \A u \in Txs : ~HoldsRow(u, o, s)
           /\ IF tx[t].seen = 0 /\ progress[o][s] > 0
              THEN Rollback(t)
              ELSE /\ tx' = [tx EXCEPT ![t] =
                        [op |-> "saved", order |-> o, sku |-> s, next |-> tx[t].next,
                         read |-> [progress[o] EXCEPT ![s] = tx[t].seen]]]
                   /\ UNCHANGED database

\* Mutant of CommitCommit: the rows are judged without the one just saved.
CommitCommitBlind(t) ==
    LET o == tx[t].order
        ready == AllCommitted(o, tx[t].read)
    IN  /\ tx[t].op = "saved"
        /\ progress' = [progress EXCEPT ![o][tx[t].sku] = tx[t].next]
        /\ Enqueue(o, IF ready THEN {"OrderReadyToShip"} ELSE {})
        /\ Remember(o, tx[t].read # progress[o])
        /\ End(t)
        /\ UNCHANGED <<status, orderKey, usedKeys, inbox>>

CommitCommit(t) ==
    LET o == tx[t].order
        ready == AllCommitted(o, [tx[t].read EXCEPT ![tx[t].sku] = tx[t].next])
    IN  /\ tx[t].op = "saved"
        /\ progress' = [progress EXCEPT ![o][tx[t].sku] = tx[t].next]
        /\ Enqueue(o, IF ready THEN {"OrderReadyToShip"} ELSE {})
        /\ Remember(o, tx[t].read # progress[o])
        /\ End(t)
        /\ UNCHANGED <<status, orderKey, usedKeys, inbox>>

-----------------------------------------------------------------------------

\* A request or a message arrives and its transaction reads.
Start(t) ==
    \/ \E o \in OrderIds, k \in Keys :
         CreateRead(t, o, k) \/ ApproveRead(t, o, k) \/ CancelRead(t, o, k)
    \/ \E m \in Messages : PaymentRead(t, m) \/ ShippingRead(t, m) \/ CommitRead(t, m)

\* An open transaction goes on.
Proceed(t) ==
    \/ CreateCommit(t) \/ ApproveCommit(t) \/ CancelCommit(t)
    \/ PaymentCommit(t) \/ ShippingCommit(t)
    \/ CommitSave(t) \/ CommitCommit(t)

\* The database or the process fails under an open transaction.
Fail(t) ==
    /\ Failures
    /\ tx[t] # Idle
    /\ Rollback(t)
    /\ UNCHANGED inbox

Next == \E t \in Txs : Start(t) \/ Proceed(t) \/ Fail(t)

Spec == Init /\ [][Next]_vars

-----------------------------------------------------------------------------
(* Properties.                                                             *)

\* A retried or concurrently repeated create never makes a second order for
\* its key: the check before the transaction, uq_orders_idempotency_key.
OneOrderPerKey ==
    \A o, p \in OrderIds : o # p /\ orderKey[o] = orderKey[p] => orderKey[o] = NoKey

\* Events of type e over all orders.
Total(e) == SumFunction([o \in OrderIds |-> emitted[o][e]])

\* A retry never charges twice: the charge requests recorded are exactly the
\* approve keys that went through, whatever failed or was repeated.
ChargedOncePerKey ==
    Total("PaymentChargeRequested") = Cardinality({k \in Keys : <<k, "approve">> \in usedKeys})

\* The event that announces a status.
Announcement == [RESERVED |-> "PaymentChargeRequested", PAID |-> "OrderPaid",
                 SHIPPED |-> "OrderShipmentShipped", CANCELED |-> "OrderCanceled",
                 PENDING |-> "OrderCreated"]

\* No status is ever visible without its event in the outbox: the status and
\* the event are written in one transaction, on every path and interleaving.
StatusIsAnnounced ==
    \A o \in OrderIds : status[o] # "NONE" => emitted[o][Announcement[status[o]]] > 0

\* m reports that inventory was committed for the lines of o with SKU s.
ReportsCommit(m, o, s) == m.type = "InventoryCommitted" /\ m.order = o /\ m.sku = s

\* The quantity of s reported for o so far: by every delivery, and by every
\* event however often it was delivered.
Delivered(o, s) ==
    SumFunction([m \in Messages |->
                   IF ReportsCommit(m, o, s) THEN m.qty * (Copies[m] - inbox[m]) ELSE 0])

Reported(o, s) ==
    SumFunction([m \in Messages |->
                   IF ReportsCommit(m, o, s) /\ inbox[m] < Copies[m] THEN m.qty ELSE 0])

\* The commit accumulator never runs ahead of its messages: however handlers
\* overlap and fail, each delivery counts at most once, the progress stays
\* within the order, and an order is called ready only when the deliveries
\* cover every line.  That a repeated delivery counts again is the code's.
ReadyIsJustified ==
    \A o \in OrderIds :
        /\ \A s \in Skus : progress[o][s] <= AtMost(Delivered(o, s), Required(o, s))
        /\ emitted[o]["OrderReadyToShip"] > 0 =>
             \A s \in Skus : Delivered(o, s) >= Required(o, s)

\* What "at-least-once + idempotent accumulator" promises: an order is ready
\* only when distinct commits cover its lines.  The code does not keep it.
RedeliveryIsAbsorbed ==
    \A o \in OrderIds : emitted[o]["OrderReadyToShip"] > 0 =>
        \A s \in Skus : Reported(o, s) >= Required(o, s)

-----------------------------------------------------------------------------
(* Properties of an order as long as no transaction has committed on a     *)
(* read of it that had been overwritten.  They hold under overlap,         *)
(* redelivery and failures, and lose nothing but those orders.             *)

\* A paid order that is canceled has a refund requested.
Compensated(o) ==
    status[o] = "CANCELED" /\ emitted[o]["OrderPaid"] > 0
        => emitted[o]["PaymentRefundRequested"] > 0

CancelCompensates == \A o \in OrderIds \ raced : Compensated(o)

\* "Mark canceled and request compensation" for every order.  The code does
\* not keep it: a capture may commit between the read and the cancel.
EveryCancelCompensates == \A o \in OrderIds : Compensated(o)

\* Redelivered events and repeated requests are absorbed: an order is paid,
\* ready and canceled at most once.
AnnouncedOnce ==
    \A o \in OrderIds \ raced :
        \A e \in {"OrderPaid", "OrderReadyToShip", "OrderCanceled"} : emitted[o][e] <= 1

\* A shipped order stays shipped.
ShippedIsFinal ==
    [][\A o \in OrderIds \ raced' : status[o] = "SHIPPED" => status'[o] = "SHIPPED"]_vars

\* An order whose lines are all recorded as committed has been called ready:
\* only a handler that missed another's row can leave it waiting.
ReadyIsAnnounced ==
    \A o \in OrderIds \ raced :
        Lines[o] # << >> /\ (\A s \in Skus : progress[o][s] >= Required(o, s))
            => emitted[o]["OrderReadyToShip"] > 0
=============================================================================
