------------------------------ MODULE Shipping ------------------------------
(***************************************************************************)
(* shipping-svc: the Redis idempotency middleware, the controllers and     *)
(* create, cancel and markShipped of shipping.service.js.                  *)
(*                                                                         *)
(* A transaction reads the shipment without locking it, decides, and sets  *)
(* the status it decided on; so it overwrites what another committed in    *)
(* between.  A failed request is answered through res.json like a          *)
(* successful one, and the middleware stores both answers.                 *)
(***************************************************************************)
EXTENDS Naturals

CONSTANTS
    ShipmentIds,    \* ids uuid() may give to new shipments
    OrderIds,       \* order_id values, which the service does not check
    Requests,       \* the write requests clients make
    Copies,         \* [Requests -> Nat], bound: arrivals of a request (retries)
    Handlers,       \* bound: requests handled at a time
    SharedKeys,     \* keys that other services' events may take in the outbox
    IndexIsPartial, \* uq_outbox_idem has a WHERE clause, as the DDL of db.js has
    Faults,         \* what may go wrong, of {"crash", "expire", "db"}
    NoRequest

CreateRequests == [op : {"create"}, order : OrderIds, key : STRING]
UpdateRequests == [op : {"cancel", "ship"}, shipment : ShipmentIds, key : STRING]

ASSUME RequestsAssumption == Requests \subseteq CreateRequests \cup UpdateRequests
ASSUME NoRequestAssumption == NoRequest \notin Requests
ASSUME BoundsAssumption ==
    Copies \in [Requests -> Nat] /\ IndexIsPartial \in BOOLEAN /\ Faults \subseteq {"crash", "expire", "db"}

VARIABLES
    shipment,   \* [ShipmentIds -> Statuses], shipments.status, "NONE" without a row
    origin,     \* [ShipmentIds -> Requests], the create that gave order_id and key
    emitted,    \* [ShipmentIds -> [EventTypes -> Nat]], outbox rows inserted
    cache,      \* Redis: set of [req, answer], stored responses
    arrivals,   \* [Requests -> Nat], arrivals still to come
    handler,    \* [Handlers -> the request being served]
    told,       \* history: set of [req, answer], the answers that went out
    raced       \* history: shipments updated after they changed since the read

rows == <<shipment, origin, emitted, raced>>
shippingVars == <<shipment, origin, emitted, cache, arrivals, handler, told, raced>>

Statuses   == {"NONE", "CREATED", "CANCELED", "SHIPPED"}
EventTypes == {"ShipmentCreated", "ShipmentCanceled", "ShipmentShipped"}
Answers    == {"ok", "error"}   \* 200 or 201 with the shipment; 404 or 500

Idle == [pc |-> "idle"]
HandlerStates ==
    {Idle} \cup [pc : {"begun", "inserting"}, req : Requests]
           \cup [pc : {"updating"}, req : Requests, seen : Statuses]
           \cup [pc : {"responding"}, req : Requests, answer : Answers]

ShippingTypeOK ==
    /\ shipment \in [ShipmentIds -> Statuses]
    /\ origin \in [ShipmentIds -> Requests \cup {NoRequest}]
    /\ emitted \in [ShipmentIds -> [EventTypes -> Nat]]
    /\ cache \subseteq [req : Requests, answer : Answers]
    /\ arrivals \in [Requests -> Nat]
    /\ handler \in [Handlers -> HandlerStates]
    /\ told \subseteq [req : Requests, answer : Answers]
    /\ raced \subseteq ShipmentIds

ShippingInit ==
    /\ shipment = [s \in ShipmentIds |-> "NONE"]
    /\ origin = [s \in ShipmentIds |-> NoRequest]
    /\ emitted = [s \in ShipmentIds |-> [e \in EventTypes |-> 0]]
    /\ cache = {}
    /\ arrivals = Copies
    /\ handler = [h \in Handlers |-> Idle]
    /\ told = {}
    /\ raced = {}

-----------------------------------------------------------------------------
(* The middleware.                                                         *)

Goto(h, state) == handler' = [handler EXCEPT ![h] = state]

Reply(h, a) == Goto(h, [pc |-> "responding", req |-> handler[h].req, answer |-> a])

\* The Redis key, idem:<route>:<key>.
SameSlot(q, r) == q.op = r.op /\ q.key = r.key

\* redis.get: a stored response is replayed, or refused (409) if it is for
\* another body.
Arrive(h, q) ==
    /\ handler[h] = Idle
    /\ arrivals[q] > 0
    /\ arrivals' = [arrivals EXCEPT ![q] = @ - 1]
    /\ \/ /\ \A e \in cache : ~SameSlot(e.req, q)
          /\ Goto(h, [pc |-> "begun", req |-> q])
          /\ UNCHANGED told
       \/ /\ \E e \in cache : e.req = q /\ told' = told \cup {e}
          /\ UNCHANGED handler
       \/ /\ \E e \in cache : SameSlot(e.req, q) /\ e.req # q
          /\ UNCHANGED <<handler, told>>
    /\ UNCHANGED <<rows, cache>>

\* res.json, wrapped by the middleware: setex, then the response.
Respond(h) ==
    LET entry == [req |-> handler[h].req, answer |-> handler[h].answer]
    IN  /\ handler[h].pc = "responding"
        /\ cache' = {e \in cache : ~SameSlot(e.req, entry.req)} \cup {entry}
        /\ told' = told \cup {entry}
        /\ Goto(h, Idle)
        /\ UNCHANGED <<rows, arrivals>>

\* The entry's TTL_SECONDS run out.
Expire(e) ==
    /\ "expire" \in Faults
    /\ e \in cache
    /\ cache' = cache \ {e}
    /\ UNCHANGED <<rows, arrivals, handler, told>>

-----------------------------------------------------------------------------
(* create                                                                  *)

HasKey(s, k) == origin[s] # NoRequest /\ origin[s].key = k

\* uuid() gives an id that no row has and no client has named.
IsFresh(s) ==
    /\ shipment[s] = "NONE"
    /\ \A r \in Requests : r.op # "create" /\ r.shipment = s => arrivals[r] = Copies[r]

Emit(s, e) == emitted' = [emitted EXCEPT ![s][e] = @ + 1]

\* getByIdempotencyKey: the shipment of the key is returned as it is.
CreateRead(h) ==
    LET q == handler[h].req
    IN  /\ handler[h].pc = "begun" /\ q.op = "create"
        /\ IF \E s \in ShipmentIds : HasKey(s, q.key)
           THEN Reply(h, "ok")
           ELSE Goto(h, [pc |-> "inserting", req |-> q])
        /\ UNCHANGED <<rows, cache, arrivals, told>>

\* Mutants of CreateCommit: no unique index, and an unknown status.
CreateCommitUnchecked(h, s) ==
    LET q == handler[h].req
    IN  /\ handler[h].pc = "inserting"
        /\ IsFresh(s)
        /\ shipment' = [shipment EXCEPT ![s] = "CREATED"]
        /\ origin' = [origin EXCEPT ![s] = q]
        /\ Emit(s, "ShipmentCreated")
        /\ Reply(h, "ok")
        /\ UNCHANGED <<cache, arrivals, told, raced>>

CreateCommitUnknownStatus(h, s) ==
    LET q == handler[h].req
    IN  /\ handler[h].pc = "inserting"
        /\ IsFresh(s)
        /\ \A p \in ShipmentIds : ~HasKey(p, q.key)
        /\ shipment' = [shipment EXCEPT ![s] = "NEW"]
        /\ origin' = [origin EXCEPT ![s] = q]
        /\ Emit(s, "ShipmentCreated")
        /\ Reply(h, "ok")
        /\ UNCHANGED <<cache, arrivals, told, raced>>

\* uq_shipments_idem admits the row, ON CONFLICT finds an index for the
\* event, which has the same key, and COMMIT.  All services share the outbox:
\* if another one has used the key, the event is silently dropped.
CreateCommit(h, s) ==
    LET q == handler[h].req
    IN  /\ handler[h].pc = "inserting"
        /\ IsFresh(s)
        /\ \A p \in ShipmentIds : ~HasKey(p, q.key)
        /\ ~IndexIsPartial
        /\ shipment' = [shipment EXCEPT ![s] = "CREATED"]
        /\ origin' = [origin EXCEPT ![s] = q]
        /\ \/ Emit(s, "ShipmentCreated")
           \/ q.key \in SharedKeys /\ UNCHANGED emitted
        /\ Reply(h, "ok")
        /\ UNCHANGED <<cache, arrivals, told, raced>>

-----------------------------------------------------------------------------
(* cancel and markShipped                                                  *)

\* Mutants of Settled: a shipped shipment is shipped again, and a canceled
\* one is returned to a client that ships it.
SettledNever  == [cancel |-> {"CANCELED", "SHIPPED"}, ship |-> {}]
SettledEither == [cancel |-> {"CANCELED", "SHIPPED"}, ship |-> {"CANCELED", "SHIPPED"}]

\* The statuses each returns as they are.
Settled == [cancel |-> {"CANCELED", "SHIPPED"}, ship |-> {"SHIPPED"}]

Target == [cancel |-> "CANCELED", ship |-> "SHIPPED"]

\* The event that announces a status.
Announcement ==
    [CREATED |-> "ShipmentCreated", CANCELED |-> "ShipmentCanceled",
     SHIPPED |-> "ShipmentShipped"]

\* getById, without a lock; an unknown id is a 404, which goes through
\* res.json and is stored like every answer.
UpdateRead(h) ==
    LET q    == handler[h].req
        seen == shipment[q.shipment]
    IN  /\ handler[h].pc = "begun" /\ q.op \in {"cancel", "ship"}
        /\ \/ seen = "NONE" /\ Reply(h, "error")
           \/ seen \in Settled[q.op] /\ Reply(h, "ok")
           \/ /\ seen \notin Settled[q.op] \cup {"NONE"}
              /\ Goto(h, [pc |-> "updating", req |-> q, seen |-> seen])
        /\ UNCHANGED <<rows, cache, arrivals, told>>

\* updateStatus, addEvent, addOutboxEvent and COMMIT.
UpdateCommit(h) ==
    LET q == handler[h].req
        s == q.shipment
    IN  /\ handler[h].pc = "updating"
        /\ ~IndexIsPartial
        /\ shipment' = [shipment EXCEPT ![s] = Target[q.op]]
        /\ Emit(s, Announcement[Target[q.op]])
        /\ raced' = IF shipment[s] # handler[h].seen THEN raced \cup {s} ELSE raced
        /\ Reply(h, "ok")
        /\ UNCHANGED <<origin, cache, arrivals, told>>

-----------------------------------------------------------------------------
(* Failures.                                                               *)

\* A statement that cannot succeed: the unique index has the key by now, or
\* no index matches ON CONFLICT (idempotency_key).
Refused(h) ==
    \/ /\ handler[h].pc = "inserting"
       /\ \E p \in ShipmentIds : HasKey(p, handler[h].req.key)
    \/ handler[h].pc \in {"inserting", "updating"} /\ IndexIsPartial

\* tx rolls back, and errorHandler answers through res.json.
Fail(h) ==
    /\ handler[h].pc \in {"begun", "inserting", "updating"}
    /\ "db" \in Faults \/ Refused(h)
    /\ Reply(h, "error")
    /\ UNCHANGED <<rows, cache, arrivals, told>>

\* The process dies: open transactions roll back, responses are lost, and
\* Redis and Postgres keep what they have.
Crash ==
    /\ "crash" \in Faults
    /\ handler' = [h \in Handlers |-> Idle]
    /\ UNCHANGED <<rows, cache, arrivals, told>>

-----------------------------------------------------------------------------

\* What a handler does when no statement fails that could succeed.
Work(h) ==
    \/ CreateRead(h)
    \/ \E s \in ShipmentIds : CreateCommit(h, s)
    \/ UpdateRead(h)
    \/ UpdateCommit(h)
    \/ Respond(h)

ShippingNext ==
    \/ \E h \in Handlers, q \in Requests : Arrive(h, q)
    \/ \E h \in Handlers : Work(h) \/ Fail(h)
    \/ \E e \in cache : Expire(e)
    \/ Crash

ShippingSpec == ShippingInit /\ [][ShippingNext]_shippingVars

-----------------------------------------------------------------------------
(* Properties that hold for every interleaving.                            *)

\* A key makes at most one shipment, however its creates are repeated,
\* overlap, crash or outlive their entry in Redis.
OneShipmentPerKey ==
    \A s, p \in ShipmentIds :
        s # p /\ origin[s] # NoRequest /\ origin[p] # NoRequest
            => origin[s].key # origin[p].key

\* The shipments the create q may have been answered with.
OfKey(q) == {s \in ShipmentIds : HasKey(s, q.key)}

\* What q asked for has happened: the shipment of its key exists, or what
\* it asked for was announced (a cancel may have come after it left).
Fulfilled(q) ==
    CASE q.op = "create" -> OfKey(q) # {}
      [] q.op = "ship"   -> emitted[q.shipment]["ShipmentShipped"] > 0
      [] q.op = "cancel" -> \/ emitted[q.shipment]["ShipmentCanceled"] > 0
                            \/ emitted[q.shipment]["ShipmentShipped"] > 0

\* A client that was told "ok", by a handler or from Redis, was told the
\* truth, whatever failed, crashed or raced in between.
OkIsTrue == \A e \in told : e.answer = "ok" => Fulfilled(e.req)

-----------------------------------------------------------------------------
(* A property of shipments whose updates all met the status their read     *)
(* had seen: only a lost update can break it.                              *)

\* A shipment leaves once: ShipmentShipped is announced at most once, by
\* however many retries, and what was announced as shipped stays shipped.
ShippedOnce ==
    \A s \in ShipmentIds \ raced :
        emitted[s]["ShipmentShipped"] = (IF shipment[s] = "SHIPPED" THEN 1 ELSE 0)
=============================================================================
