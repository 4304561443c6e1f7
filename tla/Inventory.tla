----------------------------- MODULE Inventory ------------------------------
(***************************************************************************)
(* inventory-svc: the Redis idempotency middleware, the controllers and    *)
(* the stock transactions of inventory.service.js.                         *)
(*                                                                         *)
(* Stock is a row per (sku, location).  SKUs share neither rows nor locks, *)
(* so the module follows one SKU through its locations.  A request handler *)
(* looks into Redis, opens a transaction, locks its row FOR UPDATE (a move *)
(* locks two), checks, writes, commits, and only then stores the response  *)
(* in Redis.                                                               *)
(*                                                                         *)
(* The outbox table is every service's: the key of an event another        *)
(* service inserted is taken here too.                                     *)
(***************************************************************************)
EXTENDS Integers

CONSTANTS
    Locations,
    InitialStock,   \* [Locations -> Int], available_qty; NoRow: no such row
    InitialReserved,\* [Locations -> Nat], reserved_qty
    Requests,       \* the write requests clients make
    Copies,         \* bound: arrivals of one request (client and gateway retries)
    Handlers,       \* bound: requests handled at a time
    SharedKeys,     \* keys that other services' events may take in the outbox
    IndexIsPartial, \* uq_outbox_idem has a WHERE clause, as the DDL of db.js has
    Faults,         \* what may go wrong, of {"crash", "expire", "db"}
    NoRow, NoHandler

\* /reserve, /commit and /release need a positive quantity; /adjust takes
\* any two deltas; /move names a row by id, that is, by its location.
StockRequests  == [op : {"RESERVE", "COMMIT", "RELEASE"}, loc : Locations,
                   qty : Nat \ {0}, key : STRING]
AdjustRequests == [op : {"ADJUST"}, loc : Locations, qty : Int, reservedQty : Int,
                   key : STRING]
MoveRequests   == [op : {"MOVE"}, loc : Locations, to : Locations,
                   qty : Nat \ {0}, key : STRING]

ASSUME RequestsAssumption ==
    Requests \subseteq StockRequests \cup AdjustRequests \cup MoveRequests
ASSUME StockAssumption ==
    /\ NoRow \notin Int
    /\ InitialStock \in [Locations -> Nat \cup {NoRow}]
    /\ InitialReserved \in [Locations -> Nat]
    /\ \A l \in Locations : InitialStock[l] = NoRow => InitialReserved[l] = 0
ASSUME BoundsAssumption ==
    Copies \in Nat /\ IndexIsPartial \in BOOLEAN /\ Faults \subseteq {"crash", "expire", "db"}
ASSUME SharedAssumption == SharedKeys \subseteq STRING
ASSUME NoHandlerAssumption == NoHandler \notin Handlers

VARIABLES
    exists,     \* [Locations -> BOOLEAN], the inventory row is there
    available,  \* [Locations -> Int], available_qty
    reserved,   \* [Locations -> Int], reserved_qty
    ledger,     \* [Locations -> [LedgerTypes -> Int]], sums of inventory_events
    outbox,     \* set of [key, op]: outbox rows of all services, unique per key
    applied,    \* [Requests -> Nat], committed executions of a request
    cache,      \* Redis: set of [req, answer], stored responses
    arrivals,   \* [Requests -> Nat], arrivals still to come
    lock,       \* [Locations -> Handlers \cup {NoHandler}], FOR UPDATE locks
    handler     \* [Handlers -> the request being served]

stock == <<exists, available, reserved, ledger, outbox, applied>>
vars  == <<exists, available, reserved, ledger, outbox, applied,
           cache, arrivals, lock, handler>>

LedgerTypes == {"RESERVE", "COMMIT", "RELEASE", "ADJUST", "MOVE_OUT", "MOVE_IN"}

Idle == [pc |-> "idle"]
Answers == {"done", "refused"}   \* { success: true } and { success: false }
HandlerStates ==
    {Idle} \cup [pc : {"checked", "moving", "writing"}, req : Requests]
           \cup [pc : {"responding", "replaying"}, req : Requests, answer : Answers]

TypeOK ==
    /\ exists \in [Locations -> BOOLEAN]
    /\ available \in [Locations -> Int]
    /\ reserved \in [Locations -> Int]
    /\ ledger \in [Locations -> [LedgerTypes -> Int]]
    /\ outbox \subseteq {[key |-> q.key, op |-> q.op] : q \in Requests}
                     \cup [key : SharedKeys, op : {"OTHER"}]
    /\ applied \in [Requests -> Nat]
    /\ cache \subseteq [req : Requests, answer : Answers]
    /\ arrivals \in [Requests -> Nat]
    /\ lock \in [Locations -> Handlers \cup {NoHandler}]
    /\ handler \in [Handlers -> HandlerStates]

Init ==
    /\ exists = [l \in Locations |-> InitialStock[l] # NoRow]
    /\ available = [l \in Locations |-> IF InitialStock[l] = NoRow THEN 0 ELSE InitialStock[l]]
    /\ reserved = InitialReserved
    /\ ledger = [l \in Locations |-> [e \in LedgerTypes |-> 0]]
    /\ outbox = {}
    /\ applied = [q \in Requests |-> 0]
    /\ cache = {}
    /\ arrivals = [q \in Requests |-> Copies]
    /\ lock = [l \in Locations |-> NoHandler]
    /\ handler = [h \in Handlers |-> Idle]

-----------------------------------------------------------------------------
(* The middleware.                                                         *)

Goto(h, pc, q) == handler' = [handler EXCEPT ![h] = [pc |-> pc, req |-> q]]

Reply(h, pc, q, a) ==
    handler' = [handler EXCEPT ![h] = [pc |-> pc, req |-> q, answer |-> a]]

Done(h) == handler' = [handler EXCEPT ![h] = Idle]

Unlocked(h) == [l \in Locations |-> IF lock[l] = h THEN NoHandler ELSE lock[l]]

\* The Redis key, idem:<route>:<key>.
SameSlot(q, r) == q.op = r.op /\ q.key = r.key

\* Mutant of Arrive: the request hash is not compared.
ArriveUnhashed(h, q) ==
    /\ handler[h] = Idle
    /\ arrivals[q] > 0
    /\ arrivals' = [arrivals EXCEPT ![q] = @ - 1]
    /\ \/ /\ \A e \in cache : ~SameSlot(e.req, q)
          /\ Goto(h, "checked", q)
       \/ \E e \in cache : SameSlot(e.req, q) /\ Reply(h, "replaying", q, e.answer)
    /\ UNCHANGED <<stock, cache, lock>>

\* redis.get: a stored response is replayed, or refused (409) if it is for
\* another body, so the service runs only when there is none.
Arrive(h, q) ==
    /\ handler[h] = Idle
    /\ arrivals[q] > 0
    /\ arrivals' = [arrivals EXCEPT ![q] = @ - 1]
    /\ \/ /\ \A e \in cache : ~SameSlot(e.req, q)
          /\ Goto(h, "checked", q)
       \/ \E e \in cache : e.req = q /\ Reply(h, "replaying", q, e.answer)
       \/ /\ \E e \in cache : SameSlot(e.req, q) /\ e.req # q
          /\ UNCHANGED handler
    /\ UNCHANGED <<stock, cache, lock>>

\* res.json, wrapped by the middleware: setex, then the response.
Respond(h) ==
    LET q == handler[h].req
    IN  /\ handler[h].pc = "responding"
        /\ cache' = {e \in cache : ~SameSlot(e.req, q)}
                       \cup {[req |-> q, answer |-> handler[h].answer]}
        /\ Done(h)
        /\ UNCHANGED <<stock, arrivals, lock>>

\* A replayed response goes out as it is.
Replay(h) ==
    /\ handler[h].pc = "replaying"
    /\ Done(h)
    /\ UNCHANGED <<stock, cache, arrivals, lock>>

\* The entry's TTL_SECONDS run out.
Expire(c) ==
    /\ "expire" \in Faults
    /\ c \in cache
    /\ cache' = cache \ {c}
    /\ UNCHANGED <<stock, arrivals, lock, handler>>

-----------------------------------------------------------------------------
(* The transactions.                                                       *)

\* What the locked row must have.
Enough(q) ==
    /\ q.op \in {"RESERVE", "MOVE"}   => available[q.loc] >= q.qty
    /\ q.op \in {"COMMIT", "RELEASE"} => reserved[q.loc] >= q.qty

\* No row: HttpError 404.  The error handler fails to build its response, so
\* nothing reaches res.json and nothing is stored.
NotFound(h) ==
    /\ handler[h].pc = "checked"
    /\ ~exists[handler[h].req.loc]
    /\ Done(h)
    /\ UNCHANGED <<stock, cache, arrivals, lock>>

\* SELECT ... FOR UPDATE gets the row, and the checks fail: a move throws
\* (400, 409), the others return { success: false } through res.json.
Refuse(h) ==
    LET q == handler[h].req
    IN  /\ handler[h].pc = "checked"
        /\ exists[q.loc] /\ lock[q.loc] = NoHandler
        /\ ~Enough(q) \/ (q.op = "MOVE" /\ q.to = q.loc)
        /\ IF q.op = "MOVE" THEN Done(h) ELSE Reply(h, "responding", q, "refused")
        /\ UNCHANGED <<stock, cache, arrivals, lock>>

\* Mutant of Lock: a plain SELECT, without FOR UPDATE.
LockNothing(h) ==
    LET q == handler[h].req
    IN  /\ handler[h].pc = "checked"
        /\ exists[q.loc]
        /\ Enough(q)
        /\ q.op = "MOVE" => q.to # q.loc
        /\ Goto(h, IF q.op = "MOVE" THEN "moving" ELSE "writing", q)
        /\ UNCHANGED <<stock, cache, arrivals, lock>>

\* ... and they pass: the row stays locked until the transaction ends.
Lock(h) ==
    LET q == handler[h].req
    IN  /\ handler[h].pc = "checked"
        /\ exists[q.loc] /\ lock[q.loc] = NoHandler
        /\ Enough(q)
        /\ q.op = "MOVE" => q.to # q.loc
        /\ lock' = [lock EXCEPT ![q.loc] = h]
        /\ Goto(h, IF q.op = "MOVE" THEN "moving" ELSE "writing", q)
        /\ UNCHANGED <<stock, cache, arrivals>>

\* ensureRow and lockById on the destination: an INSERT of the row waits for
\* a concurrent one just as FOR UPDATE does.
LockDestination(h) ==
    LET q == handler[h].req
    IN  /\ handler[h].pc = "moving"
        /\ lock[q.to] = NoHandler
        /\ lock' = [lock EXCEPT ![q.to] = h]
        /\ Goto(h, "writing", q)
        /\ UNCHANGED <<stock, cache, arrivals>>

\* Moves that wait for each other in a cycle; Postgres aborts one of them.
Deadlocked(h) ==
    \E S \in SUBSET {g \in Handlers : handler[g].pc = "moving"} :
        /\ h \in S
        /\ \A g \in S : lock[handler[g].req.to] \in S

DeadlockAbort(h) ==
    /\ Deadlocked(h)
    /\ lock' = Unlocked(h)
    /\ Done(h)
    /\ UNCHANGED <<stock, cache, arrivals>>

\* setQuantitiesById: what request q adds to the two columns of row l.
AvailableDelta(q, l) ==
    CASE q.op = "RESERVE" /\ l = q.loc              -> 0 - q.qty
      [] q.op \in {"RELEASE", "ADJUST"} /\ l = q.loc -> q.qty
      [] q.op = "MOVE" /\ l = q.loc                 -> 0 - q.qty
      [] q.op = "MOVE" /\ l = q.to /\ l # q.loc     -> q.qty
      [] OTHER                                      -> 0

ReservedDelta(q, l) ==
    CASE q.op = "RESERVE" /\ l = q.loc               -> q.qty
      [] q.op \in {"COMMIT", "RELEASE"} /\ l = q.loc -> 0 - q.qty
      [] q.op = "ADJUST" /\ l = q.loc                -> q.reservedQty
      [] OTHER                                       -> 0

\* Mutant of LedgerDelta: the MOVE_IN event is forgotten.
LedgerDeltaOneSided(q, l, e) ==
    CASE q.op = "MOVE" /\ e = "MOVE_OUT" /\ l = q.loc -> q.qty
      [] q.op = e /\ e = "ADJUST" /\ l = q.loc        -> q.qty + q.reservedQty
      [] q.op = e /\ e # "ADJUST" /\ l = q.loc        -> q.qty
      [] OTHER                                        -> 0

\* addEvent: what it adds to the sum of the events of type e on row l.
LedgerDelta(q, l, e) ==
    CASE q.op = "MOVE" /\ e = "MOVE_OUT" /\ l = q.loc -> q.qty
      [] q.op = "MOVE" /\ e = "MOVE_IN" /\ l = q.to   -> q.qty
      [] q.op = e /\ e = "ADJUST" /\ l = q.loc        -> q.qty + q.reservedQty
      [] q.op = e /\ e # "ADJUST" /\ l = q.loc        -> q.qty
      [] OTHER                                        -> 0

\* Mutants of OutboxWith: a wrong event type, and a move without its event.
OutboxWithWrongType(q) == outbox \cup {[key |-> q.key, op |-> "RECEIVE"]}

OutboxWithoutMoves(q) ==
    IF q.op = "MOVE" \/ \E r \in outbox : r.key = q.key THEN outbox
    ELSE outbox \cup {[key |-> q.key, op |-> q.op]}

\* addOutboxEvent: ON CONFLICT (idempotency_key) DO NOTHING, be the row that
\* has the key of this route, of another one or of another service.
OutboxWith(q) ==
    IF \E r \in outbox : r.key = q.key THEN outbox
    ELSE outbox \cup {[key |-> q.key, op |-> q.op]}

\* The writes and the COMMIT.
Commit(h) ==
    LET q == handler[h].req
    IN  /\ handler[h].pc = "writing"
        /\ ~IndexIsPartial
        /\ exists' = IF q.op = "MOVE" THEN [exists EXCEPT ![q.to] = TRUE] ELSE exists
        /\ available' = [l \in Locations |-> available[l] + AvailableDelta(q, l)]
        /\ reserved' = [l \in Locations |-> reserved[l] + ReservedDelta(q, l)]
        /\ ledger' = [l \in Locations |->
                        [e \in LedgerTypes |-> ledger[l][e] + LedgerDelta(q, l, e)]]
        /\ outbox' = OutboxWith(q)
        /\ applied' = [applied EXCEPT ![q] = @ + 1]
        /\ lock' = Unlocked(h)
        /\ Reply(h, "responding", q, "done")
        /\ UNCHANGED <<cache, arrivals>>

\* Mutant of Rollback: the catch of tx forgets the ROLLBACK.
RollbackForgotten(h) ==
    /\ handler[h].pc \in {"checked", "moving", "writing"}
    /\ "db" \in Faults \/ (IndexIsPartial /\ handler[h].pc = "writing")
    /\ Done(h)
    /\ UNCHANGED <<stock, cache, arrivals, lock>>

\* A statement fails and tx rolls back; the error handler's own failure
\* keeps the response out of Redis.  The outbox INSERT always fails when the
\* index is partial: none matches ON CONFLICT (idempotency_key) then.
Rollback(h) ==
    /\ handler[h].pc \in {"checked", "moving", "writing"}
    /\ "db" \in Faults \/ (IndexIsPartial /\ handler[h].pc = "writing")
    /\ lock' = Unlocked(h)
    /\ Done(h)
    /\ UNCHANGED <<stock, cache, arrivals>>

\* The process dies: open transactions roll back, responses are lost, and
\* Redis and Postgres keep what they have.
Crash ==
    /\ "crash" \in Faults
    /\ handler' = [h \in Handlers |-> Idle]
    /\ lock' = [l \in Locations |-> NoHandler]
    /\ UNCHANGED <<stock, cache, arrivals>>

\* Another service commits an event under a client's key (orders-svc,
\* payments-svc and shipping-svc insert the bare key as well).  If the key is
\* taken its insert fails or does nothing.
Elsewhere(k) ==
    /\ \A r \in outbox : r.key # k
    /\ outbox' = outbox \cup {[key |-> k, op |-> "OTHER"]}
    /\ UNCHANGED <<exists, available, reserved, ledger, applied,
                   cache, arrivals, lock, handler>>

-----------------------------------------------------------------------------

\* What a handler does when no statement fails.
Proceed(h) ==
    \/ NotFound(h) \/ Refuse(h) \/ Lock(h) \/ LockDestination(h)
    \/ DeadlockAbort(h) \/ Commit(h) \/ Respond(h) \/ Replay(h)

Serve(h) == Proceed(h) \/ Rollback(h)

Next ==
    \/ \E h \in Handlers, q \in Requests : Arrive(h, q)
    \/ \E h \in Handlers : Serve(h)
    \/ \E c \in cache : Expire(c)
    \/ \E k \in SharedKeys : Elsewhere(k)
    \/ Crash

Spec == Init /\ [][Next]_vars

\* A started handler goes on unless a statement of its fails; one that waits
\* for a row lock gets it in the end because Postgres queues the waiters.
FairSpec ==
    Spec /\ \A h \in Handlers : SF_vars(Proceed(h) \/ (IndexIsPartial /\ Rollback(h)))

-----------------------------------------------------------------------------
(* Properties.                                                             *)

NoNegativeAdjust ==
    \A q \in Requests : q.op = "ADJUST" => q.qty >= 0 /\ q.reservedQty >= 0

\* Stock is never oversold: concurrent reserves, commits, releases and moves
\* of one row, retried or not, keep both quantities at zero or more.  Only
\* an adjust with a negative delta, which is not checked, could break it.
NeverOversold ==
    NoNegativeAdjust => \A l \in Locations : available[l] >= 0 /\ reserved[l] >= 0

Initially(l) == IF InitialStock[l] = NoRow THEN 0 ELSE InitialStock[l]

\* The history explains the stock: at any moment the events of
\* inventory_events account for every unit of a row, and for the reserved
\* ones as long as nothing was adjusted.
HistoryExplainsStock ==
    \A l \in Locations :
        LET sum == ledger[l]
        IN  /\ available[l] + reserved[l] = Initially(l) + InitialReserved[l]
                  + sum["ADJUST"] + sum["MOVE_IN"] - sum["MOVE_OUT"] - sum["COMMIT"]
            /\ (\A q \in Requests : q.op # "ADJUST") =>
                  reserved[l] = InitialReserved[l]
                     + sum["RESERVE"] - sum["COMMIT"] - sum["RELEASE"]

\* No stock change goes out without an event under its key, and no event
\* tells of a change that was not committed: crashes, retries and expired
\* responses included.  The event under the key need not be the change's own:
\* a key that another route or another service used first silences it.
EveryChangeAnnounced ==
    /\ \A q \in Requests : applied[q] > 0 => \E r \in outbox : r.key = q.key
    /\ \A r \in outbox : r.op # "OTHER" =>
          \E q \in Requests : q.key = r.key /\ q.op = r.op /\ applied[q] > 0

\* No request waits for ever: row locks are released on every path, and a
\* cycle of moves is broken.
RequestsFinish == \A h \in Handlers : handler[h] # Idle ~> handler[h] = Idle

\* A transaction whose checks passed commits.
CheckedIsCommitted ==
    [][\A h \in Handlers : handler[h].pc = "writing" /\ handler'[h] # handler[h]
         => handler'[h].pc = "responding"]_vars
=============================================================================
