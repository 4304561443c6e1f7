--------------------------- MODULE ShippingProofs ---------------------------
(***************************************************************************)
(* Theorems about Shipping, for any shipments, requests, handlers, retries *)
(* and faults: the types, one shipment per key, that an "ok" is true, and  *)
(* that a shipment leaves once unless an update was lost.                  *)
(***************************************************************************)
EXTENDS Shipping, TLAPS

USE DEF Idle, Answers

\* What a request of each kind carries.
LEMMA RequestFields ==
    ASSUME NEW q \in Requests
    PROVE  /\ q.op \in {"create", "cancel", "ship"}
           /\ q.op \in {"cancel", "ship"} => q.shipment \in ShipmentIds
  <1>1. CASE q \in CreateRequests
    BY <1>1, SMT DEF CreateRequests
  <1>2. CASE q \in UpdateRequests
    BY <1>2, SMT DEF UpdateRequests
  <1> QED
    BY <1>1, <1>2, RequestsAssumption

-----------------------------------------------------------------------------
(* The inductive invariant.                                                *)

\* ShippingTypeOK for the database, and for the process and Redis.
RowTypes ==
    /\ shipment \in [ShipmentIds -> Statuses]
    /\ origin \in [ShipmentIds -> Requests \cup {NoRequest}]
    /\ emitted \in [ShipmentIds -> [EventTypes -> Nat]]
    /\ raced \subseteq ShipmentIds

ProcessTypes ==
    /\ cache \subseteq [req : Requests, answer : Answers]
    /\ arrivals \in [Requests -> Nat]
    /\ handler \in [Handlers -> HandlerStates]
    /\ told \subseteq [req : Requests, answer : Answers]

\* A row that does not exist has no key, and a status has its event.
RowsAreConsistent ==
    \A s \in ShipmentIds :
        /\ shipment[s] = "NONE" => origin[s] = NoRequest
        /\ shipment[s] = "SHIPPED" => emitted[s]["ShipmentShipped"] > 0
        /\ shipment[s] = "CANCELED" => emitted[s]["ShipmentCanceled"] > 0

\* What a handler has read and decided.
HandlerKnows(h) ==
    /\ handler[h].pc = "inserting" => handler[h].req.op = "create"
    /\ handler[h].pc = "updating" =>
         /\ handler[h].req.op \in {"cancel", "ship"}
         /\ handler[h].seen \notin Settled[handler[h].req.op]
    /\ handler[h].pc = "responding" /\ handler[h].answer = "ok" => Fulfilled(handler[h].req)

HandlersKnow == \A h \in Handlers : HandlerKnows(h)

CacheIsTrue == \A e \in cache : e.answer = "ok" => Fulfilled(e.req)

RowInv == RowTypes /\ RowsAreConsistent /\ OneShipmentPerKey /\ ShippedOnce
ProcessInv == ProcessTypes /\ HandlersKnow /\ CacheIsTrue /\ OkIsTrue

IInv == RowInv /\ ProcessInv

LEMMA TypeParts == ShippingTypeOK <=> RowTypes /\ ProcessTypes
  BY DEF ShippingTypeOK, RowTypes, ProcessTypes

LEMMA HandlerFields ==
    ASSUME ProcessTypes, NEW h \in Handlers, handler[h].pc # "idle"
    PROVE  /\ handler[h].req \in Requests
           /\ handler[h].pc = "updating" => handler[h].seen \in Statuses
           /\ handler[h].pc = "responding" => handler[h].answer \in Answers
  <1>1. handler[h] \in HandlerStates
    BY DEF ProcessTypes
  <1> QED
    BY <1>1, SMT DEF HandlerStates

\* What a step must show of the process when it ends in handler h only, or
\* in no handler, and what was fulfilled stays so.
StaysFulfilled == \A q \in Requests : Fulfilled(q) => Fulfilled(q)'

LEMMA GotoInv ==
    ASSUME IInv, NEW h \in Handlers, NEW st \in HandlerStates, Goto(h, st), StaysFulfilled,
           st.pc = "inserting" => st.req.op = "create",
           st.pc = "updating" => /\ st.req.op \in {"cancel", "ship"}
                                 /\ st.seen \notin Settled[st.req.op],
           st.pc = "responding" /\ st.answer = "ok" => Fulfilled(st.req)'
    PROVE  handler' \in [Handlers -> HandlerStates] /\ HandlersKnow'
  <1>1. handler' \in [Handlers -> HandlerStates]
    BY DEF Goto, IInv, ProcessInv, ProcessTypes
  <1>2. ASSUME NEW g \in Handlers PROVE HandlerKnows(g)'
    <2>1. CASE g = h
      <3>1. handler'[g] = st
        BY <2>1 DEF Goto, IInv, ProcessInv, ProcessTypes
      <3> QED
        BY <3>1 DEF HandlerKnows
    <2>2. CASE g # h
      <3>1. handler'[g] = handler[g]
        BY <2>2 DEF Goto, IInv, ProcessInv, ProcessTypes
      <3>2. handler[g].pc = "responding" => handler[g].req \in Requests
        BY HandlerFields DEF IInv, ProcessInv
      <3>3. HandlerKnows(g)
        BY DEF IInv, ProcessInv, HandlersKnow
      <3> QED
        BY <3>1, <3>2, <3>3 DEF HandlerKnows, StaysFulfilled
    <2> QED
      BY <2>1, <2>2
  <1> QED
    BY <1>1, <1>2 DEF HandlersKnow

\* Answers given and stored before a step are true after it.
LEMMA AnswersKept ==
    ASSUME IInv, StaysFulfilled
    PROVE  /\ UNCHANGED cache => CacheIsTrue'
           /\ UNCHANGED told => OkIsTrue'
  BY DEF IInv, ProcessInv, ProcessTypes, CacheIsTrue, OkIsTrue, StaysFulfilled

\* A step that leaves the database alone.
LEMMA RowsKept ==
    ASSUME IInv, UNCHANGED rows
    PROVE  RowInv' /\ StaysFulfilled
  <1>1. RowInv'
    BY DEF IInv, RowInv, RowTypes, RowsAreConsistent, OneShipmentPerKey, ShippedOnce, rows
  <1>2. \A q \in Requests : Fulfilled(q) => Fulfilled(q)'
    BY DEF Fulfilled, OfKey, HasKey, rows
  <1> QED
    BY <1>1, <1>2 DEF StaysFulfilled

-----------------------------------------------------------------------------
(* The steps that leave the database alone.                                *)

LEMMA ArriveIInv ==
    ASSUME IInv, NEW h \in Handlers, NEW q \in Requests, Arrive(h, q)
    PROVE  IInv'
  <1>1. RowInv' /\ StaysFulfilled /\ UNCHANGED cache
    BY RowsKept DEF Arrive
  <1>2. arrivals' \in [Requests -> Nat]
    <2>1. arrivals' = [arrivals EXCEPT ![q] = arrivals[q] - 1] /\ arrivals[q] > 0
      BY DEF Arrive
    <2>2. arrivals \in [Requests -> Nat]
      BY DEF IInv, ProcessInv, ProcessTypes
    <2>3. arrivals[q] - 1 \in Nat
      BY <2>1, <2>2, SMT
    <2> QED
      BY <2>1, <2>2, <2>3
  <1>3. cache' \subseteq [req : Requests, answer : Answers] /\ CacheIsTrue'
    BY <1>1, AnswersKept DEF IInv, ProcessInv, ProcessTypes
  <1>4. CASE Goto(h, [pc |-> "begun", req |-> q]) /\ UNCHANGED told
    <2>1. [pc |-> "begun", req |-> q] \in HandlerStates
      BY SMT DEF HandlerStates
    <2>2. handler' \in [Handlers -> HandlerStates] /\ HandlersKnow'
      BY <1>1, <1>4, <2>1, GotoInv
    <2>3. OkIsTrue' /\ told' \subseteq [req : Requests, answer : Answers]
      BY <1>1, <1>4, AnswersKept DEF IInv, ProcessInv, ProcessTypes
    <2> QED
      BY <1>1, <1>2, <1>3, <2>2, <2>3 DEF IInv, ProcessInv, ProcessTypes
  <1>5. ASSUME UNCHANGED handler, NEW e \in cache, told' = told \/ told' = told \cup {e}
        PROVE  IInv'
    <2>1. handler' \in [Handlers -> HandlerStates] /\ HandlersKnow'
      <3>1. \A g \in Handlers : handler[g].pc = "responding" => handler[g].req \in Requests
        BY HandlerFields DEF IInv, ProcessInv
      <3> QED
        BY <1>1, <1>5, <3>1 DEF IInv, ProcessInv, ProcessTypes, HandlersKnow, HandlerKnows,
                                StaysFulfilled
    <2>2. told' \subseteq [req : Requests, answer : Answers]
      BY <1>5 DEF IInv, ProcessInv, ProcessTypes
    <2>3. \A x \in told' : x.answer = "ok" => Fulfilled(x.req)
      BY <1>5 DEF IInv, ProcessInv, OkIsTrue, CacheIsTrue
    <2>4. OkIsTrue'
      BY <1>1, <2>2, <2>3 DEF OkIsTrue, StaysFulfilled
    <2> QED
      BY <1>1, <1>2, <1>3, <2>1, <2>2, <2>4 DEF IInv, ProcessInv, ProcessTypes
  <1> QED
    BY <1>4, <1>5 DEF Arrive

LEMMA RespondIInv ==
    ASSUME IInv, NEW h \in Handlers, Respond(h)
    PROVE  IInv'
  <1> DEFINE entry == [req |-> handler[h].req, answer |-> handler[h].answer]
  <1>1. RowInv' /\ StaysFulfilled /\ UNCHANGED arrivals
    BY RowsKept DEF Respond
  <1>2. entry \in [req : Requests, answer : Answers]
    BY HandlerFields DEF Respond, IInv, ProcessInv
  <1>3. entry.answer = "ok" => Fulfilled(entry.req)
    BY DEF Respond, IInv, ProcessInv, HandlersKnow, HandlerKnows
  <1>4. handler' \in [Handlers -> HandlerStates] /\ HandlersKnow'
    <2>1. Idle \in HandlerStates
      BY DEF HandlerStates
    <2> QED
      BY <1>1, <2>1, GotoInv DEF Respond
  <1>5. \A e \in cache' : e \in cache \/ e = entry
    BY DEF Respond
  <1>6. \A e \in told' : e \in told \/ e = entry
    BY DEF Respond
  <1>7. cache' \subseteq [req : Requests, answer : Answers]
        /\ told' \subseteq [req : Requests, answer : Answers]
    BY <1>2, <1>5, <1>6 DEF IInv, ProcessInv, ProcessTypes
  <1>8. \A e \in cache' \cup told' : e.answer = "ok" => Fulfilled(e.req)
    BY <1>3, <1>5, <1>6 DEF IInv, ProcessInv, CacheIsTrue, OkIsTrue
  <1>9. CacheIsTrue' /\ OkIsTrue'
    BY <1>1, <1>7, <1>8 DEF CacheIsTrue, OkIsTrue, StaysFulfilled
  <1> QED
    BY <1>1, <1>4, <1>7, <1>9 DEF IInv, ProcessInv, ProcessTypes

LEMMA ExpireIInv ==
    ASSUME IInv, NEW c \in cache, Expire(c)
    PROVE  IInv'
  <1>1. RowInv' /\ StaysFulfilled
    BY RowsKept DEF Expire
  <1>2. cache' \subseteq cache /\ UNCHANGED <<arrivals, handler, told>>
    BY DEF Expire
  <1>3. HandlersKnow'
    <2>1. \A g \in Handlers : handler[g].pc = "responding" => handler[g].req \in Requests
      BY HandlerFields DEF IInv, ProcessInv
    <2> QED
      BY <1>1, <1>2, <2>1 DEF IInv, ProcessInv, HandlersKnow, HandlerKnows, StaysFulfilled
  <1>4. CacheIsTrue' /\ OkIsTrue'
    BY <1>1, <1>2 DEF IInv, ProcessInv, ProcessTypes, CacheIsTrue, OkIsTrue, StaysFulfilled
  <1> QED
    BY <1>1, <1>2, <1>3, <1>4 DEF IInv, ProcessInv, ProcessTypes

LEMMA CrashIInv ==
    ASSUME IInv, Crash
    PROVE  IInv'
  <1>1. RowInv' /\ StaysFulfilled /\ UNCHANGED <<cache, arrivals, told>>
    BY RowsKept DEF Crash
  <1>2. \A g \in Handlers : handler'[g] = Idle
    BY DEF Crash
  <1>3. handler' \in [Handlers -> HandlerStates]
    BY DEF Crash, HandlerStates
  <1>4. HandlersKnow'
    BY <1>2 DEF HandlersKnow, HandlerKnows
  <1>5. CacheIsTrue' /\ OkIsTrue'
    BY <1>1, AnswersKept
  <1> QED
    BY <1>1, <1>3, <1>4, <1>5 DEF IInv, ProcessInv, ProcessTypes

\* A step of handler h that leaves the database, Redis and the clients alone.
LEMMA QuietStep ==
    ASSUME IInv, NEW h \in Handlers, NEW st \in HandlerStates, Goto(h, st),
           UNCHANGED <<rows, cache, arrivals, told>>,
           st.pc = "inserting" => st.req.op = "create",
           st.pc = "updating" => /\ st.req.op \in {"cancel", "ship"}
                                 /\ st.seen \notin Settled[st.req.op],
           st.pc = "responding" /\ st.answer = "ok" => st.req \in Requests /\ Fulfilled(st.req)
    PROVE  IInv'
  <1>1. RowInv' /\ StaysFulfilled
    BY RowsKept
  <1>2. handler' \in [Handlers -> HandlerStates] /\ HandlersKnow'
    <2>1. st.pc = "responding" /\ st.answer = "ok" => Fulfilled(st.req)'
      BY <1>1 DEF StaysFulfilled
    <2> QED
      BY <1>1, <2>1, GotoInv
  <1>3. CacheIsTrue' /\ OkIsTrue'
    BY <1>1, AnswersKept
  <1> QED
    BY <1>1, <1>2, <1>3 DEF IInv, ProcessInv, ProcessTypes

LEMMA CreateReadIInv ==
    ASSUME IInv, NEW h \in Handlers, CreateRead(h)
    PROVE  IInv'
  <1>1. PICK q \in Requests : q = handler[h].req /\ q.op = "create"
    BY HandlerFields DEF CreateRead, IInv, ProcessInv
  <1>2. UNCHANGED <<rows, cache, arrivals, told>>
    BY DEF CreateRead
  <1>3. CASE \E s \in ShipmentIds : HasKey(s, q.key)
    <2> DEFINE st == [pc |-> "responding", req |-> q, answer |-> "ok"]
    <2>1. Goto(h, st)
      BY <1>1, <1>3 DEF CreateRead, Reply
    <2>2. st \in HandlerStates
      BY SMT DEF HandlerStates
    <2>3. Fulfilled(q)
      BY <1>1, <1>3 DEF Fulfilled, OfKey
    <2> QED
      BY <1>2, <2>1, <2>2, <2>3, QuietStep
  <1>4. CASE ~\E s \in ShipmentIds : HasKey(s, q.key)
    <2> DEFINE st == [pc |-> "inserting", req |-> q]
    <2>1. Goto(h, st)
      BY <1>1, <1>4 DEF CreateRead
    <2>2. st \in HandlerStates
      BY SMT DEF HandlerStates
    <2> QED
      BY <1>1, <1>2, <2>1, <2>2, QuietStep
  <1> QED
    BY <1>3, <1>4

LEMMA UpdateReadIInv ==
    ASSUME IInv, NEW h \in Handlers, UpdateRead(h)
    PROVE  IInv'
  <1>1. PICK q \in Requests : q = handler[h].req /\ q.op \in {"cancel", "ship"}
    BY HandlerFields DEF UpdateRead, IInv, ProcessInv
  <1>2. UNCHANGED <<rows, cache, arrivals, told>> /\ q.shipment \in ShipmentIds
    BY <1>1, RequestFields DEF UpdateRead
  <1>3. CASE shipment[q.shipment] \in Settled[q.op]
    <2> DEFINE st == [pc |-> "responding", req |-> q, answer |-> "ok"]
    <2>1. Goto(h, st)
      <3>1. shipment[q.shipment] # "NONE"
        BY <1>1, <1>3 DEF Settled
      <3> QED
        BY <1>1, <1>3, <3>1 DEF UpdateRead, Reply
    <2>2. st \in HandlerStates
      BY SMT DEF HandlerStates
    <2>3. Fulfilled(q)
      <3>1. \/ shipment[q.shipment] = "SHIPPED"
            \/ q.op = "cancel" /\ shipment[q.shipment] = "CANCELED"
        BY <1>1, <1>3 DEF Settled
      <3>2. \/ emitted[q.shipment]["ShipmentShipped"] > 0
            \/ q.op = "cancel" /\ emitted[q.shipment]["ShipmentCanceled"] > 0
        BY <3>1, <1>2 DEF IInv, RowInv, RowsAreConsistent
      <3>3. CASE q.op = "ship"
        BY <3>2, <3>3 DEF Fulfilled
      <3>4. CASE q.op = "cancel"
        BY <3>2, <3>4 DEF Fulfilled
      <3> QED
        BY <1>1, <3>3, <3>4
    <2> QED
      BY <1>2, <2>1, <2>2, <2>3, QuietStep
  <1>4. CASE shipment[q.shipment] = "NONE"
    <2> DEFINE st == [pc |-> "responding", req |-> q, answer |-> "error"]
    <2>1. Goto(h, st)
      <3>1. shipment[q.shipment] \notin Settled[q.op]
        BY <1>1, <1>4 DEF Settled
      <3> QED
        BY <1>1, <1>4, <3>1 DEF UpdateRead, Reply
    <2>2. st \in HandlerStates
      BY SMT DEF HandlerStates
    <2> QED
      BY <1>2, <2>1, <2>2, QuietStep
  <1>5. CASE shipment[q.shipment] \notin Settled[q.op] \cup {"NONE"}
    <2> DEFINE st == [pc |-> "updating", req |-> q, seen |-> shipment[q.shipment]]
    <2>1. Goto(h, st)
      BY <1>1, <1>5 DEF UpdateRead
    <2>2. shipment[q.shipment] \in Statuses
      BY <1>2 DEF IInv, RowInv, RowTypes
    <2>3. st \in HandlerStates
      BY <2>2, SMT DEF HandlerStates
    <2> QED
      BY <1>1, <1>2, <1>5, <2>1, <2>3, QuietStep
  <1> QED
    BY <1>3, <1>4, <1>5

LEMMA FailIInv ==
    ASSUME IInv, NEW h \in Handlers, Fail(h)
    PROVE  IInv'
  <1> DEFINE st == [pc |-> "responding", req |-> handler[h].req, answer |-> "error"]
  <1>1. handler[h].req \in Requests
    BY HandlerFields DEF Fail, IInv, ProcessInv
  <1>2. st \in HandlerStates
    BY <1>1, SMT DEF HandlerStates
  <1> QED
    BY <1>2, QuietStep DEF Fail, Reply

-----------------------------------------------------------------------------
(* The two commits.                                                        *)

LEMMA EmittedGrows ==
    ASSUME RowTypes, NEW s \in ShipmentIds, NEW ev \in EventTypes, Emit(s, ev)
    PROVE  /\ emitted' \in [ShipmentIds -> [EventTypes -> Nat]]
           /\ \A p \in ShipmentIds, e \in EventTypes :
                emitted'[p][e] = emitted[p][e] + IF p = s /\ e = ev THEN 1 ELSE 0
  <1>1. emitted \in [ShipmentIds -> [EventTypes -> Nat]]
    BY DEF RowTypes
  <1>2. emitted' = [emitted EXCEPT ![s][ev] = emitted[s][ev] + 1]
    BY DEF Emit
  <1>3. emitted[s][ev] + 1 \in Nat
    BY <1>1, SMT
  <1>4. emitted' \in [ShipmentIds -> [EventTypes -> Nat]]
    BY <1>1, <1>2, <1>3, SMT
  <1>5. ASSUME NEW p \in ShipmentIds, NEW e \in EventTypes
        PROVE  emitted'[p][e] = emitted[p][e] + IF p = s /\ e = ev THEN 1 ELSE 0
    BY <1>1, <1>2, SMT
  <1> QED
    BY <1>4, <1>5

LEMMA CreateCommitIInv ==
    ASSUME IInv, NEW h \in Handlers, NEW s \in ShipmentIds, CreateCommit(h, s)
    PROVE  IInv'
  <1>1. PICK q \in Requests : q = handler[h].req /\ q.op = "create"
    BY HandlerFields DEF CreateCommit, IInv, ProcessInv, HandlersKnow, HandlerKnows
  <1> USE DEF EventTypes
  <1>2. RowTypes /\ RowsAreConsistent /\ OneShipmentPerKey /\ ShippedOnce
    BY DEF IInv, RowInv
  <1>3. /\ shipment[s] = "NONE" /\ shipment' = [shipment EXCEPT ![s] = "CREATED"]
        /\ origin' = [origin EXCEPT ![s] = q]
        /\ \A p \in ShipmentIds : ~HasKey(p, q.key)
        /\ UNCHANGED <<cache, arrivals, told, raced>>
    BY <1>1 DEF CreateCommit, IsFresh
  <1>4. /\ emitted' \in [ShipmentIds -> [EventTypes -> Nat]]
        /\ \A p \in ShipmentIds, e \in EventTypes :
             e # "ShipmentCreated" => emitted'[p][e] = emitted[p][e]
    <2>1. CASE Emit(s, "ShipmentCreated")
      <3>1. \A p \in ShipmentIds, e \in EventTypes : emitted[p][e] \in Nat
        BY <1>2 DEF RowTypes
      <3>2. /\ emitted' \in [ShipmentIds -> [EventTypes -> Nat]]
            /\ \A p \in ShipmentIds, e \in EventTypes :
                 emitted'[p][e] = emitted[p][e] + IF p = s /\ e = "ShipmentCreated" THEN 1 ELSE 0
        BY <1>2, <2>1, EmittedGrows
      <3> QED
        BY <3>1, <3>2, SMT
    <2>2. CASE UNCHANGED emitted
      BY <1>2, <2>2 DEF RowTypes
    <2> QED
      BY <2>1, <2>2 DEF CreateCommit
  <1>5. \A p \in ShipmentIds : /\ emitted[p]["ShipmentShipped"] \in Nat
                               /\ emitted[p]["ShipmentCanceled"] \in Nat
    BY <1>2 DEF RowTypes
  <1>6. \A p \in ShipmentIds :
            /\ emitted'[p]["ShipmentShipped"] = emitted[p]["ShipmentShipped"]
            /\ emitted'[p]["ShipmentCanceled"] = emitted[p]["ShipmentCanceled"]
    BY <1>4, <1>5, SMT
  <1>7. \A p \in ShipmentIds :
            /\ shipment'[p] = IF p = s THEN "CREATED" ELSE shipment[p]
            /\ origin'[p] = IF p = s THEN q ELSE origin[p]
    BY <1>2, <1>3 DEF RowTypes
  <1>8. RowTypes'
    BY <1>2, <1>3, <1>4 DEF RowTypes, Statuses
  <1>9. RowsAreConsistent'
    BY <1>2, <1>6, <1>7, NoRequestAssumption DEF RowsAreConsistent
  <1>10. OneShipmentPerKey'
    BY <1>2, <1>3, <1>7 DEF OneShipmentPerKey, HasKey
  <1>11. ShippedOnce'
    BY <1>2, <1>3, <1>6, <1>7 DEF ShippedOnce
  <1>12. q # NoRequest /\ origin[s] = NoRequest
    BY <1>2, <1>3, NoRequestAssumption DEF RowsAreConsistent
  <1>13. \A p \in ShipmentIds : \A k : HasKey(p, k) => HasKey(p, k)'
    BY <1>7, <1>12 DEF HasKey
  <1>14. StaysFulfilled
    <2> SUFFICES ASSUME NEW r \in Requests, Fulfilled(r) PROVE Fulfilled(r)'
      BY DEF StaysFulfilled
    <2>1. CASE r.op = "create"
      BY <2>1, <1>13 DEF Fulfilled, OfKey
    <2>2. CASE r.op \in {"cancel", "ship"}
      <3>1. r.shipment \in ShipmentIds
        BY <2>2, RequestFields
      <3> QED
        BY <2>2, <3>1, <1>6 DEF Fulfilled
    <2> QED
      BY <2>1, <2>2, RequestFields
  <1>15. Fulfilled(q)'
    BY <1>1, <1>7, <1>12 DEF Fulfilled, OfKey, HasKey
  <1>16. handler' \in [Handlers -> HandlerStates] /\ HandlersKnow'
    <2> DEFINE st == [pc |-> "responding", req |-> q, answer |-> "ok"]
    <2>1. st \in HandlerStates
      BY SMT DEF HandlerStates
    <2>2. Goto(h, st)
      BY <1>1 DEF CreateCommit, Reply
    <2> QED
      BY <1>14, <1>15, <2>1, <2>2, GotoInv
  <1>17. CacheIsTrue' /\ OkIsTrue'
    BY <1>3, <1>14, AnswersKept
  <1> QED
    BY <1>3, <1>8, <1>9, <1>10, <1>11, <1>16, <1>17 DEF IInv, RowInv, ProcessInv, ProcessTypes

LEMMA UpdateCommitIInv ==
    ASSUME IInv, NEW h \in Handlers, UpdateCommit(h)
    PROVE  IInv'
  <1> USE DEF EventTypes
  <1>1. PICK q \in Requests : /\ q = handler[h].req /\ q.op \in {"cancel", "ship"}
                              /\ handler[h].seen \notin Settled[q.op]
    BY HandlerFields DEF UpdateCommit, IInv, ProcessInv, HandlersKnow, HandlerKnows
  <1>2. q.shipment \in ShipmentIds
    BY <1>1, RequestFields
  <1>3. RowTypes /\ RowsAreConsistent /\ OneShipmentPerKey /\ ShippedOnce
    BY DEF IInv, RowInv
  <1>4. PICK ev \in EventTypes :
            /\ ev = Announcement[Target[q.op]]
            /\ q.op = "cancel" => Target[q.op] = "CANCELED" /\ ev = "ShipmentCanceled"
            /\ q.op = "ship" => Target[q.op] = "SHIPPED" /\ ev = "ShipmentShipped"
    BY <1>1 DEF Announcement, Target
  <1>5. /\ shipment' = [shipment EXCEPT ![q.shipment] = Target[q.op]]
        /\ raced' = IF shipment[q.shipment] # handler[h].seen
                    THEN raced \cup {q.shipment} ELSE raced
        /\ UNCHANGED <<origin, cache, arrivals, told>>
    BY <1>1 DEF UpdateCommit
  <1>6. /\ emitted' \in [ShipmentIds -> [EventTypes -> Nat]]
        /\ \A p \in ShipmentIds, e \in EventTypes :
             emitted'[p][e] = emitted[p][e] + IF p = q.shipment /\ e = ev THEN 1 ELSE 0
    BY <1>1, <1>2, <1>3, <1>4, EmittedGrows DEF UpdateCommit
  <1>7. \A p \in ShipmentIds : /\ emitted[p]["ShipmentShipped"] \in Nat
                               /\ emitted[p]["ShipmentCanceled"] \in Nat
    BY <1>3 DEF RowTypes
  <1>8. \A p \in ShipmentIds :
            /\ emitted'[p]["ShipmentShipped"] = emitted[p]["ShipmentShipped"]
                 + IF p = q.shipment /\ q.op = "ship" THEN 1 ELSE 0
            /\ emitted'[p]["ShipmentCanceled"] = emitted[p]["ShipmentCanceled"]
                 + IF p = q.shipment /\ q.op = "cancel" THEN 1 ELSE 0
    BY <1>1, <1>4, <1>6
  <1>9. \A p \in ShipmentIds :
            shipment'[p] = IF p = q.shipment THEN Target[q.op] ELSE shipment[p]
    BY <1>3, <1>5 DEF RowTypes
  <1>10. RowTypes'
    BY <1>1, <1>2, <1>3, <1>4, <1>5, <1>6 DEF RowTypes, Statuses
  <1>11. RowsAreConsistent'
    <2> SUFFICES ASSUME NEW p \in ShipmentIds
                 PROVE  /\ shipment'[p] = "NONE" => origin'[p] = NoRequest
                        /\ shipment'[p] = "SHIPPED" => emitted'[p]["ShipmentShipped"] > 0
                        /\ shipment'[p] = "CANCELED" => emitted'[p]["ShipmentCanceled"] > 0
      BY DEF RowsAreConsistent
    <2>1. CASE p = q.shipment
      BY <2>1, <1>1, <1>4, <1>7, <1>8, <1>9, SMT
    <2>2. CASE p # q.shipment
      BY <2>2, <1>3, <1>5, <1>7, <1>8, <1>9, SMT DEF RowsAreConsistent
    <2> QED
      BY <2>1, <2>2
  <1>12. OneShipmentPerKey'
    BY <1>3, <1>5 DEF OneShipmentPerKey
  <1>13. ShippedOnce'
    <2> SUFFICES ASSUME NEW p \in ShipmentIds, p \notin raced'
                 PROVE  emitted'[p]["ShipmentShipped"]
                          = IF shipment'[p] = "SHIPPED" THEN 1 ELSE 0
      BY DEF ShippedOnce
    <2>1. p \notin raced /\ (p = q.shipment => shipment[p] = handler[h].seen)
      BY <1>5
    <2>2. emitted[p]["ShipmentShipped"] = IF shipment[p] = "SHIPPED" THEN 1 ELSE 0
      BY <1>3, <2>1 DEF ShippedOnce
    <2>3. CASE p = q.shipment
      <3>1. shipment[p] # "SHIPPED"
        BY <1>1, <2>1, <2>3 DEF Settled
      <3> QED
        BY <2>2, <2>3, <3>1, <1>1, <1>4, <1>8, <1>9, SMT
    <2>4. CASE p # q.shipment
      BY <2>2, <2>4, <1>7, <1>8, <1>9, SMT
    <2> QED
      BY <2>3, <2>4
  <1>14. StaysFulfilled
    <2> SUFFICES ASSUME NEW r \in Requests, Fulfilled(r) PROVE Fulfilled(r)'
      BY DEF StaysFulfilled
    <2>1. CASE r.op = "create"
      BY <2>1, <1>5 DEF Fulfilled, OfKey, HasKey
    <2>2. CASE r.op \in {"cancel", "ship"}
      <3>1. r.shipment \in ShipmentIds
        BY <2>2, RequestFields
      <3>2. /\ emitted'[r.shipment]["ShipmentShipped"] >= emitted[r.shipment]["ShipmentShipped"]
            /\ emitted'[r.shipment]["ShipmentCanceled"] >= emitted[r.shipment]["ShipmentCanceled"]
        BY <3>1, <1>7, <1>8, SMT
      <3>3. /\ emitted'[r.shipment]["ShipmentShipped"] \in Nat
            /\ emitted'[r.shipment]["ShipmentCanceled"] \in Nat
        BY <3>1, <1>6
      <3>4. /\ emitted[r.shipment]["ShipmentShipped"] > 0
                 => emitted'[r.shipment]["ShipmentShipped"] > 0
            /\ emitted[r.shipment]["ShipmentCanceled"] > 0
                 => emitted'[r.shipment]["ShipmentCanceled"] > 0
        BY <3>1, <3>2, <3>3, <1>7, SMT
      <3>5. CASE r.op = "ship"
        BY <3>4, <3>5 DEF Fulfilled
      <3>6. CASE r.op = "cancel"
        BY <3>4, <3>6 DEF Fulfilled
      <3> QED
        BY <2>2, <3>5, <3>6
    <2> QED
      BY <2>1, <2>2, RequestFields
  <1>15. Fulfilled(q)'
    <2>1. /\ q.op = "ship" => emitted'[q.shipment]["ShipmentShipped"] > 0
          /\ q.op = "cancel" => emitted'[q.shipment]["ShipmentCanceled"] > 0
      BY <1>2, <1>7, <1>8, SMT
    <2>2. CASE q.op = "ship"
      BY <2>1, <2>2 DEF Fulfilled
    <2>3. CASE q.op = "cancel"
      BY <2>1, <2>3 DEF Fulfilled
    <2> QED
      BY <1>1, <2>2, <2>3
  <1>16. handler' \in [Handlers -> HandlerStates] /\ HandlersKnow'
    <2> DEFINE st == [pc |-> "responding", req |-> q, answer |-> "ok"]
    <2>1. st \in HandlerStates
      BY SMT DEF HandlerStates
    <2>2. Goto(h, st)
      BY <1>1 DEF UpdateCommit, Reply
    <2> QED
      BY <1>14, <1>15, <2>1, <2>2, GotoInv
  <1>17. CacheIsTrue' /\ OkIsTrue'
    BY <1>5, <1>14, AnswersKept
  <1> QED
    BY <1>5, <1>10, <1>11, <1>12, <1>13, <1>16, <1>17
       DEF IInv, RowInv, ProcessInv, ProcessTypes

-----------------------------------------------------------------------------
(* The theorems.                                                           *)

LEMMA InitIInv == ShippingInit => IInv
  <1> SUFFICES ASSUME ShippingInit PROVE IInv
    OBVIOUS
  <1>1. RowTypes
    BY DEF ShippingInit, RowTypes, Statuses, EventTypes
  <1>2. ProcessTypes
    BY BoundsAssumption DEF ShippingInit, ProcessTypes, HandlerStates
  <1>3. RowsAreConsistent /\ OneShipmentPerKey /\ ShippedOnce
    BY DEF ShippingInit, RowsAreConsistent, OneShipmentPerKey, ShippedOnce, EventTypes
  <1>4. HandlersKnow /\ CacheIsTrue /\ OkIsTrue
    BY DEF ShippingInit, HandlersKnow, HandlerKnows, CacheIsTrue, OkIsTrue
  <1> QED
    BY <1>1, <1>2, <1>3, <1>4 DEF IInv, RowInv, ProcessInv

\* No step breaks the inductive invariant.
LEMMA NextIInv == IInv /\ [ShippingNext]_shippingVars => IInv'
  <1> SUFFICES ASSUME IInv, [ShippingNext]_shippingVars PROVE IInv'
    OBVIOUS
  <1>1. ASSUME NEW h \in Handlers, NEW q \in Requests, Arrive(h, q) PROVE IInv'
    BY <1>1, ArriveIInv
  <1>2. ASSUME NEW h \in Handlers, Work(h) \/ Fail(h) PROVE IInv'
    BY <1>2, CreateReadIInv, CreateCommitIInv, UpdateReadIInv, UpdateCommitIInv,
       RespondIInv, FailIInv DEF Work
  <1>3. ASSUME NEW e \in cache, Expire(e) PROVE IInv'
    BY <1>3, ExpireIInv
  <1>4. CASE Crash
    BY <1>4, CrashIInv
  <1>5. CASE UNCHANGED shippingVars
    <2>1. RowInv' /\ StaysFulfilled /\ UNCHANGED <<cache, arrivals, handler, told>>
      BY <1>5, RowsKept DEF shippingVars, rows
    <2>2. CacheIsTrue' /\ OkIsTrue'
      BY <2>1, AnswersKept
    <2>3. HandlersKnow'
      <3>1. \A g \in Handlers : handler[g].pc = "responding" => handler[g].req \in Requests
        BY HandlerFields DEF IInv, ProcessInv
      <3> QED
        BY <2>1, <3>1 DEF IInv, ProcessInv, HandlersKnow, HandlerKnows, StaysFulfilled
    <2> QED
      BY <2>1, <2>2, <2>3 DEF IInv, ProcessInv, ProcessTypes
  <1> QED
    BY <1>1, <1>2, <1>3, <1>4, <1>5 DEF ShippingNext

\* The inductive invariant holds in every state.
LEMMA ShippingInvariant == ShippingSpec => []IInv
  BY InitIInv, NextIInv, PTL DEF ShippingSpec

\* The variables of shipping-svc keep their types.
THEOREM ShippingTypeCorrect == ShippingSpec => []ShippingTypeOK
  <1>1. IInv => ShippingTypeOK
    BY TypeParts DEF IInv, RowInv, ProcessInv
  <1> QED
    BY <1>1, ShippingInvariant, PTL

\* A key makes at most one shipment (getByIdempotencyKey, uq_shipments_idem).
THEOREM ShippingOneShipmentPerKey == ShippingSpec => []OneShipmentPerKey
  <1>1. IInv => OneShipmentPerKey
    BY DEF IInv, RowInv
  <1> QED
    BY <1>1, ShippingInvariant, PTL

\* An "ok" from a handler or from Redis is true: the transaction of the
\* request, or of one before it, has committed.
THEOREM ShippingOkIsTrue == ShippingSpec => []OkIsTrue
  <1>1. IInv => OkIsTrue
    BY DEF IInv, ProcessInv
  <1> QED
    BY <1>1, ShippingInvariant, PTL

\* A shipment whose updates were not lost is announced as shipped once, and
\* exactly while its row says so (markShipped, cancel).
THEOREM ShippingShippedOnce == ShippingSpec => []ShippedOnce
  <1>1. IInv => ShippedOnce
    BY DEF IInv, RowInv
  <1> QED
    BY <1>1, ShippingInvariant, PTL
=============================================================================
