-------------------------- MODULE FulfilmentProofs --------------------------
(***************************************************************************)
(* Theorems about Fulfilment, for any shipments, orders, requests, calls,  *)
(* messages and failures: an order is SHIPPED only if one of its shipments *)
(* was shipped; shipping-svc and the ledger behave in it as they do alone; *)
(* and an order gives a bounded number of notices.                         *)
(*                                                                         *)
(* The first fact travels: a transaction of shipping-svc that announces    *)
(* ShipmentShipped makes it true of the order of the shipment; the ledger  *)
(* holds rows of announced events only, the inbox of orders-svc messages   *)
(* from such rows only, and the transactions of orders-svc decide on       *)
(* SHIPPED from such messages only.  No step makes it false again, since   *)
(* announcements are not taken back and a shipment keeps its order.        *)
(***************************************************************************)
EXTENDS Fulfilment, ShippingProofs, SumTheorems

-----------------------------------------------------------------------------
(* The inductive invariant.                                                *)

\* Shipment s of order o was shipped.
Ships(s, o) ==
    origin[s] # NoRequest /\ origin[s].order = o /\ emitted[s]["ShipmentShipped"] > 0

ReallyShipped(o) == \E s \in ShipmentIds : Ships(s, o)

\* A handler updates a shipment that exists.
Knows(h) == handler[h].pc = "updating" => shipment[handler[h].req.shipment] # "NONE"

ShipmentsKnown ==
    /\ \A h \in Handlers : Knows(h)
    /\ \A s \in ShipmentIds :
         /\ shipment[s] # "NONE" => origin[s] # NoRequest
         /\ emitted[s]["ShipmentShipped"] > 0 => shipment[s] # "NONE"

LedgerInv ==
    /\ phase = [e \in Events |-> phase[e]]
    /\ \A e \in Events : phase[e] # "absent" => emitted[e[1]]["ShipmentShipped"] > 0

OrdersInv ==
    /\ status = [o \in OrderIds |-> status[o]]
    /\ inbox = [m \in Messages |-> inbox[m]]
    /\ tx = [t \in Txs |-> tx[t]]
    /\ \A o \in OrderIds : status[o] = "SHIPPED" => ReallyShipped(o)
    /\ \A m \in Messages : inbox[m] > 0 => ReallyShipped(m.order)
    /\ \A t \in Txs : tx[t].op = "shipped" => ReallyShipped(tx[t].order)

FulfilmentInv == IInv /\ ShipmentsKnown /\ LedgerInv /\ OrdersInv

-----------------------------------------------------------------------------
(* The steps of shipping-svc.                                              *)

\* What was shipped stays shipped, and its order its order.
Kept ==
    \A s \in ShipmentIds :
        /\ emitted[s]["ShipmentShipped"] > 0 => emitted'[s]["ShipmentShipped"] > 0
        /\ shipment[s] # "NONE" => shipment'[s] # "NONE"
        /\ origin[s] # NoRequest => origin'[s] = origin[s]

LEMMA KeptRows ==
    ASSUME ShipmentsKnown, UNCHANGED rows
    PROVE  /\ Kept
           /\ \A s \in ShipmentIds :
                /\ shipment'[s] # "NONE" => origin'[s] # NoRequest
                /\ emitted'[s]["ShipmentShipped"] > 0 => shipment'[s] # "NONE"
  BY DEF ShipmentsKnown, Kept, rows

\* A step of handler h, which goes on to update only a shipment it has seen.
LEMMA KnowsAfter ==
    ASSUME IInv, ShipmentsKnown, Kept, NEW h \in Handlers, NEW st \in HandlerStates,
           Goto(h, st),
           st.pc = "updating" =>
             st.req.shipment \in ShipmentIds /\ shipment[st.req.shipment] # "NONE"
    PROVE  \A g \in Handlers : Knows(g)'
  <1> SUFFICES ASSUME NEW g \in Handlers PROVE Knows(g)'
    OBVIOUS
  <1>1. handler' = [handler EXCEPT ![h] = st] /\ handler \in [Handlers -> HandlerStates]
    BY DEF Goto, IInv, ProcessInv, ProcessTypes
  <1>2. CASE g = h
    <2>1. handler'[g] = st
      BY <1>1, <1>2
    <2> QED
      BY <2>1 DEF Knows, Kept
  <1>3. CASE g # h
    <2>1. handler'[g] = handler[g] /\ Knows(g)
      BY <1>1, <1>3 DEF ShipmentsKnown
    <2>2. ASSUME handler[g].pc = "updating"
          PROVE  shipment'[handler[g].req.shipment] # "NONE"
      <3>1. handler[g].req.op \in {"cancel", "ship"} /\ handler[g].req \in Requests
        BY <2>2, HandlerFields DEF IInv, ProcessInv, HandlersKnow, HandlerKnows
      <3> QED
        BY <2>1, <2>2, <3>1, RequestFields DEF Knows, Kept
    <2> QED
      BY <2>1, <2>2 DEF Knows
  <1> QED
    BY <1>2, <1>3

LEMMA CommitKept ==
    ASSUME IInv, ShipmentsKnown, NEW h \in Handlers,
           (\E s \in ShipmentIds : CreateCommit(h, s)) \/ UpdateCommit(h)
    PROVE  /\ Kept
           /\ \A s \in ShipmentIds :
                /\ shipment'[s] # "NONE" => origin'[s] # NoRequest
                /\ emitted'[s]["ShipmentShipped"] > 0 => shipment'[s] # "NONE"
  <1>1. RowTypes /\ RowsAreConsistent
    BY DEF IInv, RowInv
  <1>2. \A s \in ShipmentIds : emitted[s]["ShipmentShipped"] \in Nat
    BY <1>1 DEF RowTypes, EventTypes
  <1>3. ASSUME NEW s \in ShipmentIds, CreateCommit(h, s)
        PROVE  /\ Kept
               /\ \A p \in ShipmentIds :
                    /\ shipment'[p] # "NONE" => origin'[p] # NoRequest
                    /\ emitted'[p]["ShipmentShipped"] > 0 => shipment'[p] # "NONE"
    <2>1. handler[h].req \in Requests /\ handler[h].req # NoRequest
      BY <1>3, HandlerFields, NoRequestAssumption DEF CreateCommit, IInv, ProcessInv
    <2>2. \A p \in ShipmentIds :
            /\ shipment'[p] = IF p = s THEN "CREATED" ELSE shipment[p]
            /\ origin'[p] = IF p = s THEN handler[h].req ELSE origin[p]
      BY <1>1, <1>3 DEF CreateCommit, RowTypes
    <2>3. ASSUME NEW p \in ShipmentIds
          PROVE  emitted'[p]["ShipmentShipped"] = emitted[p]["ShipmentShipped"]
      <3>1. CASE Emit(s, "ShipmentCreated")
        <4>1. emitted'[p]["ShipmentShipped"] = emitted[p]["ShipmentShipped"] + 0
          BY <1>1, <3>1, EmittedGrows DEF EventTypes
        <4> QED
          BY <1>2, <4>1
      <3>2. CASE UNCHANGED emitted
        BY <3>2
      <3> QED
        BY <1>3, <3>1, <3>2 DEF CreateCommit
    <2>4. origin[s] = NoRequest
      BY <1>1, <1>3 DEF CreateCommit, IsFresh, RowsAreConsistent
    <2>5. Kept
      BY <2>1, <2>2, <2>3, <2>4 DEF Kept
    <2>6. \A p \in ShipmentIds :
            /\ shipment'[p] # "NONE" => origin'[p] # NoRequest
            /\ emitted'[p]["ShipmentShipped"] > 0 => shipment'[p] # "NONE"
      BY <2>1, <2>2, <2>3 DEF ShipmentsKnown
    <2> QED
      BY <2>5, <2>6
  <1>4. CASE UpdateCommit(h)
    <2> DEFINE s == handler[h].req.shipment
               ev == Announcement[Target[handler[h].req.op]]
    <2>1. handler[h].req \in Requests /\ handler[h].req.op \in {"cancel", "ship"}
      BY <1>4, HandlerFields DEF UpdateCommit, IInv, ProcessInv, HandlersKnow, HandlerKnows
    <2>2. s \in ShipmentIds /\ shipment[s] # "NONE"
      BY <1>4, <2>1, RequestFields DEF UpdateCommit, ShipmentsKnown, Knows
    <2>3. ev \in EventTypes /\ Target[handler[h].req.op] # "NONE"
      BY <2>1 DEF Announcement, Target, EventTypes
    <2>4. \A p \in ShipmentIds : p # s => shipment'[p] = shipment[p]
      BY <1>1, <1>4 DEF UpdateCommit, RowTypes
    <2>5. shipment'[s] # "NONE" /\ UNCHANGED origin
      BY <1>1, <1>4, <2>2, <2>3 DEF UpdateCommit, RowTypes
    <2>6. \A p \in ShipmentIds : emitted'[p]["ShipmentShipped"] = emitted[p]["ShipmentShipped"]
             + IF p = s /\ "ShipmentShipped" = ev THEN 1 ELSE 0
      BY <1>1, <1>4, <2>2, <2>3, EmittedGrows DEF UpdateCommit, EventTypes
    <2>7. ASSUME NEW p \in ShipmentIds
          PROVE  /\ emitted[p]["ShipmentShipped"] > 0 => emitted'[p]["ShipmentShipped"] > 0
                 /\ p # s => emitted'[p]["ShipmentShipped"] = emitted[p]["ShipmentShipped"]
      BY <1>2, <2>6
    <2>8. Kept
      BY <2>4, <2>5, <2>7 DEF Kept
    <2>9. \A p \in ShipmentIds :
            /\ shipment'[p] # "NONE" => origin'[p] # NoRequest
            /\ emitted'[p]["ShipmentShipped"] > 0 => shipment'[p] # "NONE"
      BY <2>2, <2>4, <2>5, <2>7 DEF ShipmentsKnown
    <2> QED
      BY <2>8, <2>9
  <1> QED
    BY <1>3, <1>4

\* Every step of shipping-svc keeps what was shipped.
LEMMA ShippingKeeps ==
    ASSUME IInv, ShipmentsKnown, [ShippingNext]_shippingVars
    PROVE  ShipmentsKnown' /\ Kept
  <1>1. ASSUME NEW h \in Handlers, NEW q \in Requests, Arrive(h, q)
        PROVE  ShipmentsKnown' /\ Kept
    <2>1. UNCHANGED rows
      BY <1>1 DEF Arrive
    <2>2. Kept
      BY <2>1, KeptRows
    <2>3. ASSUME NEW g \in Handlers PROVE Knows(g)'
      <3>1. handler' = handler \/ handler' = [handler EXCEPT ![h] = [pc |-> "begun", req |-> q]]
        BY <1>1 DEF Arrive, Goto
      <3>3. Knows(g) /\ shipment' = shipment
        BY <2>1 DEF ShipmentsKnown, rows
      <3>4. handler'[g] = handler[g] \/ handler'[g] = [pc |-> "begun", req |-> q]
        BY <3>1 DEF IInv, ProcessInv, ProcessTypes
      <3>5. CASE handler'[g] = handler[g]
        BY <3>3, <3>5 DEF Knows
      <3>6. CASE handler'[g] = [pc |-> "begun", req |-> q]
        BY <3>6 DEF Knows
      <3> QED
        BY <3>4, <3>5, <3>6
    <2> QED
      BY <2>1, <2>2, <2>3, KeptRows DEF ShipmentsKnown
  <1>2. ASSUME NEW h \in Handlers, Work(h) \/ Fail(h)
        PROVE  ShipmentsKnown' /\ Kept
    <2>1. Kept /\ \A s \in ShipmentIds :
                    /\ shipment'[s] # "NONE" => origin'[s] # NoRequest
                    /\ emitted'[s]["ShipmentShipped"] > 0 => shipment'[s] # "NONE"
      <3>1. CASE UNCHANGED rows
        BY <3>1, KeptRows
      <3>2. CASE (\E s \in ShipmentIds : CreateCommit(h, s)) \/ UpdateCommit(h)
        BY <3>2, CommitKept
      <3> QED
        BY <1>2, <3>1, <3>2 DEF Work, CreateRead, UpdateRead, Respond, Fail
    <2>2. handler[h].pc # "idle" /\ handler[h].req \in Requests
      <3>1. handler[h].pc # "idle"
        BY <1>2 DEF Work, CreateRead, CreateCommit, UpdateRead, UpdateCommit, Respond, Fail
      <3> QED
        BY <3>1, HandlerFields DEF IInv, ProcessInv
    <2> DEFINE q == handler[h].req
               Known == \A g \in Handlers : Knows(g)'
    <2>3. ASSUME NEW st \in HandlerStates, Goto(h, st),
                 st.pc = "updating" =>
                   st.req.shipment \in ShipmentIds /\ shipment[st.req.shipment] # "NONE"
          PROVE  Known
      BY <2>1, <2>2, <2>3, KnowsAfter
    <2>4. Known
      <3>1. ASSUME NEW a \in Answers, Reply(h, a) PROVE Known
        <4> DEFINE st == [pc |-> "responding", req |-> q, answer |-> a]
        <4>1. st \in HandlerStates
          BY <2>2, SMT DEF HandlerStates
        <4>2. Goto(h, st) /\ st.pc # "updating"
          BY <3>1 DEF Reply
        <4> HIDE DEF st
        <4> QED
          BY <2>3, <4>1, <4>2
      <3>2. ASSUME Goto(h, [pc |-> "inserting", req |-> q]) PROVE Known
        <4> DEFINE st == [pc |-> "inserting", req |-> q]
        <4>1. st \in HandlerStates
          BY <2>2, SMT DEF HandlerStates
        <4>2. Goto(h, st) /\ st.pc # "updating"
          BY <3>2
        <4> HIDE DEF st
        <4> QED
          BY <2>3, <4>1, <4>2
      <3>3. ASSUME Goto(h, [pc |-> "updating", req |-> q, seen |-> shipment[q.shipment]]),
                   q.op \in {"cancel", "ship"}, shipment[q.shipment] # "NONE"
            PROVE  Known
        <4> DEFINE st == [pc |-> "updating", req |-> q, seen |-> shipment[q.shipment]]
        <4>1. q.shipment \in ShipmentIds /\ shipment[q.shipment] \in Statuses
          BY <2>2, <3>3, RequestFields DEF IInv, RowInv, RowTypes
        <4>2. st \in HandlerStates
          BY <2>2, <4>1, SMT DEF HandlerStates
        <4>3. Goto(h, st) /\ st.req = q
          BY <3>3
        <4> HIDE DEF st
        <4> QED
          BY <2>3, <3>3, <4>1, <4>2, <4>3
      <3>4. ASSUME Goto(h, Idle) PROVE Known
        <4> DEFINE st == Idle
        <4>1. st \in HandlerStates /\ st.pc = "idle" /\ Goto(h, st)
          BY <3>4 DEF HandlerStates, Idle
        <4> HIDE DEF st
        <4> QED
          BY <2>3, <4>1
      <3> HIDE DEF Known
      <3>5. CASE CreateRead(h)
        BY <3>1, <3>2, <3>5 DEF CreateRead, Answers
      <3>6. ASSUME NEW s \in ShipmentIds, CreateCommit(h, s) PROVE Known
        BY <3>1, <3>6 DEF CreateCommit, Answers
      <3>7. CASE UpdateRead(h)
        BY <3>1, <3>3, <3>7 DEF UpdateRead, Answers
      <3>8. CASE UpdateCommit(h)
        BY <3>1, <3>8 DEF UpdateCommit, Answers
      <3>9. CASE Respond(h)
        BY <3>4, <3>9 DEF Respond
      <3>10. CASE Fail(h)
        BY <3>1, <3>10 DEF Fail, Answers
      <3> QED
        BY <1>2, <3>5, <3>6, <3>7, <3>8, <3>9, <3>10 DEF Work
    <2> QED
      BY <2>1, <2>4 DEF ShipmentsKnown
  <1>3. ASSUME UNCHANGED rows, UNCHANGED handler \/ handler' = [h \in Handlers |-> Idle]
        PROVE  ShipmentsKnown' /\ Kept
    <2>1. \A g \in Handlers : Knows(g)'
      BY <1>3 DEF ShipmentsKnown, Knows, rows, Idle
    <2> QED
      BY <1>3, <2>1, KeptRows DEF ShipmentsKnown
  <1>4. CASE UNCHANGED shippingVars
    BY <1>3, <1>4 DEF shippingVars, rows
  <1> QED
    BY <1>1, <1>2, <1>3, <1>4 DEF ShippingNext, Expire, Crash

-----------------------------------------------------------------------------
(* The wire, and the steps of orders-svc.                                  *)

LEMMA ShippedStays ==
    ASSUME Kept
    PROVE  \A o : ReallyShipped(o) => ReallyShipped(o)'
  BY DEF Kept, ReallyShipped, Ships

\* A step outside shipping-svc.
LEMMA NothingShipped ==
    ASSUME IInv, ShipmentsKnown, UNCHANGED shippingVars
    PROVE  IInv' /\ ShipmentsKnown' /\ Kept
  BY NextIInv, ShippingKeeps

\* A step outside orders-svc.
LEMMA OrdersWait ==
    ASSUME OrdersInv, Kept, UNCHANGED orderVars
    PROVE  OrdersInv'
  <1>1. UNCHANGED <<status, inbox, tx>>
    BY DEF orderVars
  <1>2. \A o : ReallyShipped(o) => ReallyShipped(o)'
    BY ShippedStays
  <1> QED
    BY <1>1, <1>2 DEF OrdersInv

\* A step that leaves the ledger's phases alone, or ends a row's life.
LEMMA LedgerKept ==
    ASSUME LedgerInv, Kept,
           phase' = [e \in Events |-> phase'[e]],
           \A e \in Events : phase'[e] # "absent" => phase[e] # "absent"
    PROVE  LedgerInv'
  <1>1. \A e \in Events : e[1] \in ShipmentIds
    BY DEF Events
  <1> QED
    BY <1>1 DEF LedgerInv, Kept

LEMMA LedgerWaits ==
    ASSUME LedgerInv, Kept, UNCHANGED phase
    PROVE  LedgerInv'
  BY LedgerKept DEF LedgerInv

LEMMA RecordInv ==
    ASSUME IInv, LedgerInv, Kept, Record
    PROVE  LedgerInv'
  <1>1. CASE UNCHANGED ledgerVars
    BY <1>1, LedgerWaits DEF ledgerVars
  <1>2. ASSUME NEW s \in ShipmentIds, NEW e \in Heard, NEW n \in 1..MaxEvents,
               emitted'[s][e] = emitted[s][e] + 1, Ledger!Record(<<s, e, n>>)
        PROVE  LedgerInv'
    <2> DEFINE r == <<s, e, n>>
    <2>1. phase' = [phase EXCEPT ![r] = "queued"]
      BY <1>2 DEF Ledger!Record
    <2>2. e = "ShipmentShipped" /\ emitted[s][e] \in Nat
      BY DEF Heard, IInv, RowInv, RowTypes, EventTypes
    <2>3. emitted'[s]["ShipmentShipped"] > 0
      BY <1>2, <2>2
    <2>4. phase' = [d \in Events |-> phase'[d]]
          /\ \A d \in Events : d # r => phase'[d] = phase[d]
      BY <2>1 DEF LedgerInv
    <2>5. ASSUME NEW d \in Events, phase'[d] # "absent"
          PROVE  emitted'[d[1]]["ShipmentShipped"] > 0
      <3>1. CASE d = r
        BY <2>3, <3>1
      <3>2. CASE d # r
        <4>1. d[1] \in ShipmentIds
          BY DEF Events
        <4> QED
          BY <2>4, <2>5, <3>2, <4>1 DEF LedgerInv, Kept
      <3> QED
        BY <3>1, <3>2
    <2> QED
      BY <2>4, <2>5 DEF LedgerInv
  <1> QED
    BY <1>1, <1>2 DEF Record

\* A message is sent for an event of a shipment that was shipped.
LEMMA SendInv ==
    ASSUME IInv, ShipmentsKnown, LedgerInv, OrdersInv, NEW e \in Events,
           phase[e] # "absent", inbox' = [inbox EXCEPT ![Message(e[1])] = @ + 1],
           UNCHANGED <<shippingVars, status, tx>>
    PROVE  OrdersInv'
  <1>1. e[1] \in ShipmentIds
    BY DEF Events
  <1>2. ReallyShipped(Message(e[1]).order)
    <2>1. emitted[e[1]]["ShipmentShipped"] > 0 /\ origin[e[1]] # NoRequest
      BY <1>1 DEF LedgerInv, ShipmentsKnown
    <2>2. Message(e[1]).order = origin[e[1]].order
      BY DEF Message
    <2> QED
      BY <1>1, <2>1, <2>2 DEF ReallyShipped, Ships
  <1>3. \A o : ReallyShipped(o) => ReallyShipped(o)'
    BY DEF ReallyShipped, Ships, shippingVars
  <1>4. inbox' = [m \in Messages |-> inbox'[m]]
        /\ \A m \in Messages : m # Message(e[1]) => inbox'[m] = inbox[m]
    BY DEF OrdersInv
  <1>5. ASSUME NEW m \in Messages, inbox'[m] > 0 PROVE ReallyShipped(m.order)'
    BY <1>2, <1>3, <1>4, <1>5 DEF OrdersInv
  <1> QED
    BY <1>3, <1>4, <1>5 DEF OrdersInv

\* What a step of orders-svc has to show: it decides on SHIPPED only for an
\* order that a message or a transaction was about already.
TxMoves ==
    /\ tx' = [t \in Txs |-> tx'[t]]
    /\ \A t \in Txs : tx'[t] = tx[t] \/ (tx'[t].op = "shipped" => ReallyShipped(tx'[t].order))

StatusMoves ==
    /\ status' = [o \in OrderIds |-> status'[o]]
    /\ \A o \in OrderIds : status'[o] = status[o] \/ (status'[o] = "SHIPPED" => ReallyShipped(o))

InboxMoves ==
    /\ inbox' = [m \in Messages |-> inbox'[m]]
    /\ \A m \in Messages : inbox'[m] = inbox[m] \/ inbox[m] > 0

LEMMA OrdersMove ==
    ASSUME OrdersInv, UNCHANGED shippingVars, TxMoves, StatusMoves, InboxMoves
    PROVE  OrdersInv'
  <1>1. \A o : ReallyShipped(o) => ReallyShipped(o)'
    BY DEF ReallyShipped, Ships, shippingVars
  <1>2. ASSUME NEW o \in OrderIds, status'[o] = "SHIPPED" PROVE ReallyShipped(o)'
    BY <1>1, <1>2 DEF OrdersInv, StatusMoves
  <1>3. ASSUME NEW m \in Messages, inbox'[m] > 0 PROVE ReallyShipped(m.order)'
    <2>1. inbox[m] > 0
      BY <1>3 DEF InboxMoves
    <2> QED
      BY <1>1, <2>1 DEF OrdersInv
  <1>4. ASSUME NEW t \in Txs, tx'[t].op = "shipped" PROVE ReallyShipped(tx[t].order)'
    <2>1. ReallyShipped(tx'[t].order)
      BY <1>4 DEF OrdersInv, TxMoves
    <2> QED
      BY <2>1 DEF ReallyShipped, Ships, shippingVars
  <1> QED
    BY <1>2, <1>3, <1>4 DEF OrdersInv, TxMoves, StatusMoves, InboxMoves

-----------------------------------------------------------------------------
(* The steps of the system.                                                *)

LEMMA StaysPut ==
    ASSUME OrdersInv
    PROVE  /\ UNCHANGED status => StatusMoves
           /\ UNCHANGED inbox => InboxMoves
           /\ UNCHANGED tx => TxMoves
  BY DEF OrdersInv, StatusMoves, InboxMoves, TxMoves

\* An assignment to a transaction, and to a status.
LEMMA TxSetMoves ==
    ASSUME OrdersInv, NEW t \in Txs, NEW r, tx' = [tx EXCEPT ![t] = r],
           r.op = "shipped" => ReallyShipped(r.order)
    PROVE  TxMoves
  BY DEF OrdersInv, TxMoves

LEMMA StatusSetMoves ==
    ASSUME OrdersInv, NEW o, NEW v, status' = [status EXCEPT ![o] = v],
           v = "SHIPPED" => ReallyShipped(o)
    PROVE  StatusMoves
  BY DEF OrdersInv, StatusMoves

\* A transaction that ends.
LEMMA EndMoves ==
    ASSUME OrdersInv, NEW t \in Txs, Ord!End(t)
    PROVE  TxMoves
  <1> DEFINE r == Ord!Idle
  <1>1. tx' = [tx EXCEPT ![t] = r] /\ r.op # "shipped"
    BY DEF Ord!End, Ord!Idle
  <1> HIDE DEF r
  <1> QED
    BY <1>1, TxSetMoves

LEMMA RollbackMoves ==
    ASSUME OrdersInv, NEW t \in Txs, Ord!Rollback(t)
    PROVE  TxMoves /\ StatusMoves
  BY EndMoves, StaysPut DEF Ord!Rollback, Ord!database

LEMMA RequestReadMoves ==
    ASSUME OrdersInv, NEW t \in Txs, NEW o \in OrderIds, NEW k \in OrderKeys,
           Ord!CreateRead(t, o, k) \/ Ord!ApproveRead(t, o, k) \/ Ord!CancelRead(t, o, k)
    PROVE  TxMoves /\ StatusMoves /\ InboxMoves
  <1>1. UNCHANGED <<status, inbox>>
    BY DEF Ord!CreateRead, Ord!ApproveRead, Ord!CancelRead, Ord!database
  <1>2. ASSUME NEW r, Ord!Begin(t, r), r.op # "shipped" PROVE TxMoves
    BY <1>2, TxSetMoves DEF Ord!Begin
  <1>3. CASE Ord!CreateRead(t, o, k)
    <2> DEFINE r == [op |-> "create", order |-> o, key |-> k]
    <2>1. Ord!Begin(t, r) /\ r.op # "shipped"
      BY <1>3 DEF Ord!CreateRead
    <2> HIDE DEF r
    <2> QED
      BY <1>1, <1>2, <2>1, StaysPut
  <1>4. CASE Ord!ApproveRead(t, o, k)
    <2> DEFINE r == [op |-> "approve", order |-> o, key |-> k, seen |-> status[o]]
    <2>1. Ord!Begin(t, r) /\ r.op # "shipped"
      BY <1>4 DEF Ord!ApproveRead
    <2> HIDE DEF r
    <2> QED
      BY <1>1, <1>2, <2>1, StaysPut
  <1>5. CASE Ord!CancelRead(t, o, k)
    <2> DEFINE r == [op |-> "cancel", order |-> o, key |-> k, seen |-> status[o]]
    <2>1. Ord!Begin(t, r) /\ r.op # "shipped"
      BY <1>5 DEF Ord!CancelRead
    <2> HIDE DEF r
    <2> QED
      BY <1>1, <1>2, <2>1, StaysPut
  <1> QED
    BY <1>3, <1>4, <1>5

LEMMA MessageReadMoves ==
    ASSUME OrdersInv, NEW t \in Txs, NEW m \in Messages,
           Ord!PaymentRead(t, m) \/ Ord!ShippingRead(t, m) \/ Ord!CommitRead(t, m)
    PROVE  TxMoves /\ StatusMoves /\ InboxMoves
  <1>1. inbox' = [inbox EXCEPT ![m] = inbox[m] - 1] /\ inbox[m] > 0 /\ UNCHANGED status
    BY DEF Ord!PaymentRead, Ord!ShippingRead, Ord!CommitRead, Ord!Receive, Ord!database
  <1>2. InboxMoves
    BY <1>1 DEF OrdersInv, InboxMoves
  <1>3. ReallyShipped(m.order)
    BY <1>1 DEF OrdersInv
  <1>4. ASSUME NEW r, tx' = [tx EXCEPT ![t] = r], r.op = "shipped" => r.order = m.order
        PROVE  TxMoves
    BY <1>3, <1>4, TxSetMoves
  <1>5. CASE Ord!PaymentRead(t, m)
    <2> DEFINE r == [op |-> "paid", order |-> m.order, seen |-> status[m.order]]
    <2>1. (UNCHANGED tx \/ tx' = [tx EXCEPT ![t] = r]) /\ r.op # "shipped"
      BY <1>5 DEF Ord!PaymentRead
    <2> HIDE DEF r
    <2> QED
      BY <1>1, <1>2, <1>4, <2>1, StaysPut
  <1>6. CASE Ord!ShippingRead(t, m)
    <2> DEFINE r == [op |-> "shipped", order |-> m.order, seen |-> status[m.order]]
    <2>1. tx' = [tx EXCEPT ![t] = r] /\ r.order = m.order
      BY <1>6 DEF Ord!ShippingRead, Ord!Begin
    <2> HIDE DEF r
    <2> QED
      BY <1>1, <1>2, <1>4, <2>1, StaysPut
  <1>7. CASE Ord!CommitRead(t, m)
    <2>1. UNCHANGED tx \/ \E r : tx' = [tx EXCEPT ![t] = r] /\ r.op # "shipped"
      <3> DEFINE seen == progress[m.order][m.sku]
                 next == Ord!AtMost(seen + m.qty, Ord!Required(m.order, m.sku))
                 r == [op |-> "commit", order |-> m.order, sku |-> m.sku,
                       seen |-> seen, next |-> next]
      <3>1. (UNCHANGED tx \/ tx' = [tx EXCEPT ![t] = r]) /\ r.op # "shipped"
        BY <1>7 DEF Ord!CommitRead
      <3> HIDE DEF r
      <3> QED
        BY <3>1
    <2> QED
      BY <1>1, <1>2, <1>4, <2>1, StaysPut
  <1> QED
    BY <1>5, <1>6, <1>7

LEMMA ProceedMoves ==
    ASSUME OrdersInv, NEW t \in Txs, Ord!Proceed(t)
    PROVE  TxMoves /\ StatusMoves /\ InboxMoves
  <1>1. InboxMoves
    BY StaysPut DEF Ord!Proceed, Ord!CreateCommit, Ord!ApproveCommit, Ord!CancelCommit,
       Ord!PaymentCommit, Ord!ShippingCommit, Ord!CommitSave, Ord!CommitCommit
  <1>2. ASSUME NEW o, NEW v, Ord!End(t), v = "SHIPPED" => ReallyShipped(o),
               UNCHANGED status \/ status' = [status EXCEPT ![o] = v]
        PROVE  TxMoves /\ StatusMoves
    BY <1>2, EndMoves, StatusSetMoves, StaysPut
  <1>3. CASE Ord!CreateCommit(t)
    <2> DEFINE o == tx[t].order
               v == "PENDING"
    <2>1. CASE Ord!Rollback(t)
      BY <1>1, <2>1, RollbackMoves
    <2>2. CASE ~Ord!Rollback(t)
      <3>1. Ord!End(t) /\ status' = [status EXCEPT ![o] = v]
        BY <1>3, <2>2 DEF Ord!CreateCommit
      <3>2. v # "SHIPPED"
        OBVIOUS
      <3> HIDE DEF o, v
      <3>3. TxMoves
        BY <3>1, EndMoves
      <3>4. StatusMoves
        BY <3>1, <3>2, StatusSetMoves
      <3> QED
        BY <1>1, <3>3, <3>4
    <2> QED
      BY <2>1, <2>2
  <1>4. CASE Ord!ApproveCommit(t)
    BY <1>1, <1>2, <1>4, RollbackMoves DEF Ord!ApproveCommit
  <1>5. CASE Ord!CancelCommit(t)
    BY <1>1, <1>2, <1>5, RollbackMoves DEF Ord!CancelCommit
  <1>6. CASE Ord!PaymentCommit(t)
    <2> DEFINE o == tx[t].order
               v == "PAID"
    <2>1. Ord!End(t) /\ status' = [status EXCEPT ![o] = v]
      BY <1>6 DEF Ord!PaymentCommit
    <2>2. v # "SHIPPED"
      OBVIOUS
    <2> HIDE DEF o, v
    <2>3. TxMoves
      BY <2>1, EndMoves
    <2>4. StatusMoves
      BY <2>1, <2>2, StatusSetMoves
    <2> QED
      BY <1>1, <2>3, <2>4
  <1>7. CASE Ord!ShippingCommit(t)
    <2>1. ReallyShipped(tx[t].order)
      BY <1>7 DEF Ord!ShippingCommit, OrdersInv
    <2> QED
      BY <1>1, <1>2, <1>7, <2>1 DEF Ord!ShippingCommit
  <1>8. CASE Ord!CommitSave(t)
    <2>1. CASE Ord!Rollback(t)
      BY <1>1, <2>1, RollbackMoves
    <2>2. CASE ~Ord!Rollback(t)
      <3> DEFINE r == [op |-> "saved", order |-> tx[t].order, sku |-> tx[t].sku,
                       next |-> tx[t].next,
                       read |-> [progress[tx[t].order] EXCEPT ![tx[t].sku] = tx[t].seen]]
      <3>1. tx' = [tx EXCEPT ![t] = r] /\ r.op # "shipped" /\ UNCHANGED status
        BY <1>8, <2>2 DEF Ord!CommitSave, Ord!database
      <3> HIDE DEF r
      <3> QED
        BY <1>1, <3>1, TxSetMoves, StaysPut
    <2> QED
      BY <2>1, <2>2
  <1>9. CASE Ord!CommitCommit(t)
    BY <1>1, <1>9, EndMoves, StaysPut DEF Ord!CommitCommit
  <1> QED
    BY <1>3, <1>4, <1>5, <1>6, <1>7, <1>8, <1>9 DEF Ord!Proceed

LEMMA OrdersStepInv ==
    ASSUME OrdersInv, UNCHANGED shippingVars, NEW t \in Txs,
           Ord!Start(t) \/ Ord!Proceed(t) \/ Ord!Fail(t)
    PROVE  OrdersInv'
  <1>1. TxMoves /\ StatusMoves /\ InboxMoves
    <2>1. CASE Ord!Start(t)
      BY <2>1, RequestReadMoves, MessageReadMoves DEF Ord!Start
    <2>2. CASE Ord!Proceed(t)
      BY <2>2, ProceedMoves
    <2>3. CASE Ord!Fail(t)
      BY <2>3, RollbackMoves, StaysPut DEF Ord!Fail
    <2> QED
      BY <2>1, <2>2, <2>3
  <1> QED
    BY <1>1, OrdersMove

LEMMA FulfilmentInit == Init => FulfilmentInv
  <1> SUFFICES ASSUME Init PROVE FulfilmentInv
    OBVIOUS
  <1>1. IInv
    BY InitIInv DEF Init
  <1>2. ShipmentsKnown
    BY DEF Init, ShippingInit, ShipmentsKnown, Knows, EventTypes, Idle
  <1>3. LedgerInv
    BY DEF Init, Ledger!Init, LedgerInv
  <1>4. OrdersInv
    BY DEF Init, Ord!Init, Ord!Idle, OrdersInv
  <1> QED
    BY <1>1, <1>2, <1>3, <1>4 DEF FulfilmentInv

LEMMA FulfilmentNext == FulfilmentInv /\ [Next]_vars => FulfilmentInv'
  <1> SUFFICES ASSUME FulfilmentInv, [Next]_vars PROVE FulfilmentInv'
    OBVIOUS
  <1>0. IInv /\ ShipmentsKnown /\ LedgerInv /\ OrdersInv
    BY DEF FulfilmentInv
  <1>1. ASSUME UNCHANGED shippingVars
        PROVE  IInv' /\ ShipmentsKnown' /\ Kept
    BY <1>0, <1>1, NothingShipped
  <1>2. ASSUME NEW h \in Handlers, NEW q \in Requests, Request(h, q) PROVE FulfilmentInv'
    <2>1. ShippingNext /\ UNCHANGED <<ledgerVars, orderVars>>
      BY <1>2 DEF Request, ShippingNext
    <2> QED
      BY <1>0, <2>1, NextIInv, ShippingKeeps, LedgerWaits, OrdersWait
         DEF FulfilmentInv, ledgerVars
  <1>3. ASSUME NEW h \in Handlers, ShippingStep(h) PROVE FulfilmentInv'
    <2>1. ShippingNext /\ Record /\ UNCHANGED orderVars
      BY <1>3 DEF ShippingStep, ShippingNext
    <2> QED
      BY <1>0, <2>1, NextIInv, ShippingKeeps, RecordInv, OrdersWait DEF FulfilmentInv
  <1>4. CASE ShippingFault
    <2>1. ShippingNext /\ UNCHANGED <<ledgerVars, orderVars>>
      BY <1>4 DEF ShippingFault, ShippingNext
    <2> QED
      BY <1>0, <2>1, NextIInv, ShippingKeeps, LedgerWaits, OrdersWait
         DEF FulfilmentInv, ledgerVars
  <1>5. ASSUME NEW e \in Events, Take(e) \/ Settle(e) PROVE FulfilmentInv'
    <2>1. UNCHANGED shippingVars /\ UNCHANGED orderVars
      BY <1>5 DEF Take, Settle
    <2>2. LedgerInv'
      <3>1. phase' = [d \in Events |-> phase'[d]]
        BY <1>0, <1>5 DEF Take, Settle, Ledger!Take, Ledger!Complete, Ledger!GiveBack, LedgerInv
      <3>2. \A d \in Events : phase'[d] # "absent" => phase[d] # "absent"
        BY <1>0, <1>5 DEF Take, Settle, Ledger!Take, Ledger!Complete, Ledger!GiveBack, LedgerInv
      <3> QED
        BY <1>0, <1>1, <2>1, <3>1, <3>2, LedgerKept
    <2> QED
      BY <1>0, <1>1, <2>1, <2>2, OrdersWait DEF FulfilmentInv
  <1>6. ASSUME NEW e \in Events, Send(e) PROVE FulfilmentInv'
    <2>1. UNCHANGED shippingVars /\ UNCHANGED <<status, tx>> /\ UNCHANGED phase
          /\ phase[e] = "held" /\ inbox' = [inbox EXCEPT ![Message(e[1])] = @ + 1]
      BY <1>6 DEF Send, Ledger!Send
    <2> QED
      BY <1>0, <1>1, <2>1, LedgerWaits, SendInv DEF FulfilmentInv
  <1>7. ASSUME NEW e \in Events, SendMissed(e) \/ Strand(e) PROVE FulfilmentInv'
    <2>1. UNCHANGED shippingVars /\ UNCHANGED orderVars /\ UNCHANGED phase
      BY <1>7 DEF SendMissed, Strand, Ledger!Send, ledgerVars
    <2> QED
      BY <1>0, <1>1, <2>1, LedgerWaits, OrdersWait DEF FulfilmentInv
  <1>8. ASSUME NEW t \in Txs, OrdersStep(t) \/ OrdersFail(t) PROVE FulfilmentInv'
    <2>1. UNCHANGED shippingVars /\ UNCHANGED phase
      BY <1>8 DEF OrdersStep, OrdersFail, ledgerVars
    <2> QED
      BY <1>0, <1>1, <1>8, <2>1, LedgerWaits, OrdersStepInv
         DEF FulfilmentInv, OrdersStep, OrdersFail
  <1>9. CASE UNCHANGED vars
    <2>1. UNCHANGED shippingVars /\ UNCHANGED orderVars /\ UNCHANGED phase
      BY <1>9 DEF vars, ledgerVars
    <2> QED
      BY <1>0, <1>1, <2>1, LedgerWaits, OrdersWait DEF FulfilmentInv
  <1> QED
    BY <1>2, <1>3, <1>4, <1>5, <1>6, <1>7, <1>8, <1>9 DEF Next

\* An order is SHIPPED only if one of its shipments was shipped, however the
\* event was delayed or repeated on its way (onShippingEvent, the outbox of
\* shipping-svc, and markShipped).
THEOREM FulfilmentOrderShippedIsShipped == Spec => []OrderShippedIsShipped
  <1>1. FulfilmentInv => OrderShippedIsShipped
    BY DEF FulfilmentInv, OrdersInv, ReallyShipped, Ships, OrderShippedIsShipped
  <1> QED
    BY <1>1, FulfilmentInit, FulfilmentNext, PTL DEF Spec

-----------------------------------------------------------------------------
(* The parts go on inside the whole as they do alone.                      *)

LEMMA StepIsShippingStep == [Next]_vars => [ShippingNext]_shippingVars
  <1> SUFFICES ASSUME [Next]_vars PROVE [ShippingNext]_shippingVars
    OBVIOUS
  <1>1. ASSUME NEW h \in Handlers, NEW q \in Requests, Request(h, q) PROVE ShippingNext
    BY <1>1 DEF Request, ShippingNext
  <1>2. ASSUME NEW h \in Handlers, ShippingStep(h) PROVE ShippingNext
    BY <1>2 DEF ShippingStep, ShippingNext
  <1>3. CASE ShippingFault
    BY <1>3 DEF ShippingFault, ShippingNext
  <1>4. ASSUME NEW e \in Events,
               Take(e) \/ Send(e) \/ SendMissed(e) \/ Settle(e) \/ Strand(e)
        PROVE  UNCHANGED shippingVars
    BY <1>4 DEF Take, Send, SendMissed, Settle, Strand
  <1>5. ASSUME NEW t \in Txs, OrdersStep(t) \/ OrdersFail(t) PROVE UNCHANGED shippingVars
    BY <1>5 DEF OrdersStep, OrdersFail
  <1>6. CASE UNCHANGED vars
    BY <1>6 DEF vars
  <1> QED
    BY <1>1, <1>2, <1>3, <1>4, <1>5, <1>6 DEF Next

LEMMA StepIsLedgerStep == [Next]_vars => [Ledger!Next]_(Ledger!lvars)
  <1> SUFFICES ASSUME [Next]_vars PROVE Ledger!Next \/ UNCHANGED ledgerVars
    BY DEF Ledger!lvars, ledgerVars
  <1>1. ASSUME NEW h \in Handlers, NEW q \in Requests, Request(h, q)
        PROVE  UNCHANGED ledgerVars
    BY <1>1 DEF Request
  <1>2. ASSUME NEW h \in Handlers, ShippingStep(h)
        PROVE  Ledger!Next \/ UNCHANGED ledgerVars
    <2>1. UNCHANGED ledgerVars \/ \E r \in Events : Ledger!Record(r)
      BY <1>2 DEF ShippingStep, Record, Events
    <2> QED
      BY <2>1 DEF Ledger!Next
  <1>3. CASE ShippingFault
    BY <1>3 DEF ShippingFault
  <1>4. ASSUME NEW e \in Events, Take(e) \/ Send(e) \/ SendMissed(e) \/ Settle(e)
        PROVE  Ledger!Next
    <2>1. {e} \in SUBSET Events
      OBVIOUS
    <2>2. \/ Ledger!Send(e) \/ Ledger!GiveBack(e)
          \/ Ledger!Take({e}) \/ Ledger!Complete({e})
      BY <1>4 DEF Take, Send, SendMissed, Settle
    <2> QED
      BY <2>1, <2>2 DEF Ledger!Next
  <1>5. ASSUME NEW t \in Txs, OrdersStep(t) \/ OrdersFail(t) PROVE UNCHANGED ledgerVars
    BY <1>5 DEF OrdersStep, OrdersFail
  <1>6. CASE UNCHANGED vars
    BY <1>6 DEF vars
  <1>7. ASSUME NEW e \in Events, Strand(e) PROVE UNCHANGED ledgerVars
    BY <1>7 DEF Strand
  <1> QED
    BY <1>1, <1>2, <1>3, <1>4, <1>5, <1>6, <1>7 DEF Next

\* shipping-svc, with its outbox and orders-svc behind it, behaves as it does
\* alone: what ShippingProofs proves of it holds in the saga (create, cancel
\* and markShipped of shipping.service.js, whose transactions only add outbox rows).
THEOREM FulfilmentImplementsShipping == Spec => ShippingSpec
  <1>1. Init => ShippingInit
    BY DEF Init
  <1> QED
    BY <1>1, StepIsShippingStep, PTL DEF Spec, ShippingSpec

\* The outbox the saga relies on is the one the dispatcher implements: rows
\* are recorded by committed transactions only, and no step of orders-svc, no
\* crash and no lost message touches them (addOutboxEvent, runOnce).
THEOREM FulfilmentImplementsLedger == Spec => Ledger!Spec
  <1>1. Init => Ledger!Init
    BY DEF Init
  <1> QED
    BY <1>1, StepIsLedgerStep, PTL DEF Spec, Ledger!Spec

-----------------------------------------------------------------------------
(* NoticesAreBounded: what orders-svc announced of an order, is about to   *)
(* announce and has in its inbox was published, and a row is published at  *)
(* most MaxAttempts times.                                                 *)

\* Shipment s is of order o.
IsOf(s, o) == origin[s] # NoRequest /\ origin[s].order = o

\* The message of shipment s about order o, when s is of o.
Notice(o, s) == [type |-> "ShipmentShipped", order |-> o, id |-> s]

\* By order: its shipments' announcements, recorded rows and publications,
\* the messages that wait and the transactions that will announce.
Announced(o) == [s \in ShipmentIds |-> IF IsOf(s, o) THEN emitted[s]["ShipmentShipped"] ELSE 0]
Recorded(o)  == [e \in Events |-> IF IsOf(e[1], o) /\ phase[e] # "absent" THEN 1 ELSE 0]
Published(o) == [e \in Events |-> IF IsOf(e[1], o) THEN pubs[e] ELSE 0]
Waiting(o)   == [s \in ShipmentIds |-> inbox[Notice(o, s)]]
Deciding(o)  == [t \in Txs |-> IF tx[t].op = "shipped" /\ tx[t].order = o THEN 1 ELSE 0]

\* The ledger counts its attempts.
LedgerCounts ==
    /\ tries \in [Events -> Nat] /\ pubs \in [Events -> Nat]
    /\ \A e \in Events :
         /\ phase[e] # "dead" => tries[e] < MaxAttempts
         /\ pubs[e] <= MaxAttempts
         /\ pubs[e] > 0 => phase[e] # "absent"

OrdersCount ==
    /\ inbox \in [Messages -> Nat]
    /\ orderEmitted \in [OrderIds -> [Ord!EventTypes -> Nat]]

Bounded(o) ==
    /\ SumFunctionOnSet(Recorded(o), Events) <= SumFunctionOnSet(Announced(o), ShipmentIds)
    /\ orderEmitted[o]["OrderShipmentShipped"] + SumFunctionOnSet(Deciding(o), Txs)
         + SumFunctionOnSet(Waiting(o), ShipmentIds)
         <= SumFunctionOnSet(Published(o), Events)

NoticesInv == LedgerCounts /\ OrdersCount /\ \A o \in OrderIds : Bounded(o)

LEMMA EventsAreFinite == IsFiniteSet(Events)
  <1> DEFINE P == ShipmentIds \X (1..MaxEvents)
             f == [p \in P |-> <<p[1], "ShipmentShipped", p[2]>>]
  <1>1. IsFiniteSet(P)
    <2>1. IsFiniteSet(1..MaxEvents)
      <3>1. 1 \in Int /\ MaxEvents \in Int
        BY LimitAssumption
      <3> QED
        BY <3>1, FS_Interval
    <2> QED
      BY <2>1, FiniteAssumption, FS_Product
  <1>2. f \in Surjection(P, Events)
    <2>1. f \in [P -> Events]
      BY DEF Events, Heard
    <2>2. ASSUME NEW e \in Events PROVE \E p \in P : f[p] = e
      <3> DEFINE p == <<e[1], e[3]>>
      <3>1. p \in P /\ e = <<e[1], "ShipmentShipped", e[3]>>
        BY DEF Events, Heard
      <3> QED
        BY <3>1
    <2> HIDE DEF f, P
    <2> QED
      BY <2>1, <2>2 DEF Surjection
  <1> QED
    BY <1>1, <1>2, FS_Surjection

LEMMA NoticeIsMessage ==
    ASSUME NEW o \in OrderIds, NEW s \in ShipmentIds
    PROVE  Notice(o, s) \in Messages
  BY DEF Notice, Messages

LEMMA EventFields ==
    ASSUME NEW e \in Events
    PROVE  e[1] \in ShipmentIds /\ e = <<e[1], "ShipmentShipped", e[3]>>
  BY DEF Events, Heard

\* All summands are natural numbers, and so are the sums.
LEMMA CountsAreNat ==
    ASSUME IInv, LedgerCounts, OrdersCount, NEW o \in OrderIds
    PROVE  /\ \A s \in ShipmentIds : Announced(o)[s] \in Nat /\ Waiting(o)[s] \in Nat
           /\ \A e \in Events : Recorded(o)[e] \in Nat /\ Published(o)[e] \in Nat
           /\ \A t \in Txs : Deciding(o)[t] \in Nat
           /\ orderEmitted[o]["OrderShipmentShipped"] \in Nat
  <1>1. \A s \in ShipmentIds : emitted[s]["ShipmentShipped"] \in Nat
    BY DEF IInv, RowInv, RowTypes, EventTypes
  <1>2. \A s \in ShipmentIds : Announced(o)[s] \in Nat
    BY <1>1 DEF Announced
  <1>3. \A s \in ShipmentIds : Waiting(o)[s] \in Nat
    BY NoticeIsMessage DEF Waiting, OrdersCount
  <1>4. \A e \in Events : Recorded(o)[e] \in Nat /\ Published(o)[e] \in Nat
    BY DEF Recorded, Published, LedgerCounts
  <1>5. \A t \in Txs : Deciding(o)[t] \in Nat
    BY DEF Deciding
  <1>6. orderEmitted[o]["OrderShipmentShipped"] \in Nat
    BY DEF OrdersCount, Ord!EventTypes
  <1> QED
    BY <1>2, <1>3, <1>4, <1>5, <1>6

LEMMA SumsAreNat ==
    ASSUME IInv, LedgerCounts, OrdersCount, NEW o \in OrderIds
    PROVE  /\ SumFunctionOnSet(Announced(o), ShipmentIds) \in Nat
           /\ SumFunctionOnSet(Waiting(o), ShipmentIds) \in Nat
           /\ SumFunctionOnSet(Recorded(o), Events) \in Nat
           /\ SumFunctionOnSet(Published(o), Events) \in Nat
           /\ SumFunctionOnSet(Deciding(o), Txs) \in Nat
  <1>1. PICK a, w, r, p, d : /\ a = Announced(o) /\ w = Waiting(o) /\ r = Recorded(o)
                             /\ p = Published(o) /\ d = Deciding(o)
    OBVIOUS
  <1>2. /\ \A s \in ShipmentIds : a[s] \in Nat /\ w[s] \in Nat
        /\ \A e \in Events : r[e] \in Nat /\ p[e] \in Nat
        /\ \A t \in Txs : d[t] \in Nat
    BY <1>1, CountsAreNat
  <1>3. IsFiniteSet(ShipmentIds) /\ IsFiniteSet(Txs) /\ IsFiniteSet(Events)
    BY FiniteAssumption, EventsAreFinite
  <1>4. SumFunctionOnSet(a, ShipmentIds) \in Nat /\ SumFunctionOnSet(w, ShipmentIds) \in Nat
    BY <1>2, <1>3, SumNat
  <1>5. SumFunctionOnSet(r, Events) \in Nat /\ SumFunctionOnSet(p, Events) \in Nat
    BY <1>2, <1>3, SumNat
  <1>6. SumFunctionOnSet(d, Txs) \in Nat
    BY <1>2, <1>3, SumNat
  <1> QED
    BY <1>1, <1>4, <1>5, <1>6

\* The bound follows: a publication is one of MaxAttempts of a recorded row.
LEMMA BoundFollows ==
    ASSUME IInv, LedgerCounts, OrdersCount, NEW o \in OrderIds, Bounded(o)
    PROVE  orderEmitted[o]["OrderShipmentShipped"] <= MaxAttempts * ShippedEvents(o)
  <1>1. PICK r, p : r = Recorded(o) /\ p = Published(o)
    OBVIOUS
  <1>2. \A e \in Events : p[e] \in Nat /\ r[e] \in Nat /\ p[e] <= MaxAttempts * r[e]
    BY <1>1, CountsAreNat, LimitAssumption DEF Recorded, Published, LedgerCounts
  <1>3. SumFunctionOnSet(p, Events) <= MaxAttempts * SumFunctionOnSet(r, Events)
    <2>1. IsFiniteSet(Events) /\ MaxAttempts \in Nat
      BY EventsAreFinite, LimitAssumption
    <2> QED
      BY <1>2, <2>1, SumScaled
  <1>4. ShippedEvents(o) = SumFunctionOnSet(Announced(o), ShipmentIds)
    BY DEF ShippedEvents, SumFunction, Announced, IsOf
  <1> DEFINE n == orderEmitted[o]["OrderShipmentShipped"]
             d == SumFunctionOnSet(Deciding(o), Txs)
             w == SumFunctionOnSet(Waiting(o), ShipmentIds)
             P == SumFunctionOnSet(p, Events)
             R == SumFunctionOnSet(r, Events)
             A == SumFunctionOnSet(Announced(o), ShipmentIds)
  <1>5. n \in Nat /\ d \in Nat /\ w \in Nat /\ P \in Nat /\ R \in Nat /\ A \in Nat
    BY <1>1, CountsAreNat, SumsAreNat
  <1>6. R <= A /\ n + d + w <= P /\ P <= MaxAttempts * R
    BY <1>1, <1>3 DEF Bounded
  <1>7. MaxAttempts \in Nat
    BY LimitAssumption
  <1> HIDE DEF n, d, w, P, R, A
  <1>8. n <= P
    BY <1>5, <1>6
  <1>9. MaxAttempts * R <= MaxAttempts * A
    BY <1>5, <1>6, <1>7
  <1>10. MaxAttempts * R \in Nat /\ MaxAttempts * A \in Nat
    BY <1>5, <1>7
  <1>11. n <= MaxAttempts * A
    BY <1>5, <1>6, <1>8, <1>9, <1>10
  <1> QED
    BY <1>4, <1>11 DEF n, A

-----------------------------------------------------------------------------
(* The counts of shipping-svc and its outbox.                              *)

\* A shipment that was shipped keeps its order.
LEMMA OrderStays ==
    ASSUME ShipmentsKnown, Kept, NEW s \in ShipmentIds, emitted[s]["ShipmentShipped"] > 0
    PROVE  origin'[s] = origin[s] /\ origin[s] # NoRequest
  BY DEF ShipmentsKnown, Kept

\* What a publication counts for is fixed once the row is recorded.
LEMMA PublishedKept ==
    ASSUME ShipmentsKnown, Kept, LedgerInv, LedgerCounts, UNCHANGED pubs, NEW o
    PROVE  Published(o)' = Published(o)
  <1>1. ASSUME NEW e \in Events, pubs[e] # 0 PROVE IsOf(e[1], o)' = IsOf(e[1], o)
    <2>1. phase[e] # "absent" /\ e[1] \in ShipmentIds
      BY <1>1, EventFields DEF LedgerCounts
    <2>2. origin'[e[1]] = origin[e[1]]
      BY <2>1, OrderStays DEF LedgerInv
    <2> QED
      BY <2>2 DEF IsOf
  <1> QED
    BY <1>1 DEF Published

LEMMA RecordedKept ==
    ASSUME ShipmentsKnown, Kept, LedgerInv, NEW o,
           \A e \in Events : (phase'[e] = "absent") = (phase[e] = "absent")
    PROVE  Recorded(o)' = Recorded(o)
  <1>1. ASSUME NEW e \in Events, phase[e] # "absent" PROVE IsOf(e[1], o)' = IsOf(e[1], o)
    <2>1. origin'[e[1]] = origin[e[1]]
      BY <1>1, EventFields, OrderStays DEF LedgerInv
    <2> QED
      BY <2>1 DEF IsOf
  <1> QED
    BY <1>1 DEF Recorded

LEMMA AnnouncedKept ==
    ASSUME IInv, ShipmentsKnown, Kept, NEW o,
           \A s \in ShipmentIds : emitted'[s]["ShipmentShipped"] = emitted[s]["ShipmentShipped"]
    PROVE  Announced(o)' = Announced(o)
  <1>1. ASSUME NEW s \in ShipmentIds, emitted[s]["ShipmentShipped"] # 0
        PROVE  IsOf(s, o)' = IsOf(s, o)
    <2>1. emitted[s]["ShipmentShipped"] > 0
      BY <1>1 DEF IInv, RowInv, RowTypes, EventTypes
    <2> QED
      BY <2>1, OrderStays DEF IsOf
  <1> QED
    BY <1>1 DEF Announced

\* A step that announces nothing and records nothing.
LEMMA QuietNotices ==
    ASSUME IInv, ShipmentsKnown, Kept, LedgerInv, NoticesInv,
           UNCHANGED ledgerVars, UNCHANGED orderVars,
           \A s \in ShipmentIds : emitted'[s]["ShipmentShipped"] = emitted[s]["ShipmentShipped"]
    PROVE  NoticesInv'
  <1>1. UNCHANGED <<phase, tries, pubs, inbox, tx, orderEmitted>>
    BY DEF ledgerVars, orderVars
  <1>2. LedgerCounts' /\ OrdersCount'
    BY <1>1 DEF NoticesInv, LedgerCounts, OrdersCount
  <1>3. ASSUME NEW o \in OrderIds PROVE Bounded(o)'
    <2>1. Bounded(o) /\ LedgerCounts
      BY DEF NoticesInv
    <2>2. Published(o)' = Published(o) /\ Recorded(o)' = Recorded(o)
          /\ Announced(o)' = Announced(o)
      BY <1>1, <2>1, PublishedKept, RecordedKept, AnnouncedKept
    <2>3. Waiting(o)' = Waiting(o) /\ Deciding(o)' = Deciding(o)
      BY <1>1 DEF Waiting, Deciding, Notice
    <2> QED
      BY <1>1, <2>1, <2>2, <2>3 DEF Bounded
  <1> QED
    BY <1>2, <1>3 DEF NoticesInv

\* A commit of shipping-svc announces one shipment as shipped, at most.
OneAnnounced ==
    \/ \A s \in ShipmentIds : emitted'[s]["ShipmentShipped"] = emitted[s]["ShipmentShipped"]
    \/ \E p \in ShipmentIds : \A s \in ShipmentIds :
         emitted'[s]["ShipmentShipped"] =
             emitted[s]["ShipmentShipped"] + IF s = p THEN 1 ELSE 0

LEMMA StepAnnounces ==
    ASSUME IInv, NEW h \in Handlers, Work(h) \/ Fail(h)
    PROVE  OneAnnounced
  <1>1. RowTypes
    BY DEF IInv, RowInv
  <1>2. \A s \in ShipmentIds : emitted[s]["ShipmentShipped"] \in Nat
    BY <1>1 DEF RowTypes, EventTypes
  <1>3. CASE UNCHANGED rows
    BY <1>3 DEF rows, OneAnnounced
  <1>4. ASSUME NEW s \in ShipmentIds, CreateCommit(h, s) PROVE OneAnnounced
    <2>1. CASE Emit(s, "ShipmentCreated")
      <3>1. \A p \in ShipmentIds :
              emitted'[p]["ShipmentShipped"] = emitted[p]["ShipmentShipped"] + 0
        BY <1>1, <2>1, EmittedGrows DEF EventTypes
      <3> QED
        BY <1>2, <3>1 DEF OneAnnounced
    <2>2. CASE UNCHANGED emitted
      BY <2>2 DEF OneAnnounced
    <2> QED
      BY <1>4, <2>1, <2>2 DEF CreateCommit
  <1>5. CASE UpdateCommit(h)
    <2> DEFINE q == handler[h].req
               ev == Announcement[Target[q.op]]
    <2>1. q \in Requests /\ q.op \in {"cancel", "ship"}
      BY <1>5, HandlerFields DEF UpdateCommit, IInv, ProcessInv, HandlersKnow, HandlerKnows
    <2>2. q.shipment \in ShipmentIds /\ ev \in EventTypes
      BY <2>1, RequestFields DEF Announcement, Target, EventTypes
    <2>3. PICK s \in ShipmentIds : s = q.shipment
      BY <2>2
    <2>4. \A p \in ShipmentIds : emitted'[p]["ShipmentShipped"] = emitted[p]["ShipmentShipped"]
             + IF p = s /\ "ShipmentShipped" = ev THEN 1 ELSE 0
      BY <1>1, <1>5, <2>2, <2>3, EmittedGrows DEF UpdateCommit, EventTypes
    <2>5. CASE ev = "ShipmentShipped"
      BY <2>4, <2>5 DEF OneAnnounced
    <2>6. CASE ev # "ShipmentShipped"
      <3>1. \A p \in ShipmentIds :
              emitted'[p]["ShipmentShipped"] = emitted[p]["ShipmentShipped"] + 0
        BY <2>4, <2>6
      <3> QED
        BY <1>2, <3>1 DEF OneAnnounced
    <2> QED
      BY <2>5, <2>6
  <1> QED
    BY <1>3, <1>4, <1>5 DEF Work, CreateRead, UpdateRead, Respond, Fail

\* The announcement of a shipment and its row count together.
LEMMA RecordNotices ==
    ASSUME IInv, ShipmentsKnown, ShipmentsKnown', Kept, LedgerInv, NoticesInv,
           OneAnnounced, Record, UNCHANGED orderVars
    PROVE  NoticesInv'
  <1>0. \A p \in ShipmentIds : emitted[p]["ShipmentShipped"] \in Nat
    BY DEF IInv, RowInv, RowTypes, EventTypes
  <1>1. CASE /\ \A s \in ShipmentIds, e \in Heard : emitted'[s][e] = emitted[s][e]
             /\ UNCHANGED ledgerVars
    BY <1>1, QuietNotices DEF Heard
  <1>2. ASSUME NEW s \in ShipmentIds, NEW h \in Heard, NEW n \in 1..MaxEvents,
               emitted'[s][h] = emitted[s][h] + 1, Ledger!Record(<<s, h, n>>)
        PROVE  NoticesInv'
    <2>0. PICK r \in Events : r = <<s, "ShipmentShipped", n>>
      BY DEF Events, Heard
    <2>1. /\ phase[r] = "absent"
          /\ phase' = [phase EXCEPT ![r] = "queued"]
          /\ UNCHANGED <<tries, pubs, inbox, tx, orderEmitted>>
      BY <1>2, <2>0 DEF Ledger!Record, Heard, orderVars
    <2>2. \A p \in ShipmentIds : emitted'[p]["ShipmentShipped"]
             = emitted[p]["ShipmentShipped"] + IF p = s THEN 1 ELSE 0
      <3>1. emitted'[s]["ShipmentShipped"] = emitted[s]["ShipmentShipped"] + 1
        BY <1>2 DEF Heard
      <3> QED
        BY <1>0, <3>1 DEF OneAnnounced
    <2>3. \A e \in Events : phase'[e] = IF e = r THEN "queued" ELSE phase[e]
      BY <2>1 DEF LedgerInv
    <2>4. LedgerCounts' /\ OrdersCount'
      BY <2>1, <2>3 DEF NoticesInv, LedgerCounts, OrdersCount
    <2>5. ASSUME NEW o \in OrderIds PROVE Bounded(o)'
      <3>1. Bounded(o) /\ LedgerCounts /\ OrdersCount
        BY DEF NoticesInv
      <3>2. Published(o)' = Published(o)
        BY <2>1, <3>1, PublishedKept
      <3>3. Waiting(o)' = Waiting(o) /\ Deciding(o)' = Deciding(o)
        BY <2>1 DEF Waiting, Deciding, Notice
      <3>4. PICK k \in Nat : k = IF IsOf(s, o)' THEN 1 ELSE 0
        OBVIOUS
      <3>5. \A p \in ShipmentIds :
              Announced(o)'[p] = IF p = s THEN Announced(o)[p] + k ELSE Announced(o)[p]
        <4> SUFFICES ASSUME NEW p \in ShipmentIds
                     PROVE  Announced(o)'[p]
                              = IF p = s THEN Announced(o)[p] + k ELSE Announced(o)[p]
          OBVIOUS
        <4>1. emitted[p]["ShipmentShipped"] \in Nat
          BY <1>0
        <4>2. emitted[p]["ShipmentShipped"] # 0 => IsOf(p, o)' = IsOf(p, o)
          BY <4>1, OrderStays DEF IsOf
        <4>3. Announced(o)[p] = IF IsOf(p, o)' THEN emitted[p]["ShipmentShipped"] ELSE 0
          BY <4>2 DEF Announced
        <4>4. Announced(o)'[p] = IF IsOf(p, o)' THEN emitted'[p]["ShipmentShipped"] ELSE 0
          BY DEF Announced
        <4> QED
          BY <2>2, <3>4, <4>1, <4>3, <4>4
      <3>6. \A e \in Events :
              Recorded(o)'[e] = IF e = r THEN Recorded(o)[e] + k ELSE Recorded(o)[e]
        <4> SUFFICES ASSUME NEW e \in Events
                     PROVE  Recorded(o)'[e]
                              = IF e = r THEN Recorded(o)[e] + k ELSE Recorded(o)[e]
          OBVIOUS
        <4>1. CASE e = r
          <5>1. Recorded(o)[e] = 0
            BY <2>1, <4>1 DEF Recorded
          <5>2. Recorded(o)'[e] = k
            BY <2>0, <2>3, <3>4, <4>1 DEF Recorded
          <5> QED
            BY <4>1, <5>1, <5>2
        <4>2. CASE e # r
          <5>1. phase'[e] = phase[e]
            BY <2>3, <4>2
          <5>2. phase[e] # "absent" => IsOf(e[1], o)' = IsOf(e[1], o)
            BY EventFields, OrderStays DEF LedgerInv, IsOf
          <5> QED
            BY <4>2, <5>1, <5>2 DEF Recorded
        <4> QED
          BY <4>1, <4>2
      <3>7. PICK a, b, c, d : /\ a = Announced(o) /\ b = Announced(o)'
                              /\ c = Recorded(o) /\ d = Recorded(o)'
        OBVIOUS
      <3>8. IsFiniteSet(ShipmentIds) /\ IsFiniteSet(Events)
        BY FiniteAssumption, EventsAreFinite
      <3>9. /\ SumFunctionOnSet(b, ShipmentIds) = SumFunctionOnSet(a, ShipmentIds) + k
            /\ SumFunctionOnSet(a, ShipmentIds) \in Nat
        <4>1. /\ \A p \in ShipmentIds : a[p] \in Nat
              /\ \A p \in ShipmentIds : b[p] = IF p = s THEN a[p] + k ELSE a[p]
          BY <3>1, <3>5, <3>7, CountsAreNat
        <4> QED
          BY <3>8, <4>1, SumGrows
      <3>10. /\ SumFunctionOnSet(d, Events) = SumFunctionOnSet(c, Events) + k
             /\ SumFunctionOnSet(c, Events) \in Nat
        <4>1. /\ \A e \in Events : c[e] \in Nat
              /\ \A e \in Events : d[e] = IF e = r THEN c[e] + k ELSE c[e]
          BY <3>1, <3>6, <3>7, CountsAreNat
        <4> QED
          BY <3>8, <4>1, SumGrows
      <3>11. SumFunctionOnSet(Recorded(o)', Events)
               <= SumFunctionOnSet(Announced(o)', ShipmentIds)
        BY <3>1, <3>7, <3>9, <3>10 DEF Bounded
      <3> QED
        BY <2>1, <3>1, <3>2, <3>3, <3>11 DEF Bounded
    <2> QED
      BY <2>4, <2>5 DEF NoticesInv
  <1> QED
    BY <1>1, <1>2 DEF Record

-----------------------------------------------------------------------------
(* The counts of the wire and of orders-svc.                               *)

\* The steps below leave shipping-svc alone.
LEMMA AnnouncedWaits ==
    ASSUME UNCHANGED shippingVars, NEW o
    PROVE  Announced(o)' = Announced(o) /\ \A s : IsOf(s, o)' = IsOf(s, o)
  BY DEF shippingVars, Announced, IsOf

\* An attempt starts, succeeds or fails.
LEMMA AttemptNotices ==
    ASSUME LedgerInv, NoticesInv, NEW e \in Events, Take(e) \/ Settle(e)
    PROVE  NoticesInv'
  <1>0. LedgerCounts /\ MaxAttempts \in Nat
    BY LimitAssumption DEF NoticesInv
  <1>1. UNCHANGED shippingVars /\ UNCHANGED <<pubs, inbox, tx, orderEmitted>>
    BY DEF Take, Settle, Ledger!Take, Ledger!Complete, Ledger!GiveBack, orderVars
  <1>2. \/ UNCHANGED tries /\ \A d \in Events : phase[d] = "dead" => phase'[d] = "dead"
        \/ /\ tries' = [tries EXCEPT ![e] = @ + 1]
           /\ phase[e] = "held"
           /\ \A d \in Events : d # e => phase'[d] = phase[d]
           /\ phase'[e] # "dead" => tries[e] + 1 < MaxAttempts
    <2>1. CASE Take(e)
      BY <2>1 DEF Take, Ledger!Take, LedgerInv
    <2>2. CASE Ledger!Complete({e})
      BY <2>2 DEF Ledger!Complete, LedgerInv
    <2>3. CASE Ledger!GiveBack(e)
      <3>1. tries[e] \in Nat
        BY <1>0 DEF LedgerCounts
      <3> QED
        BY <1>0, <2>3, <3>1 DEF Ledger!GiveBack, LedgerInv
    <2> QED
      BY <2>1, <2>2, <2>3 DEF Settle
  <1>3. \A d \in Events : (phase'[d] = "absent") = (phase[d] = "absent")
    BY DEF Take, Settle, Ledger!Take, Ledger!Complete, Ledger!GiveBack, LedgerInv
  <1>4. LedgerCounts'
    <2>1. tries' \in [Events -> Nat] /\ pubs' \in [Events -> Nat]
      BY <1>0, <1>1, <1>2 DEF LedgerCounts
    <2>2. ASSUME NEW d \in Events, phase'[d] # "dead" PROVE tries'[d] < MaxAttempts
      BY <1>0, <1>2, <2>2 DEF LedgerCounts
    <2> QED
      BY <1>0, <1>1, <1>3, <2>1, <2>2 DEF LedgerCounts
  <1>5. OrdersCount'
    BY <1>1 DEF NoticesInv, OrdersCount
  <1>6. ASSUME NEW o \in OrderIds PROVE Bounded(o)'
    <2>1. Announced(o)' = Announced(o) /\ \A s : IsOf(s, o)' = IsOf(s, o)
      BY <1>1, AnnouncedWaits
    <2>2. Published(o)' = Published(o) /\ Recorded(o)' = Recorded(o)
      BY <1>1, <1>3, <2>1 DEF Published, Recorded
    <2>3. Waiting(o)' = Waiting(o) /\ Deciding(o)' = Deciding(o)
      BY <1>1 DEF Waiting, Deciding, Notice
    <2> QED
      BY <1>1, <2>1, <2>2, <2>3 DEF NoticesInv, Bounded
  <1> QED
    BY <1>4, <1>5, <1>6 DEF NoticesInv

\* A publication is counted once, and puts at most one message in the inbox.
LEMMA SendNotices ==
    ASSUME IInv, ShipmentsKnown, LedgerInv, NoticesInv, NEW e \in Events, Ledger!Send(e),
           UNCHANGED shippingVars, UNCHANGED <<tx, orderEmitted>>,
           inbox' = [inbox EXCEPT ![Message(e[1])] = @ + 1] \/ UNCHANGED inbox
    PROVE  NoticesInv'
  <1>0. LedgerCounts /\ OrdersCount /\ MaxAttempts \in Nat
    BY LimitAssumption DEF NoticesInv
  <1>1. /\ phase[e] = "held" /\ pubs[e] <= tries[e]
        /\ pubs' = [pubs EXCEPT ![e] = @ + 1]
        /\ UNCHANGED <<phase, tries>>
    BY DEF Ledger!Send
  <1>2. tries[e] \in Nat /\ pubs[e] \in Nat /\ tries[e] < MaxAttempts
    BY <1>0, <1>1 DEF LedgerCounts
  <1>3. \A d \in Events : pubs'[d] = IF d = e THEN pubs[e] + 1 ELSE pubs[d]
    BY <1>0, <1>1 DEF LedgerCounts
  <1>4. LedgerCounts'
    <2>1. pubs' \in [Events -> Nat]
      BY <1>0, <1>1 DEF LedgerCounts
    <2>2. pubs[e] + 1 <= MaxAttempts
      BY <1>0, <1>1, <1>2
    <2> QED
      BY <1>0, <1>1, <1>3, <2>1, <2>2 DEF LedgerCounts
  <1>5. OrdersCount'
    BY <1>0 DEF OrdersCount
  <1>6. PICK s \in ShipmentIds : s = e[1]
    BY EventFields
  <1>7. origin[s] # NoRequest
    BY <1>1, <1>6 DEF LedgerInv, ShipmentsKnown
  <1>8. ASSUME NEW o \in OrderIds PROVE Bounded(o)'
    <2>1. Announced(o)' = Announced(o) /\ \A p : IsOf(p, o)' = IsOf(p, o)
      BY AnnouncedWaits
    <2>2. Recorded(o)' = Recorded(o)
      BY <1>1, <2>1 DEF Recorded
    <2>3. Deciding(o)' = Deciding(o)
      BY DEF Deciding
    <2>4. PICK k \in Nat : k = IF IsOf(s, o) THEN 1 ELSE 0
      OBVIOUS
    <2>5. PICK p, q, v, w : /\ p = Published(o) /\ q = Published(o)'
                            /\ v = Waiting(o) /\ w = Waiting(o)'
      OBVIOUS
    <2>6. /\ SumFunctionOnSet(q, Events) = SumFunctionOnSet(p, Events) + k
          /\ SumFunctionOnSet(p, Events) \in Nat
      <3>1. \A d \in Events : q[d] = IF d = e THEN p[d] + k ELSE p[d]
        BY <1>2, <1>3, <1>6, <2>1, <2>4, <2>5 DEF Published
      <3>2. \A d \in Events : p[d] \in Nat
        BY <1>0, <2>5, CountsAreNat
      <3>3. IsFiniteSet(Events)
        BY EventsAreFinite
      <3> QED
        BY <3>1, <3>2, <3>3, SumGrows
    <2>7. PICK n \in Nat : n = IF IsOf(s, o) /\ inbox' # inbox THEN 1 ELSE 0
      OBVIOUS
    <2>8. /\ SumFunctionOnSet(w, ShipmentIds) = SumFunctionOnSet(v, ShipmentIds) + n
          /\ SumFunctionOnSet(v, ShipmentIds) \in Nat
      <3>1. \A x \in ShipmentIds : v[x] \in Nat
        BY <1>0, <2>5, CountsAreNat
      <3>2. \A x \in ShipmentIds : w[x] = IF x = s THEN v[x] + n ELSE v[x]
        <4> SUFFICES ASSUME NEW x \in ShipmentIds
                     PROVE  w[x] = IF x = s THEN v[x] + n ELSE v[x]
          OBVIOUS
        <4>1. v[x] = inbox[Notice(o, x)] /\ w[x] = inbox'[Notice(o, x)]
          BY <2>5 DEF Waiting, Notice
        <4>2. Notice(o, x) \in Messages
          BY NoticeIsMessage
        <4>3. CASE inbox' = inbox
          BY <2>7, <3>1, <4>1, <4>3
        <4>4. CASE inbox' # inbox
          <5>1. inbox' = [inbox EXCEPT ![Message(s)] = @ + 1]
            BY <1>6, <4>4
          <5>2. inbox'[Notice(o, x)] = IF Notice(o, x) = Message(s)
                                       THEN inbox[Notice(o, x)] + 1 ELSE inbox[Notice(o, x)]
            BY <1>0, <4>2, <5>1 DEF OrdersCount
          <5>3. Notice(o, x) = Message(s) <=> x = s /\ origin[s].order = o
            BY DEF Notice, Message
          <5> QED
            BY <1>7, <2>7, <3>1, <4>1, <4>4, <5>2, <5>3 DEF IsOf
        <4> QED
          BY <4>3, <4>4
      <3>3. IsFiniteSet(ShipmentIds)
        BY FiniteAssumption
      <3> QED
        BY <3>1, <3>2, <3>3, SumGrows
    <2>9. n <= k
      BY <2>4, <2>7
    <2>10. Bounded(o)
      BY DEF NoticesInv
    <2>11. /\ orderEmitted[o]["OrderShipmentShipped"] \in Nat
           /\ SumFunctionOnSet(Deciding(o), Txs) \in Nat
      BY <1>0, CountsAreNat, SumsAreNat
    <2> DEFINE N == orderEmitted[o]["OrderShipmentShipped"]
               D == SumFunctionOnSet(Deciding(o), Txs)
               V == SumFunctionOnSet(v, ShipmentIds)
               W == SumFunctionOnSet(w, ShipmentIds)
               P == SumFunctionOnSet(p, Events)
               Q == SumFunctionOnSet(q, Events)
    <2>12. N + D + W <= Q
      <3>1. N + D + V <= P /\ N \in Nat /\ D \in Nat /\ V \in Nat /\ P \in Nat
        BY <2>5, <2>6, <2>8, <2>10, <2>11 DEF Bounded
      <3>2. W = V + n /\ Q = P + k
        BY <2>6, <2>8
      <3> HIDE DEF N, D, V, W, P, Q
      <3> QED
        BY <2>9, <3>1, <3>2
    <2>13. orderEmitted' = orderEmitted
      OBVIOUS
    <2> QED
      BY <2>1, <2>2, <2>3, <2>5, <2>10, <2>12, <2>13 DEF Bounded
  <1> QED
    BY <1>4, <1>5, <1>8 DEF NoticesInv

\* What a record of a transaction counts for: 1 if it will announce o.
Announces(r, o) == IF r.op = "shipped" /\ r.order = o THEN 1 ELSE 0

\* The transactions that will announce o, when t becomes r.
LEMMA DecidingMoves ==
    ASSUME OrdersInv, NEW t \in Txs, NEW r, tx' = [tx EXCEPT ![t] = r], NEW o
    PROVE  SumFunctionOnSet(Deciding(o)', Txs)
             = SumFunctionOnSet(Deciding(o), Txs) + Announces(r, o) - Announces(tx[t], o)
  <1>1. PICK f, g : f = Deciding(o) /\ g = Deciding(o)'
    OBVIOUS
  <1>2. tx' = [u \in Txs |-> IF u = t THEN r ELSE tx[u]]
    BY DEF OrdersInv
  <1>3. /\ \A u \in Txs : f[u] \in Nat /\ g[u] \in Nat
        /\ \A u \in Txs \ {t} : f[u] = g[u]
        /\ f[t] = Announces(tx[t], o) /\ g[t] = Announces(r, o)
    BY <1>1, <1>2 DEF Deciding, Announces
  <1>4. IsFiniteSet(Txs)
    BY FiniteAssumption
  <1>5. SumFunctionOnSet(g, Txs) = SumFunctionOnSet(f, Txs) + g[t] - f[t]
    <2>1. \A u \in Txs : f[u] \in Nat /\ g[u] \in Nat
      BY <1>3
    <2>2. \A u \in Txs \ {t} : f[u] = g[u]
      BY <1>3
    <2> QED
      BY ONLY <1>4, <2>1, <2>2, SumChange
  <1> QED
    BY <1>1, <1>3, <1>5

\* A step of orders-svc: what it takes from the inbox or finishes deciding
\* covers what it begins to decide or announces.
Balanced(o) ==
    orderEmitted'[o]["OrderShipmentShipped"] + SumFunctionOnSet(Deciding(o)', Txs)
        + SumFunctionOnSet(Waiting(o)', ShipmentIds)
      <= orderEmitted[o]["OrderShipmentShipped"] + SumFunctionOnSet(Deciding(o), Txs)
           + SumFunctionOnSet(Waiting(o), ShipmentIds)

StepBalanced == OrdersCount' /\ \A o \in OrderIds : Balanced(o)

LEMMA BalancedNotices ==
    ASSUME IInv, NoticesInv, UNCHANGED shippingVars, UNCHANGED ledgerVars, StepBalanced
    PROVE  NoticesInv'
  <1>0. OrdersCount' /\ \A o \in OrderIds : Balanced(o)
    BY DEF StepBalanced
  <1>1. UNCHANGED <<phase, tries, pubs>>
    BY DEF ledgerVars
  <1>2. LedgerCounts'
    BY <1>1 DEF NoticesInv, LedgerCounts
  <1>3. ASSUME NEW o \in OrderIds PROVE Bounded(o)'
    <2>1. Announced(o)' = Announced(o) /\ \A p : IsOf(p, o)' = IsOf(p, o)
      BY AnnouncedWaits
    <2>2. Recorded(o)' = Recorded(o) /\ Published(o)' = Published(o)
      BY <1>1, <2>1 DEF Recorded, Published
    <2> DEFINE X == orderEmitted[o]["OrderShipmentShipped"] + SumFunctionOnSet(Deciding(o), Txs)
                      + SumFunctionOnSet(Waiting(o), ShipmentIds)
               Y == orderEmitted'[o]["OrderShipmentShipped"]
                      + SumFunctionOnSet(Deciding(o)', Txs)
                      + SumFunctionOnSet(Waiting(o)', ShipmentIds)
               P == SumFunctionOnSet(Published(o), Events)
    <2>3. X \in Nat /\ Y \in Nat /\ P \in Nat
      <3>1. LedgerCounts /\ OrdersCount
        BY DEF NoticesInv
      <3>2. /\ orderEmitted[o]["OrderShipmentShipped"] \in Nat
            /\ SumFunctionOnSet(Deciding(o), Txs) \in Nat
            /\ SumFunctionOnSet(Waiting(o), ShipmentIds) \in Nat
            /\ SumFunctionOnSet(Published(o), Events) \in Nat
        BY <3>1, CountsAreNat, SumsAreNat
      <3>3. /\ orderEmitted'[o]["OrderShipmentShipped"] \in Nat
            /\ SumFunctionOnSet(Deciding(o)', Txs) \in Nat
            /\ SumFunctionOnSet(Waiting(o)', ShipmentIds) \in Nat
        <4>1. PICK d, w : d = Deciding(o)' /\ w = Waiting(o)'
          OBVIOUS
        <4>2. (\A t \in Txs : d[t] \in Nat) /\ \A s \in ShipmentIds : w[s] \in Nat
          BY <1>0, <4>1, NoticeIsMessage DEF Deciding, Waiting, OrdersCount, Notice
        <4>3. IsFiniteSet(Txs) /\ IsFiniteSet(ShipmentIds)
          BY FiniteAssumption
        <4>4. SumFunctionOnSet(d, Txs) \in Nat /\ SumFunctionOnSet(w, ShipmentIds) \in Nat
          BY <4>2, <4>3, SumNat
        <4>5. orderEmitted'[o]["OrderShipmentShipped"] \in Nat
          BY <1>0 DEF OrdersCount, Ord!EventTypes
        <4> QED
          BY <4>1, <4>4, <4>5
      <3> QED
        BY <3>2, <3>3
    <2>4. Y <= X
      BY <1>0 DEF Balanced
    <2>5. X <= P
      BY DEF NoticesInv, Bounded
    <2>6. Y <= P
      <3> HIDE DEF X, Y, P
      <3> QED
        BY <2>3, <2>4, <2>5
    <2> QED
      BY <2>1, <2>2, <2>6 DEF NoticesInv, Bounded
  <1> QED
    BY <1>0, <1>2, <1>3 DEF NoticesInv

LEMMA EnqueueNotices ==
    ASSUME OrdersCount, NEW o, NEW E, Ord!Enqueue(o, E)
    PROVE  /\ orderEmitted' \in [OrderIds -> [Ord!EventTypes -> Nat]]
           /\ \A p \in OrderIds :
                orderEmitted'[p]["OrderShipmentShipped"]
                  = orderEmitted[p]["OrderShipmentShipped"]
                      + IF p = o /\ "OrderShipmentShipped" \in E THEN 1 ELSE 0
  <1> DEFINE old == orderEmitted[o]
             new == [e \in Ord!EventTypes |-> old[e] + IF e \in E THEN 1 ELSE 0]
  <1>1. orderEmitted \in [OrderIds -> [Ord!EventTypes -> Nat]]
    BY DEF OrdersCount
  <1>2. orderEmitted' = [orderEmitted EXCEPT ![o] = new]
    BY DEF Ord!Enqueue
  <1>3. \A p \in OrderIds : orderEmitted'[p] = IF p = o THEN new ELSE orderEmitted[p]
    BY <1>1, <1>2
  <1>4. o \in OrderIds => new \in [Ord!EventTypes -> Nat]
    BY <1>1
  <1>5. "OrderShipmentShipped" \in Ord!EventTypes
    BY DEF Ord!EventTypes
  <1>6. orderEmitted' \in [OrderIds -> [Ord!EventTypes -> Nat]]
    <2> HIDE DEF new
    <2> QED
      BY <1>1, <1>2, <1>4
  <1>7. ASSUME NEW p \in OrderIds
        PROVE  orderEmitted'[p]["OrderShipmentShipped"]
                 = orderEmitted[p]["OrderShipmentShipped"]
                     + IF p = o /\ "OrderShipmentShipped" \in E THEN 1 ELSE 0
    <2>1. orderEmitted[p]["OrderShipmentShipped"] \in Nat
      BY <1>1, <1>5
    <2>2. CASE p = o
      BY <1>3, <1>5, <2>2
    <2>3. CASE p # o
      <3>1. orderEmitted'[p] = orderEmitted[p]
        BY <1>3, <2>3
      <3> QED
        BY <2>1, <2>3, <3>1
    <2> QED
      BY <2>2, <2>3
  <1> QED
    BY <1>6, <1>7

\* A step that takes no message and announces no shipment.
LEMMA OtherBalanced ==
    ASSUME IInv, NoticesInv, OrdersInv, NEW t \in Txs, NEW r,
           tx' = [tx EXCEPT ![t] = r], r.op # "shipped", UNCHANGED inbox,
           orderEmitted' \in [OrderIds -> [Ord!EventTypes -> Nat]],
           \A o \in OrderIds : orderEmitted'[o]["OrderShipmentShipped"]
                                 = orderEmitted[o]["OrderShipmentShipped"]
    PROVE  StepBalanced
  <1>0. LedgerCounts /\ OrdersCount
    BY DEF NoticesInv
  <1>1. OrdersCount'
    BY <1>0 DEF OrdersCount
  <1>2. ASSUME NEW o \in OrderIds PROVE Balanced(o)
    <2>1. Waiting(o)' = Waiting(o)
      BY DEF Waiting, Notice
    <2>2. SumFunctionOnSet(Deciding(o)', Txs)
            = SumFunctionOnSet(Deciding(o), Txs) + Announces(r, o) - Announces(tx[t], o)
      BY DecidingMoves
    <2>3. Announces(r, o) = 0 /\ Announces(tx[t], o) \in Nat
      BY DEF Announces
    <2>4. /\ orderEmitted[o]["OrderShipmentShipped"] \in Nat
          /\ SumFunctionOnSet(Deciding(o), Txs) \in Nat
          /\ SumFunctionOnSet(Waiting(o), ShipmentIds) \in Nat
      BY <1>0, CountsAreNat, SumsAreNat
    <2> QED
      BY <2>1, <2>2, <2>3, <2>4 DEF Balanced
  <1> QED
    BY <1>1, <1>2 DEF StepBalanced

\* onShippingEvent takes a message and begins to decide.
LEMMA ReadBalanced ==
    ASSUME IInv, NoticesInv, OrdersInv, NEW t \in Txs, NEW m \in Messages,
           Ord!ShippingRead(t, m)
    PROVE  StepBalanced
  <1>0. LedgerCounts /\ OrdersCount
    BY DEF NoticesInv
  <1>1. /\ m.order \in OrderIds /\ m.id \in ShipmentIds /\ m = Notice(m.order, m.id)
        /\ inbox[m] \in Nat /\ inbox[m] > 0 /\ inbox' = [inbox EXCEPT ![m] = inbox[m] - 1]
    BY <1>0 DEF Ord!ShippingRead, Ord!Receive, Messages, Notice, OrdersCount
  <1>2. UNCHANGED orderEmitted
    BY DEF Ord!ShippingRead, Ord!database
  <1>3. PICK r : /\ r = [op |-> "shipped", order |-> m.order, seen |-> status[m.order]]
                 /\ tx' = [tx EXCEPT ![t] = r] /\ tx[t] = Ord!Idle
    BY DEF Ord!ShippingRead, Ord!Begin
  <1>4. OrdersCount'
    BY <1>0, <1>1, <1>2 DEF OrdersCount
  <1>5. ASSUME NEW o \in OrderIds PROVE Balanced(o)
    <2>1. SumFunctionOnSet(Deciding(o)', Txs)
            = SumFunctionOnSet(Deciding(o), Txs) + Announces(r, o) - Announces(tx[t], o)
      BY <1>3, DecidingMoves
    <2>2. Announces(tx[t], o) = 0 /\ Announces(r, o) = IF m.order = o THEN 1 ELSE 0
      BY <1>3 DEF Announces, Ord!Idle
    <2>3. PICK y \in ShipmentIds : y = m.id
      BY <1>1
    <2>4. PICK f, g : f = Waiting(o) /\ g = Waiting(o)'
      OBVIOUS
    <2>5. \A s \in ShipmentIds : /\ f[s] = inbox[Notice(o, s)] /\ g[s] = inbox'[Notice(o, s)]
                                 /\ Notice(o, s) \in Messages
      BY <2>4, NoticeIsMessage DEF Waiting, Notice
    <2>6. \A s \in ShipmentIds : f[s] \in Nat /\ g[s] \in Nat
      BY <1>0, <1>4, <2>5 DEF OrdersCount
    <2>7. \A s \in ShipmentIds : Notice(o, s) = m <=> s = y /\ m.order = o
      BY <1>1, <2>3 DEF Notice
    <2>8. PICK n \in Nat : n = IF m.order = o THEN 1 ELSE 0
      OBVIOUS
    <2>9. \A s \in ShipmentIds : f[s] = IF s = y THEN g[s] + n ELSE g[s]
      BY <1>0, <1>1, <2>5, <2>6, <2>7, <2>8 DEF OrdersCount
    <2>10. /\ SumFunctionOnSet(f, ShipmentIds) = SumFunctionOnSet(g, ShipmentIds) + n
           /\ SumFunctionOnSet(g, ShipmentIds) \in Nat
      <3>1. IsFiniteSet(ShipmentIds)
        BY FiniteAssumption
      <3>2. \A s \in ShipmentIds : g[s] \in Nat
        BY <2>6
      <3> QED
        BY <2>9, <3>1, <3>2, SumGrows
    <2>11. /\ orderEmitted[o]["OrderShipmentShipped"] \in Nat
           /\ SumFunctionOnSet(Deciding(o), Txs) \in Nat
           /\ SumFunctionOnSet(Waiting(o), ShipmentIds) \in Nat
      BY <1>0, CountsAreNat, SumsAreNat
    <2> QED
      BY <1>1, <1>2, <2>1, <2>2, <2>4, <2>8, <2>10, <2>11 DEF Balanced
  <1> QED
    BY <1>4, <1>5 DEF StepBalanced

\* onShippingEvent announces what it decided.
LEMMA AnnounceBalanced ==
    ASSUME IInv, NoticesInv, OrdersInv, NEW t \in Txs, Ord!ShippingCommit(t)
    PROVE  StepBalanced
  <1>0. LedgerCounts /\ OrdersCount
    BY DEF NoticesInv
  <1>1. PICK p : p = tx[t].order
    OBVIOUS
  <1>2. /\ tx[t].op = "shipped" /\ Ord!Enqueue(p, {"OrderShipmentShipped"})
        /\ tx' = [tx EXCEPT ![t] = Ord!Idle] /\ UNCHANGED inbox
    BY <1>1 DEF Ord!ShippingCommit, Ord!End
  <1>3. /\ orderEmitted' \in [OrderIds -> [Ord!EventTypes -> Nat]]
        /\ \A o \in OrderIds : orderEmitted'[o]["OrderShipmentShipped"]
             = orderEmitted[o]["OrderShipmentShipped"] + IF o = p THEN 1 ELSE 0
    <2>1. "OrderShipmentShipped" \in {"OrderShipmentShipped"}
      OBVIOUS
    <2> QED
      BY <1>0, <1>2, <2>1, EnqueueNotices
  <1>4. OrdersCount'
    BY <1>0, <1>2, <1>3 DEF OrdersCount
  <1>5. ASSUME NEW o \in OrderIds PROVE Balanced(o)
    <2>1. Waiting(o)' = Waiting(o)
      BY <1>2 DEF Waiting, Notice
    <2>2. PICK r : r = Ord!Idle
      OBVIOUS
    <2>3. SumFunctionOnSet(Deciding(o)', Txs)
            = SumFunctionOnSet(Deciding(o), Txs) + Announces(r, o) - Announces(tx[t], o)
      BY <1>2, <2>2, DecidingMoves
    <2>4. Announces(r, o) = 0 /\ Announces(tx[t], o) = IF o = p THEN 1 ELSE 0
      BY <1>1, <1>2, <2>2 DEF Announces, Ord!Idle
    <2>5. /\ orderEmitted[o]["OrderShipmentShipped"] \in Nat
          /\ SumFunctionOnSet(Deciding(o), Txs) \in Nat
          /\ SumFunctionOnSet(Waiting(o), ShipmentIds) \in Nat
      BY <1>0, CountsAreNat, SumsAreNat
    <2> QED
      BY <1>3, <2>1, <2>3, <2>4, <2>5 DEF Balanced
  <1> QED
    BY <1>4, <1>5 DEF StepBalanced

LEMMA OrdersStepNotices ==
    ASSUME IInv, NoticesInv, OrdersInv, NEW t \in Txs,
           Ord!Start(t) \/ Ord!Proceed(t) \/ Ord!Fail(t)
    PROVE  StepBalanced
  <1>0. OrdersCount /\ \A m \in Messages : m.type = "ShipmentShipped"
    BY DEF NoticesInv, Messages
  <1>1. ASSUME NEW r, tx' = [tx EXCEPT ![t] = r], r.op # "shipped", UNCHANGED inbox,
               UNCHANGED orderEmitted \/ \E o, E : /\ Ord!Enqueue(o, E)
                                                   /\ "OrderShipmentShipped" \notin E
        PROVE  StepBalanced
    <2>1. /\ orderEmitted' \in [OrderIds -> [Ord!EventTypes -> Nat]]
          /\ \A o \in OrderIds : orderEmitted'[o]["OrderShipmentShipped"]
                                   = orderEmitted[o]["OrderShipmentShipped"]
      <3>1. CASE UNCHANGED orderEmitted
        BY <1>0, <3>1 DEF OrdersCount
      <3>2. ASSUME NEW p, NEW E, Ord!Enqueue(p, E), "OrderShipmentShipped" \notin E
            PROVE  /\ orderEmitted' \in [OrderIds -> [Ord!EventTypes -> Nat]]
                   /\ \A o \in OrderIds : orderEmitted'[o]["OrderShipmentShipped"]
                                            = orderEmitted[o]["OrderShipmentShipped"]
        <4>1. /\ orderEmitted' \in [OrderIds -> [Ord!EventTypes -> Nat]]
              /\ \A o \in OrderIds : orderEmitted'[o]["OrderShipmentShipped"]
                   = orderEmitted[o]["OrderShipmentShipped"]
                       + IF o = p /\ "OrderShipmentShipped" \in E THEN 1 ELSE 0
          BY <1>0, <3>2, EnqueueNotices
        <4>2. \A o \in OrderIds : orderEmitted[o]["OrderShipmentShipped"] \in Nat
          BY <1>0 DEF OrdersCount, Ord!EventTypes
        <4> QED
          BY <3>2, <4>1, <4>2
      <3> QED
        BY <1>1, <3>1, <3>2
    <2> QED
      BY <1>1, <2>1, OtherBalanced
  <1>2. ASSUME Ord!End(t), UNCHANGED inbox,
               UNCHANGED orderEmitted \/ \E o, E : /\ Ord!Enqueue(o, E)
                                                   /\ "OrderShipmentShipped" \notin E
        PROVE  StepBalanced
    <2>1. PICK r : r = Ord!Idle
      OBVIOUS
    <2>2. tx' = [tx EXCEPT ![t] = r] /\ r.op # "shipped"
      BY <1>2, <2>1 DEF Ord!End, Ord!Idle
    <2> QED
      BY <1>1, <1>2, <2>2
  <1>3. ASSUME Ord!Rollback(t), UNCHANGED inbox PROVE StepBalanced
    <2> QED
      BY <1>2, <1>3 DEF Ord!Rollback, Ord!database
  <1>4. ASSUME NEW o \in OrderIds, NEW k \in OrderKeys, Ord!CreateRead(t, o, k)
        PROVE  StepBalanced
    <2>1. PICK r : r = [op |-> "create", order |-> o, key |-> k]
      OBVIOUS
    <2>2. tx' = [tx EXCEPT ![t] = r] /\ r.op # "shipped" /\ UNCHANGED <<inbox, orderEmitted>>
      BY <1>4, <2>1 DEF Ord!CreateRead, Ord!Begin, Ord!database
    <2> QED
      BY <1>1, <2>2
  <1>5. ASSUME NEW o \in OrderIds, NEW k \in OrderKeys, Ord!ApproveRead(t, o, k)
        PROVE  StepBalanced
    <2>1. PICK r : r = [op |-> "approve", order |-> o, key |-> k, seen |-> status[o]]
      OBVIOUS
    <2>2. tx' = [tx EXCEPT ![t] = r] /\ r.op # "shipped" /\ UNCHANGED <<inbox, orderEmitted>>
      BY <1>5, <2>1 DEF Ord!ApproveRead, Ord!Begin, Ord!database
    <2> QED
      BY <1>1, <2>2
  <1>6. ASSUME NEW o \in OrderIds, NEW k \in OrderKeys, Ord!CancelRead(t, o, k)
        PROVE  StepBalanced
    <2>1. PICK r : r = [op |-> "cancel", order |-> o, key |-> k, seen |-> status[o]]
      OBVIOUS
    <2>2. tx' = [tx EXCEPT ![t] = r] /\ r.op # "shipped" /\ UNCHANGED <<inbox, orderEmitted>>
      BY <1>6, <2>1 DEF Ord!CancelRead, Ord!Begin, Ord!database
    <2> QED
      BY <1>1, <2>2
  <1>7. CASE Ord!Start(t)
    <2>1. ASSUME NEW m \in Messages PROVE ~Ord!PaymentRead(t, m) /\ ~Ord!CommitRead(t, m)
      BY <1>0 DEF Ord!PaymentRead, Ord!CommitRead, Ord!Receive
    <2>2. ASSUME NEW m \in Messages, Ord!ShippingRead(t, m) PROVE StepBalanced
      BY <2>2, ReadBalanced
    <2> QED
      BY <1>4, <1>5, <1>6, <1>7, <2>1, <2>2 DEF Ord!Start
  <1>8. CASE Ord!CreateCommit(t)
    <2>1. UNCHANGED inbox
      BY <1>8 DEF Ord!CreateCommit
    <2>2. CASE Ord!Rollback(t)
      BY <1>3, <2>1, <2>2
    <2>3. CASE ~Ord!Rollback(t)
      <3>1. PICK E : E = {"OrderCreated"}
        OBVIOUS
      <3>2. Ord!End(t) /\ \E o : Ord!Enqueue(o, E)
        BY <1>8, <2>3, <3>1 DEF Ord!CreateCommit
      <3>3. "OrderShipmentShipped" \notin E
        BY <3>1
      <3> QED
        BY <1>2, <2>1, <3>2, <3>3
    <2> QED
      BY <2>2, <2>3
  <1>9. CASE Ord!ApproveCommit(t)
    <2>1. UNCHANGED inbox
      BY <1>9 DEF Ord!ApproveCommit
    <2>2. CASE Ord!Rollback(t)
      BY <1>3, <2>1, <2>2
    <2>3. CASE ~Ord!Rollback(t)
      <3>1. PICK E : E = {"InventoryReserveRequested", "PaymentChargeRequested"}
        OBVIOUS
      <3>2. Ord!End(t) /\ \E o : Ord!Enqueue(o, E)
        BY <1>9, <2>3, <3>1 DEF Ord!ApproveCommit
      <3>3. "OrderShipmentShipped" \notin E
        BY <3>1
      <3> QED
        BY <1>2, <2>1, <3>2, <3>3
    <2> QED
      BY <2>2, <2>3
  <1>10. CASE Ord!CancelCommit(t)
    <2>1. UNCHANGED inbox
      BY <1>10 DEF Ord!CancelCommit
    <2>2. CASE Ord!Rollback(t)
      BY <1>3, <2>1, <2>2
    <2>3. CASE ~Ord!Rollback(t)
      <3>1. PICK E : E = Ord!Compensation(tx[t].seen) \cup {"OrderCanceled"}
        OBVIOUS
      <3>2. Ord!End(t) /\ \E o : Ord!Enqueue(o, E)
        BY <1>10, <2>3, <3>1 DEF Ord!CancelCommit
      <3>3. "OrderShipmentShipped" \notin E
        BY <3>1 DEF Ord!Compensation
      <3> QED
        BY <1>2, <2>1, <3>2, <3>3
    <2> QED
      BY <2>2, <2>3
  <1>11. CASE Ord!PaymentCommit(t)
    <2>1. PICK E : E = {"OrderPaid"}
      OBVIOUS
    <2>2. Ord!End(t) /\ UNCHANGED inbox /\ \E o : Ord!Enqueue(o, E)
      BY <1>11, <2>1 DEF Ord!PaymentCommit
    <2>3. "OrderShipmentShipped" \notin E
      BY <2>1
    <2> QED
      BY <1>2, <2>2, <2>3
  <1>12. CASE Ord!ShippingCommit(t)
    BY <1>12, AnnounceBalanced
  <1>13. CASE Ord!CommitSave(t)
    <2>1. UNCHANGED inbox
      BY <1>13 DEF Ord!CommitSave
    <2>2. CASE Ord!Rollback(t)
      BY <1>3, <2>1, <2>2
    <2>3. CASE ~Ord!Rollback(t)
      <3>1. PICK r : r = [op |-> "saved", order |-> tx[t].order, sku |-> tx[t].sku,
                          next |-> tx[t].next,
                          read |-> [progress[tx[t].order] EXCEPT ![tx[t].sku] = tx[t].seen]]
        OBVIOUS
      <3>2. tx' = [tx EXCEPT ![t] = r] /\ UNCHANGED orderEmitted
        BY <1>13, <2>3, <3>1 DEF Ord!CommitSave, Ord!database
      <3>3. r.op # "shipped"
        BY <3>1
      <3> QED
        BY <1>1, <2>1, <3>2, <3>3
    <2> QED
      BY <2>2, <2>3
  <1>14. CASE Ord!CommitCommit(t)
    <2>1. PICK E : E = IF Ord!AllCommitted(tx[t].order,
                            [tx[t].read EXCEPT ![tx[t].sku] = tx[t].next])
                       THEN {"OrderReadyToShip"} ELSE {}
      OBVIOUS
    <2>2. Ord!End(t) /\ UNCHANGED inbox /\ \E o : Ord!Enqueue(o, E)
      BY <1>14, <2>1 DEF Ord!CommitCommit
    <2>3. "OrderShipmentShipped" \notin E
      BY <2>1
    <2> QED
      BY <1>2, <2>2, <2>3
  <1>15. CASE Ord!Fail(t)
    BY <1>3, <1>15 DEF Ord!Fail
  <1> QED
    BY <1>7, <1>8, <1>9, <1>10, <1>11, <1>12, <1>13, <1>14, <1>15 DEF Ord!Proceed

-----------------------------------------------------------------------------

LEMMA InitNotices == Init => NoticesInv
  <1> SUFFICES ASSUME Init PROVE NoticesInv
    OBVIOUS
  <1>1. IInv
    BY InitIInv DEF Init
  <1>2. /\ phase = [e \in Events |-> "absent"] /\ tries = [e \in Events |-> 0]
        /\ pubs = [e \in Events |-> 0] /\ inbox = [m \in Messages |-> 0]
        /\ orderEmitted = [o \in OrderIds |-> [e \in Ord!EventTypes |-> 0]]
        /\ tx = [t \in Txs |-> Ord!Idle]
    BY DEF Init, Ledger!Init, Ord!Init
  <1>3. LedgerCounts /\ OrdersCount
    BY <1>2, LimitAssumption DEF LedgerCounts, OrdersCount
  <1>4. ASSUME NEW o \in OrderIds PROVE Bounded(o)
    <2>1. PICK r, w, d : r = Recorded(o) /\ w = Waiting(o) /\ d = Deciding(o)
      OBVIOUS
    <2>2. /\ \A e \in Events : r[e] = 0
          /\ \A s \in ShipmentIds : w[s] = 0
          /\ \A t \in Txs : d[t] = 0
      BY <1>2, <2>1, NoticeIsMessage DEF Recorded, Waiting, Deciding, Ord!Idle
    <2>3. IsFiniteSet(Events) /\ IsFiniteSet(ShipmentIds) /\ IsFiniteSet(Txs)
      BY EventsAreFinite, FiniteAssumption
    <2>4. /\ SumFunctionOnSet(r, Events) = 0
          /\ SumFunctionOnSet(w, ShipmentIds) = 0
          /\ SumFunctionOnSet(d, Txs) = 0
      BY <2>2, <2>3, SumZero
    <2>5. orderEmitted[o]["OrderShipmentShipped"] = 0
      BY <1>2 DEF Ord!EventTypes
    <2>6. /\ SumFunctionOnSet(Announced(o), ShipmentIds) \in Nat
          /\ SumFunctionOnSet(Published(o), Events) \in Nat
      BY <1>1, <1>3, SumsAreNat
    <2> QED
      BY <2>1, <2>4, <2>5, <2>6 DEF Bounded
  <1> QED
    BY <1>3, <1>4 DEF NoticesInv

LEMMA NextNotices == FulfilmentInv /\ NoticesInv /\ [Next]_vars => NoticesInv'
  <1> SUFFICES ASSUME FulfilmentInv, NoticesInv, [Next]_vars PROVE NoticesInv'
    OBVIOUS
  <1>0. IInv /\ ShipmentsKnown /\ LedgerInv /\ OrdersInv
    BY DEF FulfilmentInv
  <1>1. ASSUME [ShippingNext]_shippingVars, UNCHANGED rows, UNCHANGED ledgerVars,
               UNCHANGED orderVars
        PROVE  NoticesInv'
    <2>1. Kept
      BY <1>0, <1>1, ShippingKeeps
    <2> QED
      BY <1>0, <1>1, <2>1, QuietNotices DEF rows
  <1>2. ASSUME NEW h \in Handlers, NEW q \in Requests, Request(h, q) PROVE NoticesInv'
    BY <1>1, <1>2 DEF Request, ShippingNext, Arrive
  <1>3. ASSUME NEW h \in Handlers, ShippingStep(h) PROVE NoticesInv'
    <2>1. ShippingNext /\ Record /\ UNCHANGED orderVars /\ OneAnnounced
      BY <1>0, <1>3, StepAnnounces DEF ShippingStep, ShippingNext
    <2>2. ShipmentsKnown' /\ Kept
      BY <1>0, <2>1, ShippingKeeps
    <2> QED
      BY <1>0, <2>1, <2>2, RecordNotices
  <1>4. CASE ShippingFault
    BY <1>1, <1>4 DEF ShippingFault, ShippingNext, Crash, Expire
  <1>5. ASSUME NEW e \in Events, Take(e) \/ Settle(e) PROVE NoticesInv'
    BY <1>0, <1>5, AttemptNotices
  <1>6. ASSUME NEW e \in Events, Send(e) \/ SendMissed(e) PROVE NoticesInv'
    BY <1>0, <1>6, SendNotices DEF Send, SendMissed, orderVars
  <1>9. ASSUME NEW e \in Events, Strand(e) PROVE NoticesInv'
    BY <1>1, <1>9 DEF Strand, shippingVars, rows
  <1>7. ASSUME NEW t \in Txs, OrdersStep(t) \/ OrdersFail(t) PROVE NoticesInv'
    <2>1. /\ UNCHANGED shippingVars /\ UNCHANGED ledgerVars
          /\ Ord!Start(t) \/ Ord!Proceed(t) \/ Ord!Fail(t)
      BY <1>7 DEF OrdersStep, OrdersFail
    <2> QED
      BY <1>0, <2>1, OrdersStepNotices, BalancedNotices
  <1>8. CASE UNCHANGED vars
    BY <1>1, <1>8 DEF vars, shippingVars, rows
  <1> QED
    BY <1>2, <1>3, <1>4, <1>5, <1>6, <1>7, <1>8, <1>9 DEF Next

\* However often a shipment event is repeated, reordered or lost on its way,
\* and however the handlers of orders-svc overlap and fail, an order gives at
\* most MaxAttempts notices for each event of its shipments (onShippingEvent,
\* which announces every delivery, behind the outbox of shipping-svc).
THEOREM FulfilmentNoticesAreBounded == Spec => []NoticesAreBounded
  <1>1. FulfilmentInv /\ NoticesInv => NoticesAreBounded
    BY BoundFollows DEF FulfilmentInv, NoticesInv, NoticesAreBounded
  <1> QED
    BY <1>1, FulfilmentInit, FulfilmentNext, InitNotices, NextNotices, PTL DEF Spec
=============================================================================
