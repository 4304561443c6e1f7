---------------------------- MODULE OrdersProofs ----------------------------
(***************************************************************************)
(* Theorems about Orders, for any orders, lines, keys, messages, number of *)
(* overlapping transactions and failures: the types, one order per key,    *)
(* one charge per approve key, that no status is visible without its       *)
(* event, and that an order is ready only when the deliveries cover its    *)
(* lines; and, for every order that no transaction has committed on from a *)
(* stale read, that a paid order which is canceled asks for its refund,    *)
(* that nothing is announced twice, that a complete order is called ready  *)
(* and that SHIPPED is final.                                              *)
(***************************************************************************)
EXTENDS Orders, SumTheorems

USE DEF Idle, database

\* TypeOK in three parts: the tables and the outbox, the progress rows and
\* the messages, and the open transactions.
TableTypes ==
    /\ status \in [OrderIds -> Statuses]
    /\ orderKey \in [OrderIds -> Keys \cup {NoKey}]
    /\ usedKeys \subseteq Keys \X RequestTypes
    /\ emitted \in [OrderIds -> [EventTypes -> Nat]]
    /\ raced \subseteq OrderIds

ProgressTypes ==
    /\ progress \in [OrderIds -> [Skus -> Nat]]
    /\ inbox \in [Messages -> Nat]

TxTypes == tx \in [Txs -> OpenTx \cup {Idle}]

IInv == TableTypes /\ ProgressTypes /\ TxTypes /\ OneOrderPerKey /\ StatusIsAnnounced

LEMMA TypeParts == TypeOK <=> TableTypes /\ ProgressTypes /\ TxTypes
  BY DEF TypeOK, TableTypes, ProgressTypes, TxTypes

\* What a transaction remembers, by its operation.
LEMMA TxFields ==
    ASSUME TxTypes, NEW t \in Txs, tx[t].op # "idle"
    PROVE  /\ tx[t].order \in OrderIds
           /\ tx[t].op \in {"create", "approve", "cancel"} => tx[t].key \in Keys
           /\ tx[t].op \in {"approve", "cancel", "paid", "shipped"}
                => tx[t].seen \in OrderStatusEnum
           /\ tx[t].op \in {"commit", "saved"} => tx[t].sku \in Skus /\ tx[t].next \in Nat
           /\ tx[t].op = "commit" => tx[t].seen \in Nat
           /\ tx[t].op = "saved" => tx[t].read \in [Skus -> Nat]
  <1>1. tx[t] \in OpenTx \cup {Idle}
    BY DEF TxTypes
  <1> DEFINE r == tx[t]
  <1>2. CASE r \in [op : {"create"}, order : OrderIds, key : Keys]
    BY <1>2, SMT
  <1>3. CASE r \in [op : {"approve", "cancel"}, order : OrderIds, key : Keys,
                    seen : OrderStatusEnum]
    BY <1>3, SMT
  <1>4. CASE r \in [op : {"paid", "shipped"}, order : OrderIds, seen : OrderStatusEnum]
    BY <1>4, SMT
  <1>5. CASE r \in [op : {"commit"}, order : OrderIds, sku : Skus, seen : Nat, next : Nat]
    BY <1>5, SMT
  <1>6. CASE r \in [op : {"saved"}, order : OrderIds, sku : Skus, next : Nat,
                    read : [Skus -> Nat]]
    BY <1>6, SMT
  <1> QED
    BY <1>1, <1>2, <1>3, <1>4, <1>5, <1>6 DEF OpenTx

\* What a message carries.
LEMMA MessageFields ==
    ASSUME NEW m \in Messages
    PROVE  /\ m.order \in OrderIds
           /\ m.type = "InventoryCommitted" => m.sku \in Skus /\ m.qty \in Nat
  <1>1. CASE m \in [type : {"PaymentCaptured", "ShipmentShipped"}, order : OrderIds, id : Nat]
    BY <1>1, SMT
  <1>2. CASE m \in [type : {"InventoryCommitted"}, order : OrderIds, id : Nat,
                    sku : Skus, qty : Nat \ {0}]
    BY <1>2, SMT
  <1> QED
    BY <1>1, <1>2, MessagesAssumption

-----------------------------------------------------------------------------
(* What the parts of a step do.                                            *)

\* The events of one statement are added to those of its order.
LEMMA EnqueueAdds ==
    ASSUME TableTypes, NEW o \in OrderIds, NEW E, Enqueue(o, E)
    PROVE  /\ emitted' \in [OrderIds -> [EventTypes -> Nat]]
           /\ \A p \in OrderIds, e \in EventTypes :
                /\ emitted'[p][e] >= emitted[p][e]
                /\ p = o /\ e \in E => emitted'[p][e] > 0
  <1>1. emitted \in [OrderIds -> [EventTypes -> Nat]]
    BY DEF TableTypes
  <1> DEFINE new == [e \in EventTypes |-> emitted[o][e] + IF e \in E THEN 1 ELSE 0]
  <1>2. emitted' = [emitted EXCEPT ![o] = new]
    BY DEF Enqueue
  <1>3. new \in [EventTypes -> Nat]
    BY <1>1, SMT
  <1>4. emitted' \in [OrderIds -> [EventTypes -> Nat]]
    BY <1>1, <1>2, <1>3
  <1>5. ASSUME NEW p \in OrderIds, NEW e \in EventTypes
        PROVE  /\ emitted'[p][e] >= emitted[p][e]
               /\ p = o /\ e \in E => emitted'[p][e] > 0
    <2>1. emitted[p][e] \in Nat
      BY <1>1
    <2>2. CASE p = o
      <3>1. emitted'[p][e] = emitted[p][e] + IF e \in E THEN 1 ELSE 0
        BY <1>1, <1>2, <2>2
      <3> QED
        BY <2>1, <3>1, SMT
    <2>3. CASE p # o
      <3>1. emitted'[p][e] = emitted[p][e]
        BY <1>1, <1>2, <2>3
      <3> QED
        BY <2>1, <2>3, <3>1, SMT
    <2> QED
      BY <2>2, <2>3
  <1> QED
    BY <1>4, <1>5

\* The items of an order, and what they require of each SKU.
LEMMA LinesAreFinite ==
    ASSUME NEW o \in OrderIds
    PROVE  /\ IsFiniteSet(DOMAIN Lines[o])
           /\ \A i \in DOMAIN Lines[o] : Lines[o][i].sku \in Skus /\ Lines[o][i].qty \in Nat
  <1> DEFINE line == [sku : Skus, qty : Nat \ {0}]
  <1>1. Lines[o] \in Seq(line)
    BY LinesAssumption
  <1>2. Len(Lines[o]) \in Nat /\ DOMAIN Lines[o] = 1..Len(Lines[o])
    BY <1>1
  <1>3. IsFiniteSet(DOMAIN Lines[o])
    BY <1>2, FS_Interval
  <1>4. \A i \in DOMAIN Lines[o] : Lines[o][i] \in line
    <2> HIDE DEF line
    <2> QED
      BY <1>1, <1>2
  <1> QED
    BY <1>3, <1>4

LEMMA RequiredIsNat ==
    ASSUME NEW o \in OrderIds, NEW s \in Skus
    PROVE  Required(o, s) \in Nat
  <1> DEFINE S == DOMAIN Lines[o]
             q == [i \in S |-> IF Lines[o][i].sku = s THEN Lines[o][i].qty ELSE 0]
  <1>1. IsFiniteSet(S) /\ \A i \in S : q[i] \in Nat
    BY LinesAreFinite
  <1>2. Required(o, s) = SumFunctionOnSet(q, S)
    BY DEF Required, SumFunction
  <1> QED
    BY <1>1, <1>2, SumNat

\* Nothing is required of a SKU that the order does not list.
LEMMA NothingRequired ==
    ASSUME NEW o \in OrderIds, NEW s \in Skus,
           s \notin {Lines[o][i].sku : i \in DOMAIN Lines[o]}
    PROVE  Required(o, s) = 0
  <1> DEFINE S == DOMAIN Lines[o]
             q == [i \in S |-> IF Lines[o][i].sku = s THEN Lines[o][i].qty ELSE 0]
  <1>1. IsFiniteSet(S) /\ \A i \in S : q[i] = 0
    BY LinesAreFinite
  <1>2. Required(o, s) = SumFunctionOnSet(q, S)
    BY DEF Required, SumFunction
  <1> QED
    BY <1>1, <1>2, SumZero

\* An order with a line requires something.
LEMMA LinesRequire ==
    ASSUME NEW o \in OrderIds, Lines[o] # << >>
    PROVE  \E s \in Skus : Required(o, s) > 0
  <1> DEFINE S == DOMAIN Lines[o]
             s == Lines[o][1].sku
             q == [i \in S |-> IF Lines[o][i].sku = s THEN Lines[o][i].qty ELSE 0]
             rest == SumFunctionOnSet(q, S \ {1})
  <1>1. Lines[o] \in Seq([sku : Skus, qty : Nat \ {0}])
    BY LinesAssumption
  <1>2. Len(Lines[o]) \in Nat /\ S = 1..Len(Lines[o]) /\ Len(Lines[o]) # 0
    BY <1>1
  <1>3. 1 \in S
    BY <1>2
  <1>4. Lines[o][1] \in [sku : Skus, qty : Nat \ {0}]
    <2> DEFINE Item == [sku : Skus, qty : Nat \ {0}]
    <2> HIDE DEF Item
    <2>1. Len(Lines[o]) >= 1 /\ Lines[o] \in Seq(Item)
      BY <1>1, <1>2 DEF Item
    <2>2. Lines[o][1] \in Item
      BY <2>1
    <2> QED
      BY <2>2 DEF Item
  <1>5. IsFiniteSet(S) /\ \A i \in S : q[i] \in Nat
    BY LinesAreFinite
  <1>6. s \in Skus /\ q[1] > 0
    BY <1>3, <1>4
  <1>7. Required(o, s) = SumFunctionOnSet(q, S)
    BY DEF Required, SumFunction
  <1> HIDE DEF q, S
  <1>8. SumFunctionOnSet(q, S) = q[1] + rest
    BY <1>3, <1>5, SumRemove
  <1>9. rest \in Nat
    <2>1. IsFiniteSet(S \ {1})
      BY <1>5, FS_Subset
    <2> QED
      BY <1>5, <2>1, SumNat
  <1>10. Required(o, s) > 0
    BY <1>3, <1>5, <1>6, <1>7, <1>8, <1>9
  <1> QED
    BY <1>6, <1>10

LEMMA AnnouncementType ==
    ASSUME NEW s \in OrderStatusEnum
    PROVE  Announcement[s] \in EventTypes
  BY DEF Announcement, OrderStatusEnum, EventTypes

\* A step that adds events, and sets a status only with its event.
LEMMA StaysAnnounced ==
    ASSUME TableTypes, StatusIsAnnounced, NEW o \in OrderIds, NEW E, Enqueue(o, E),
           \/ status' = status
           \/ \E s \in OrderStatusEnum :
                status' = [status EXCEPT ![o] = s] /\ Announcement[s] \in E
    PROVE  /\ status' \in [OrderIds -> Statuses]
           /\ emitted' \in [OrderIds -> [EventTypes -> Nat]]
           /\ StatusIsAnnounced'
  <1>1. /\ emitted' \in [OrderIds -> [EventTypes -> Nat]]
        /\ \A p \in OrderIds, e \in EventTypes :
             /\ emitted'[p][e] >= emitted[p][e]
             /\ p = o /\ e \in E => emitted'[p][e] > 0
    BY EnqueueAdds
  <1>2. status \in [OrderIds -> Statuses] /\ emitted \in [OrderIds -> [EventTypes -> Nat]]
    BY DEF TableTypes
  <1>3. status' \in [OrderIds -> Statuses]
    BY <1>2 DEF Statuses
  <1>4. ASSUME NEW p \in OrderIds, status'[p] # "NONE"
        PROVE  emitted'[p][Announcement[status'[p]]] > 0
    <2>1. status'[p] \in OrderStatusEnum
      BY <1>3, <1>4 DEF Statuses
    <2>2. Announcement[status'[p]] \in EventTypes
      BY <2>1, AnnouncementType
    <2>3. CASE status'[p] = status[p]
      <3> DEFINE e == Announcement[status[p]]
      <3>1. emitted[p][e] > 0 /\ e \in EventTypes
        BY <1>4, <2>2, <2>3 DEF StatusIsAnnounced
      <3>2. emitted'[p][e] >= emitted[p][e]
        BY <1>1, <3>1
      <3>3. emitted[p][e] \in Nat /\ emitted'[p][e] \in Nat
        BY <1>1, <1>2, <3>1
      <3>4. emitted'[p][e] > 0
        BY ONLY <3>1, <3>2, <3>3, SMT
      <3> QED
        BY <2>3, <3>4
    <2>4. CASE status'[p] # status[p]
      <3>1. p = o /\ Announcement[status'[p]] \in E
        BY <1>2, <2>4
      <3> QED
        BY <1>1, <2>2, <3>1
    <2> QED
      BY <2>3, <2>4
  <1> QED
    BY <1>1, <1>3, <1>4 DEF StatusIsAnnounced

\* A step that only changes the open transactions and the messages.
LEMMA TablesKept ==
    ASSUME IInv, UNCHANGED database,
           inbox' \in [Messages -> Nat], TxTypes'
    PROVE  IInv'
  BY DEF IInv, TableTypes, ProgressTypes, OneOrderPerKey, StatusIsAnnounced

LEMMA TxSet ==
    ASSUME TxTypes, NEW t \in Txs, NEW r \in OpenTx \cup {Idle},
           tx' = [tx EXCEPT ![t] = r]
    PROVE  TxTypes'
  BY DEF TxTypes

LEMMA InboxKept == IInv /\ UNCHANGED inbox => inbox' \in [Messages -> Nat]
  BY DEF IInv, ProgressTypes

\* A step that opens a transaction.
LEMMA BeginIInv ==
    ASSUME IInv, NEW t \in Txs, NEW r \in OpenTx, Begin(t, r),
           UNCHANGED database,
           inbox' \in [Messages -> Nat]
    PROVE  IInv'
  <1>1. TxTypes'
    BY TxSet DEF Begin, IInv
  <1> QED
    BY <1>1, TablesKept

LEMMA RollbackIInv ==
    ASSUME IInv, NEW t \in Txs, Rollback(t), UNCHANGED inbox
    PROVE  IInv'
  <1>1. TxTypes'
    BY TxSet DEF Rollback, End, IInv
  <1> QED
    BY <1>1, TablesKept, InboxKept DEF Rollback

\* A commit that adds events and perhaps a status, and no order.
LEMMA CommitIInv ==
    ASSUME IInv, NEW t \in Txs, End(t), NEW o \in OrderIds, NEW E, Enqueue(o, E),
           \/ status' = status
           \/ \E s \in OrderStatusEnum :
                status' = [status EXCEPT ![o] = s] /\ Announcement[s] \in E,
           usedKeys' \subseteq Keys \X RequestTypes,
           progress' \in [OrderIds -> [Skus -> Nat]],
           NEW stale, Remember(o, stale),
           UNCHANGED <<orderKey, inbox>>
    PROVE  IInv'
  <1>1. TxTypes'
    BY TxSet DEF End, IInv
  <1>2. /\ status' \in [OrderIds -> Statuses]
        /\ emitted' \in [OrderIds -> [EventTypes -> Nat]]
        /\ StatusIsAnnounced'
    BY StaysAnnounced DEF IInv
  <1>3. raced' \subseteq OrderIds
    BY DEF Remember, IInv, TableTypes
  <1> QED
    BY <1>1, <1>2, <1>3 DEF IInv, TableTypes, ProgressTypes, OneOrderPerKey

LEMMA KeysKept ==
    ASSUME IInv, NEW k \in Keys, NEW req \in RequestTypes, TakeKey(k, req)
    PROVE  usedKeys' \subseteq Keys \X RequestTypes
  BY DEF IInv, TableTypes, TakeKey

-----------------------------------------------------------------------------
(* The steps.                                                              *)

LEMMA CreateReadIInv ==
    ASSUME IInv, NEW t \in Txs, NEW o \in OrderIds, NEW k \in Keys, CreateRead(t, o, k)
    PROVE  IInv'
  <1>1. [op |-> "create", order |-> o, key |-> k] \in OpenTx
    BY DEF OpenTx
  <1> QED
    BY <1>1, BeginIInv, InboxKept DEF CreateRead

LEMMA ApproveReadIInv ==
    ASSUME IInv, NEW t \in Txs, NEW o \in OrderIds, NEW k \in Keys, ApproveRead(t, o, k)
    PROVE  IInv'
  <1>1. [op |-> "approve", order |-> o, key |-> k, seen |-> status[o]] \in OpenTx
    BY DEF OpenTx, ApproveRead, Approvable, OrderStatusEnum
  <1> QED
    BY <1>1, BeginIInv, InboxKept DEF ApproveRead

LEMMA CancelReadIInv ==
    ASSUME IInv, NEW t \in Txs, NEW o \in OrderIds, NEW k \in Keys, CancelRead(t, o, k)
    PROVE  IInv'
  <1>1. [op |-> "cancel", order |-> o, key |-> k, seen |-> status[o]] \in OpenTx
    BY DEF OpenTx, CancelRead, Cancelable, OrderStatusEnum
  <1> QED
    BY <1>1, BeginIInv, InboxKept DEF CancelRead

\* A message is taken from the inbox.
LEMMA ReceiveInbox ==
    ASSUME IInv, NEW m \in Messages, NEW type, Receive(m, type)
    PROVE  inbox' \in [Messages -> Nat] /\ status[m.order] \in OrderStatusEnum
  <1>1. inbox \in [Messages -> Nat] /\ status \in [OrderIds -> Statuses]
    BY DEF IInv, ProgressTypes, TableTypes
  <1>2. inbox[m] > 0 /\ inbox' = [inbox EXCEPT ![m] = inbox[m] - 1] /\ status[m.order] # "NONE"
    BY DEF Receive
  <1>3. inbox[m] - 1 \in Nat
    BY <1>1, <1>2, SMT
  <1> QED
    BY <1>1, <1>2, <1>3, MessageFields DEF Statuses

LEMMA PaymentReadIInv ==
    ASSUME IInv, NEW t \in Txs, NEW m \in Messages, PaymentRead(t, m)
    PROVE  IInv'
  <1> DEFINE r == [op |-> "paid", order |-> m.order, seen |-> status[m.order]]
  <1>1. inbox' \in [Messages -> Nat] /\ status[m.order] \in OrderStatusEnum
    BY ReceiveInbox DEF PaymentRead
  <1>2. r \in OpenTx
    BY <1>1, MessageFields DEF OpenTx
  <1>3. TxTypes'
    <2>1. tx' = [tx EXCEPT ![t] = r] \/ tx' = tx
      BY DEF PaymentRead
    <2> QED
      BY <1>2, <2>1, TxSet DEF IInv, TxTypes
  <1> QED
    BY <1>1, <1>3, TablesKept DEF PaymentRead

LEMMA ShippingReadIInv ==
    ASSUME IInv, NEW t \in Txs, NEW m \in Messages, ShippingRead(t, m)
    PROVE  IInv'
  <1>1. inbox' \in [Messages -> Nat] /\ status[m.order] \in OrderStatusEnum
    BY ReceiveInbox DEF ShippingRead
  <1>2. [op |-> "shipped", order |-> m.order, seen |-> status[m.order]] \in OpenTx
    BY <1>1, MessageFields DEF OpenTx
  <1> QED
    BY <1>1, <1>2, BeginIInv DEF ShippingRead

LEMMA CommitReadIInv ==
    ASSUME IInv, NEW t \in Txs, NEW m \in Messages, CommitRead(t, m)
    PROVE  IInv'
  <1> DEFINE seen == progress[m.order][m.sku]
             next == AtMost(seen + m.qty, Required(m.order, m.sku))
             r == [op |-> "commit", order |-> m.order, sku |-> m.sku,
                   seen |-> seen, next |-> next]
  <1>1. inbox' \in [Messages -> Nat]
    BY ReceiveInbox DEF CommitRead
  <1>2. m.order \in OrderIds /\ m.sku \in Skus /\ m.qty \in Nat
    BY MessageFields DEF CommitRead, Receive
  <1>3. seen \in Nat /\ Required(m.order, m.sku) \in Nat
    BY <1>2, RequiredIsNat DEF IInv, ProgressTypes
  <1>4. next \in Nat
    BY <1>2, <1>3, SMT DEF AtMost
  <1>5. r \in OpenTx
    BY <1>2, <1>3, <1>4 DEF OpenTx
  <1>6. TxTypes'
    <2>1. tx' = [tx EXCEPT ![t] = r] \/ tx' = tx
      BY DEF CommitRead
    <2> QED
      BY <1>5, <2>1, TxSet DEF IInv, TxTypes
  <1> QED
    BY <1>1, <1>6, TablesKept DEF CommitRead

LEMMA CreateCommitIInv ==
    ASSUME IInv, NEW t \in Txs, CreateCommit(t)
    PROVE  IInv'
  <1> DEFINE o == tx[t].order
             k == tx[t].key
  <1>1. o \in OrderIds /\ k \in Keys
    BY TxFields DEF CreateCommit, IInv
  <1>2. CASE KeyIsFree(k, "create") /\ \A p \in OrderIds : orderKey[p] # k
    <2>1. /\ status' = [status EXCEPT ![o] = "PENDING"]
          /\ orderKey' = [orderKey EXCEPT ![o] = k]
          /\ TakeKey(k, "create")
          /\ Enqueue(o, {"OrderCreated"})
          /\ End(t)
          /\ UNCHANGED <<progress, inbox, raced>>
      BY <1>2 DEF CreateCommit
    <2>2. /\ status' \in [OrderIds -> Statuses]
          /\ emitted' \in [OrderIds -> [EventTypes -> Nat]]
          /\ StatusIsAnnounced'
      <3>1. "PENDING" \in OrderStatusEnum /\ Announcement["PENDING"] \in {"OrderCreated"}
        BY DEF OrderStatusEnum, Announcement
      <3> QED
        BY <1>1, <2>1, <3>1, StaysAnnounced DEF IInv
    <2>3. orderKey \in [OrderIds -> Keys \cup {NoKey}]
      BY DEF IInv, TableTypes
    <2>4. orderKey' \in [OrderIds -> Keys \cup {NoKey}]
      BY <1>1, <2>1, <2>3
    <2>5. OneOrderPerKey'
      <3>1. \A p \in OrderIds : orderKey'[p] = IF p = o THEN k ELSE orderKey[p]
        BY <1>1, <2>1, <2>3
      <3>2. OneOrderPerKey
        BY DEF IInv
      <3> QED
        BY <1>2, <3>1, <3>2 DEF OneOrderPerKey
    <2>6. TxTypes'
      BY <2>1, TxSet DEF End, IInv
    <2>7. usedKeys' \subseteq Keys \X RequestTypes
      BY <1>1, <2>1, KeysKept DEF RequestTypes
    <2> QED
      BY <2>1, <2>2, <2>4, <2>5, <2>6, <2>7 DEF IInv, TableTypes, ProgressTypes
  <1>3. CASE ~(KeyIsFree(k, "create") /\ \A p \in OrderIds : orderKey[p] # k)
    <2>1. Rollback(t) /\ UNCHANGED inbox
      BY <1>3 DEF CreateCommit
    <2> QED
      BY <2>1, RollbackIInv
  <1> QED
    BY <1>2, <1>3

LEMMA ApproveCommitIInv ==
    ASSUME IInv, NEW t \in Txs, ApproveCommit(t)
    PROVE  IInv'
  <1> DEFINE o == tx[t].order
             k == tx[t].key
             E == {"InventoryReserveRequested", "PaymentChargeRequested"}
  <1>1. o \in OrderIds /\ k \in Keys
    BY TxFields DEF ApproveCommit, IInv
  <1>2. CASE KeyIsFree(k, "approve") /\ ~HasRepeatedSku(o)
    <2>1. /\ status' = IF tx[t].seen = "PENDING"
                       THEN [status EXCEPT ![o] = "RESERVED"] ELSE status
          /\ TakeKey(k, "approve")
          /\ Enqueue(o, E)
          /\ Remember(o, tx[t].seen # status[o])
          /\ End(t)
          /\ UNCHANGED <<orderKey, progress, inbox>>
      BY <1>2 DEF ApproveCommit
    <2>2. "RESERVED" \in OrderStatusEnum /\ Announcement["RESERVED"] \in E
      BY DEF OrderStatusEnum, Announcement
    <2>3. usedKeys' \subseteq Keys \X RequestTypes
      BY <1>1, <2>1, KeysKept DEF RequestTypes
    <2>4. progress' \in [OrderIds -> [Skus -> Nat]]
      BY <2>1 DEF IInv, ProgressTypes
    <2>5. \/ status' = status
          \/ \E s \in OrderStatusEnum :
               status' = [status EXCEPT ![o] = s] /\ Announcement[s] \in E
      BY <2>1, <2>2
    <2> QED
      BY <1>1, <2>1, <2>3, <2>4, <2>5, CommitIInv
  <1>3. CASE ~(KeyIsFree(k, "approve") /\ ~HasRepeatedSku(o))
    <2>1. Rollback(t) /\ UNCHANGED inbox
      BY <1>3 DEF ApproveCommit
    <2> QED
      BY <2>1, RollbackIInv
  <1> QED
    BY <1>2, <1>3

LEMMA CancelCommitIInv ==
    ASSUME IInv, NEW t \in Txs, CancelCommit(t)
    PROVE  IInv'
  <1> DEFINE o == tx[t].order
             k == tx[t].key
             ok == KeyIsFree(k, "cancel") /\ ~(tx[t].seen # "PAID" /\ HasRepeatedSku(o))
             E == Compensation(tx[t].seen) \cup {"OrderCanceled"}
  <1>1. o \in OrderIds /\ k \in Keys
    BY TxFields DEF CancelCommit, IInv
  <1>2. CASE ok
    <2>1. /\ status' = [status EXCEPT ![o] = "CANCELED"]
          /\ TakeKey(k, "cancel")
          /\ Enqueue(o, E)
          /\ Remember(o, tx[t].seen # status[o])
          /\ End(t)
          /\ UNCHANGED <<orderKey, progress, inbox>>
      BY <1>2 DEF CancelCommit
    <2>2. "CANCELED" \in OrderStatusEnum /\ Announcement["CANCELED"] \in E
      BY DEF OrderStatusEnum, Announcement
    <2>3. usedKeys' \subseteq Keys \X RequestTypes
      BY <1>1, <2>1, KeysKept DEF RequestTypes
    <2>4. progress' \in [OrderIds -> [Skus -> Nat]]
      BY <2>1 DEF IInv, ProgressTypes
    <2>5. \E s \in OrderStatusEnum :
            status' = [status EXCEPT ![o] = s] /\ Announcement[s] \in E
      BY <2>1, <2>2
    <2> QED
      BY <1>1, <2>1, <2>3, <2>4, <2>5, CommitIInv
  <1>3. CASE ~ok
    <2>1. Rollback(t) /\ UNCHANGED inbox
      BY <1>3 DEF CancelCommit
    <2> QED
      BY <2>1, RollbackIInv
  <1> QED
    BY <1>2, <1>3

LEMMA PaymentCommitIInv ==
    ASSUME IInv, NEW t \in Txs, PaymentCommit(t)
    PROVE  IInv'
  <1>1. tx[t].order \in OrderIds
    BY TxFields DEF PaymentCommit, IInv
  <1>2. "PAID" \in OrderStatusEnum /\ Announcement["PAID"] \in {"OrderPaid"}
    BY DEF OrderStatusEnum, Announcement
  <1>3. \E s \in OrderStatusEnum : status' = [status EXCEPT ![tx[t].order] = s]
                                   /\ Announcement[s] \in {"OrderPaid"}
    BY <1>2 DEF PaymentCommit
  <1>4. /\ usedKeys' \subseteq Keys \X RequestTypes
        /\ progress' \in [OrderIds -> [Skus -> Nat]]
    BY DEF PaymentCommit, IInv, TableTypes, ProgressTypes
  <1> QED
    BY <1>1, <1>3, <1>4, CommitIInv DEF PaymentCommit

LEMMA ShippingCommitIInv ==
    ASSUME IInv, NEW t \in Txs, ShippingCommit(t)
    PROVE  IInv'
  <1>1. tx[t].order \in OrderIds
    BY TxFields DEF ShippingCommit, IInv
  <1>2. "SHIPPED" \in OrderStatusEnum /\ Announcement["SHIPPED"] \in {"OrderShipmentShipped"}
    BY DEF OrderStatusEnum, Announcement
  <1>3. \/ status' = status
        \/ \E s \in OrderStatusEnum : status' = [status EXCEPT ![tx[t].order] = s]
                                      /\ Announcement[s] \in {"OrderShipmentShipped"}
    BY <1>2 DEF ShippingCommit
  <1>4. /\ usedKeys' \subseteq Keys \X RequestTypes
        /\ progress' \in [OrderIds -> [Skus -> Nat]]
    BY DEF ShippingCommit, IInv, TableTypes, ProgressTypes
  <1> QED
    BY <1>1, <1>3, <1>4, CommitIInv DEF ShippingCommit

LEMMA CommitSaveIInv ==
    ASSUME IInv, NEW t \in Txs, CommitSave(t)
    PROVE  IInv'
  <1> DEFINE o == tx[t].order
             s == tx[t].sku
             rows == [progress[o] EXCEPT ![s] = tx[t].seen]
             r == [op |-> "saved", order |-> o, sku |-> s, next |-> tx[t].next, read |-> rows]
  <1>1. o \in OrderIds /\ s \in Skus /\ tx[t].next \in Nat /\ tx[t].seen \in Nat
    BY TxFields DEF CommitSave, IInv
  <1>2. r \in OpenTx
    <2>1. progress[o] \in [Skus -> Nat]
      BY <1>1 DEF IInv, ProgressTypes
    <2>2. rows \in [Skus -> Nat]
      BY <1>1, <2>1
    <2> QED
      BY <1>1, <2>2 DEF OpenTx
  <1>3. CASE Rollback(t) /\ UNCHANGED inbox
    BY <1>3, RollbackIInv
  <1>4. CASE /\ tx' = [tx EXCEPT ![t] = r]
             /\ UNCHANGED <<database, inbox>>
    BY <1>2, <1>4, TxSet, TablesKept, InboxKept DEF IInv
  <1> QED
    BY <1>3, <1>4 DEF CommitSave

LEMMA CommitCommitIInv ==
    ASSUME IInv, NEW t \in Txs, CommitCommit(t)
    PROVE  IInv'
  <1> DEFINE o == tx[t].order
             s == tx[t].sku
             ready == AllCommitted(o, [tx[t].read EXCEPT ![s] = tx[t].next])
             E == IF ready THEN {"OrderReadyToShip"} ELSE {}
             stale == tx[t].read # progress[o]
  <1>1. o \in OrderIds /\ s \in Skus /\ tx[t].next \in Nat
    BY TxFields DEF CommitCommit, IInv
  <1>2. progress' \in [OrderIds -> [Skus -> Nat]]
    <2>1. progress \in [OrderIds -> [Skus -> Nat]]
      BY DEF IInv, ProgressTypes
    <2>2. progress' = [progress EXCEPT ![o][s] = tx[t].next]
      BY DEF CommitCommit
    <2> QED
      BY <1>1, <2>1, <2>2
  <1>3. usedKeys' \subseteq Keys \X RequestTypes
    BY DEF CommitCommit, IInv, TableTypes
  <1>4. Enqueue(o, E) /\ Remember(o, stale) /\ End(t) /\ UNCHANGED <<status, orderKey, inbox>>
    BY DEF CommitCommit
  <1> HIDE DEF o, s, E, stale
  <1> QED
    BY <1>1, <1>2, <1>3, <1>4, CommitIInv

-----------------------------------------------------------------------------
(* The theorems.                                                           *)

LEMMA InitIInv == Init => IInv
  <1> SUFFICES ASSUME Init PROVE IInv
    OBVIOUS
  <1>1. TableTypes
    BY DEF Init, TableTypes, Statuses
  <1>2. ProgressTypes /\ TxTypes
    BY BoundsAssumption DEF Init, ProgressTypes, TxTypes
  <1>3. OneOrderPerKey /\ StatusIsAnnounced
    BY DEF Init, OneOrderPerKey, StatusIsAnnounced
  <1> QED
    BY <1>1, <1>2, <1>3 DEF IInv

\* No step breaks the inductive invariant.
LEMMA NextIInv == IInv /\ [Next]_vars => IInv'
  <1> SUFFICES ASSUME IInv, [Next]_vars PROVE IInv'
    OBVIOUS
  <1>1. ASSUME NEW t \in Txs, Start(t) PROVE IInv'
    BY <1>1, CreateReadIInv, ApproveReadIInv, CancelReadIInv, PaymentReadIInv,
       ShippingReadIInv, CommitReadIInv DEF Start
  <1>2. ASSUME NEW t \in Txs, Proceed(t) PROVE IInv'
    BY <1>2, CreateCommitIInv, ApproveCommitIInv, CancelCommitIInv, PaymentCommitIInv,
       ShippingCommitIInv, CommitSaveIInv, CommitCommitIInv DEF Proceed
  <1>3. ASSUME NEW t \in Txs, Fail(t) PROVE IInv'
    BY <1>3, RollbackIInv DEF Fail
  <1>4. CASE UNCHANGED vars
    <2>1. TxTypes'
      BY <1>4 DEF vars, IInv, TxTypes
    <2> QED
      BY <1>4, <2>1, TablesKept, InboxKept DEF vars
  <1> QED
    BY <1>1, <1>2, <1>3, <1>4 DEF Next

\* The inductive invariant holds in every state.
LEMMA OrdersInvariant == Spec => []IInv
  BY InitIInv, NextIInv, PTL DEF Spec

\* The variables of orders-svc keep their types.
THEOREM OrdersTypeCorrect == Spec => []TypeOK
  <1>1. IInv => TypeOK
    BY TypeParts DEF IInv
  <1> QED
    BY <1>1, OrdersInvariant, PTL

\* No number of overlapping or repeated creates makes a second order for one
\* Idempotency-Key (OrdersService.create, uq_orders_idempotency_key).
THEOREM OrdersOneOrderPerKey == Spec => []OneOrderPerKey
  <1>1. IInv => OneOrderPerKey
    BY DEF IInv
  <1> QED
    BY <1>1, OrdersInvariant, PTL

\* Whatever transactions overlap, fail or overwrite each other, a status of
\* an order has its event in the outbox (OrdersService and the handlers of
\* OrdersMessageController).
THEOREM OrdersStatusIsAnnounced == Spec => []StatusIsAnnounced
  <1>1. IInv => StatusIsAnnounced
    BY DEF IInv
  <1> QED
    BY <1>1, OrdersInvariant, PTL

-----------------------------------------------------------------------------
(* The history of an order that no stale commit has touched.               *)

\* What an open transaction decided from what it read, in any interleaving.
Decided(t) ==
    /\ tx[t].op = "create" => status[tx[t].order] = "NONE"
    /\ tx[t].op \notin {"create", "idle"} => status[tx[t].order] # "NONE"
    /\ tx[t].op = "approve" => tx[t].seen \in Approvable
    /\ tx[t].op = "cancel" => tx[t].seen \in Cancelable
    /\ tx[t].op = "paid" => tx[t].seen \in {"PENDING", "RESERVED"}
    /\ tx[t].op \in {"commit", "saved"} =>
         tx[t].next <= Required(tx[t].order, tx[t].sku)
    /\ tx[t].op = "commit" => tx[t].next > tx[t].seen
    /\ tx[t].op = "saved" => tx[t].next > tx[t].read[tx[t].sku]

\* Ids are given to one create each.
FreshIds ==
    \A t, u \in Txs : tx[t].op = "create" /\ tx[u].op = "create" /\ t # u
                      => tx[t].order # tx[u].order

Complete(o) == \A s \in Skus : progress[o][s] >= Required(o, s)

\* The events of an order tell its history.
History(o) ==
    /\ emitted[o]["OrderPaid"] > 0 => status[o] \in {"PAID", "SHIPPED", "CANCELED"}
    /\ emitted[o]["OrderCanceled"] > 0 => status[o] \in {"CANCELED", "SHIPPED"}
    /\ emitted[o]["OrderReadyToShip"] > 0 => Complete(o)
    /\ Lines[o] # << >> /\ Complete(o) => emitted[o]["OrderReadyToShip"] > 0
    /\ \A e \in {"OrderPaid", "OrderReadyToShip", "OrderCanceled"} : emitted[o][e] <= 1
    /\ status[o] = "CANCELED" /\ emitted[o]["OrderPaid"] > 0
         => emitted[o]["PaymentRefundRequested"] > 0

HistoryInv ==
    /\ \A t \in Txs : Decided(t)
    /\ FreshIds
    /\ \A o \in OrderIds, s \in Skus : progress[o][s] <= Required(o, s)
    /\ \A o \in OrderIds \ raced : History(o)

\* The events of one statement, counted.
LEMMA EnqueueCounts ==
    ASSUME TableTypes, NEW o \in OrderIds, NEW E, Enqueue(o, E)
    PROVE  /\ \A p \in OrderIds : p # o => emitted'[p] = emitted[p]
           /\ \A e \in EventTypes :
                emitted[o][e] \in Nat
                /\ emitted'[o][e] = emitted[o][e] + IF e \in E THEN 1 ELSE 0
  <1>1. emitted \in [OrderIds -> [EventTypes -> Nat]]
    BY DEF TableTypes
  <1> DEFINE new == [e \in EventTypes |-> emitted[o][e] + IF e \in E THEN 1 ELSE 0]
  <1>2. emitted' = [emitted EXCEPT ![o] = new]
    BY DEF Enqueue
  <1>3. \A p \in OrderIds : p # o => emitted'[p] = emitted[p]
    BY <1>1, <1>2
  <1>4. emitted'[o] = new
    BY <1>1, <1>2
  <1> QED
    BY <1>1, <1>3, <1>4

\* A step that changes no order, and opens or continues t with r.
LEMMA HistoryQuiet ==
    ASSUME IInv, HistoryInv, NEW t \in Txs, NEW r, tx' = [tx EXCEPT ![t] = r],
           UNCHANGED database, Decided(t)', FreshIds'
    PROVE  HistoryInv'
  <1>1. ASSUME NEW u \in Txs PROVE Decided(u)'
    <2>1. CASE u = t
      BY <2>1
    <2>2. CASE u # t
      <3>1. tx'[u] = tx[u]
        BY <2>2 DEF IInv, TxTypes
      <3> QED
        BY <3>1 DEF HistoryInv, Decided
    <2> QED
      BY <2>1, <2>2
  <1>2. ASSUME NEW o \in OrderIds \ raced PROVE History(o)'
    <2>1. History(o)
      BY DEF HistoryInv
    <2> QED
      BY <2>1 DEF History, Complete
  <1> QED
    BY <1>1, <1>2 DEF HistoryInv

\* No create is opened.
LEMMA FreshIdsKept ==
    ASSUME HistoryInv, \A u \in Txs : tx'[u] = tx[u] \/ tx'[u].op # "create"
    PROVE  FreshIds'
  BY DEF HistoryInv, FreshIds

\* A transaction on o ends, and no other order has changed.
LEMMA HistoryCommit ==
    ASSUME IInv, HistoryInv, NEW t \in Txs, tx[t].op # "idle", End(t),
           NEW o \in OrderIds, tx[t].order = o, NEW stale, Remember(o, stale),
           \A p \in OrderIds : p # o =>
               status'[p] = status[p] /\ progress'[p] = progress[p] /\ emitted'[p] = emitted[p],
           status'[o] # "NONE",
           \A s \in Skus : progress'[o][s] <= Required(o, s),
           ~stale /\ o \notin raced => History(o)'
    PROVE  HistoryInv'
  <1>0. tx \in [Txs -> OpenTx \cup {Idle}] /\ tx' = [tx EXCEPT ![t] = Idle]
    BY DEF IInv, TxTypes, End
  <1>1. ASSUME NEW u \in Txs PROVE Decided(u)'
    <2>1. CASE tx'[u].op = "idle"
      BY <2>1 DEF Decided
    <2>2. CASE tx'[u].op # "idle"
      <3>1. u # t /\ tx'[u] = tx[u]
        BY <1>0, <2>2
      <3>2. tx[u].order \in OrderIds /\ Decided(u) /\ Decided(t)
        BY <2>2, <3>1, TxFields DEF HistoryInv, IInv
      <3>3. tx[u].op = "create" => tx[u].order # o
        BY <3>1, <3>2 DEF Decided, HistoryInv, FreshIds
      <3>4. /\ tx[u].op = "create" => status'[tx[u].order] = "NONE"
            /\ tx[u].op \notin {"create", "idle"} => status'[tx[u].order] # "NONE"
        BY <3>2, <3>3 DEF Decided
      <3> QED
        BY <3>1, <3>2, <3>4 DEF Decided
    <2> QED
      BY <2>1, <2>2
  <1>2. ASSUME NEW p \in OrderIds \ raced' PROVE History(p)'
    <2>1. p \notin raced /\ (p = o => ~stale)
      BY DEF Remember
    <2>2. CASE p = o
      BY <2>1, <2>2
    <2>3. CASE p # o
      <3>1. History(p)
        BY <2>1 DEF HistoryInv
      <3> QED
        BY <2>3, <3>1 DEF History, Complete
    <2> QED
      BY <2>2, <2>3
  <1>3. FreshIds'
    <2>1. \A u \in Txs : tx'[u] = tx[u] \/ tx'[u].op # "create"
      BY <1>0
    <2> QED
      BY <2>1, FreshIdsKept
  <1>4. \A p \in OrderIds, s \in Skus : progress'[p][s] <= Required(p, s)
    BY DEF HistoryInv
  <1> QED
    BY <1>1, <1>2, <1>3, <1>4 DEF HistoryInv

LEMMA HistoryRollback ==
    ASSUME IInv, HistoryInv, NEW t \in Txs, Rollback(t)
    PROVE  HistoryInv'
  <1>1. tx' = [tx EXCEPT ![t] = Idle]
    BY DEF Rollback, End
  <1>2. tx'[t].op = "idle"
    BY <1>1 DEF IInv, TxTypes
  <1>3. Decided(t)'
    BY <1>2 DEF Decided
  <1>4. FreshIds'
    <2>1. \A u \in Txs : tx'[u] = tx[u] \/ tx'[u].op # "create"
      BY <1>1 DEF IInv, TxTypes
    <2> QED
      BY <2>1, FreshIdsKept
  <1> QED
    BY <1>1, <1>3, <1>4, HistoryQuiet DEF Rollback

\* A request opens a transaction.
LEMMA RequestReadHistory ==
    ASSUME IInv, HistoryInv, NEW t \in Txs, NEW o \in OrderIds, NEW k \in Keys,
           CreateRead(t, o, k) \/ ApproveRead(t, o, k) \/ CancelRead(t, o, k)
    PROVE  HistoryInv'
  <1>1. UNCHANGED database
    BY DEF CreateRead, ApproveRead, CancelRead
  <1> DEFINE create == [op |-> "create", order |-> o, key |-> k]
             approve == [op |-> "approve", order |-> o, key |-> k, seen |-> status[o]]
             cancel == [op |-> "cancel", order |-> o, key |-> k, seen |-> status[o]]
  <1>2. PICK r \in {create, approve, cancel} :
          /\ tx' = [tx EXCEPT ![t] = r]
          /\ r = create => IsFresh(o)
          /\ r = approve => status[o] \in Approvable
          /\ r = cancel => status[o] \in Cancelable
    BY DEF CreateRead, ApproveRead, CancelRead, Begin
  <1>3. \A u \in Txs : tx'[u] = IF u = t THEN r ELSE tx[u]
    BY <1>2 DEF IInv, TxTypes
  <1>4. Decided(t)'
    BY <1>1, <1>2, <1>3 DEF Decided, IsFresh, Approvable, Cancelable
  <1>5. FreshIds'
    <2>1. CASE r = create
      BY <1>2, <1>3, <2>1 DEF HistoryInv, FreshIds, IsFresh
    <2>2. CASE r # create
      <3>1. \A u \in Txs : tx'[u] = tx[u] \/ tx'[u].op # "create"
        BY <1>2, <1>3, <2>2
      <3> QED
        BY <3>1, FreshIdsKept
    <2> QED
      BY <2>1, <2>2
  <1> QED
    BY <1>1, <1>2, <1>4, <1>5, HistoryQuiet

\* A message opens a transaction, or none.
LEMMA MessageReadHistory ==
    ASSUME IInv, HistoryInv, NEW t \in Txs, NEW m \in Messages,
           PaymentRead(t, m) \/ ShippingRead(t, m) \/ CommitRead(t, m)
    PROVE  HistoryInv'
  <1> DEFINE o == m.order
             seen == progress[o][m.sku]
             next == AtMost(seen + m.qty, Required(o, m.sku))
  <1>1. UNCHANGED database /\ tx[t] = Idle
    BY DEF PaymentRead, ShippingRead, CommitRead, Begin
  <1>2. o \in OrderIds /\ status[o] # "NONE"
    BY MessageFields DEF PaymentRead, ShippingRead, CommitRead, Receive
  <1> DEFINE paid == [op |-> "paid", order |-> o, seen |-> status[o]]
             shipped == [op |-> "shipped", order |-> o, seen |-> status[o]]
             commit == [op |-> "commit", order |-> o, sku |-> m.sku, seen |-> seen,
                        next |-> next]
  <1>3. PICK r \in {Idle, paid, shipped, commit} :
          /\ tx' = [tx EXCEPT ![t] = r]
          /\ r = paid => status[o] \in {"PENDING", "RESERVED"}
          /\ r = commit => next # seen /\ m.type = "InventoryCommitted"
    <2>0. tx = [tx EXCEPT ![t] = Idle]
      BY <1>1 DEF IInv, TxTypes
    <2>1. CASE PaymentRead(t, m)
      BY <2>0, <2>1 DEF PaymentRead
    <2>2. CASE ShippingRead(t, m)
      BY <2>2 DEF ShippingRead, Begin
    <2>3. CASE CommitRead(t, m)
      <3>1. m.type = "InventoryCommitted"
        BY <2>3 DEF CommitRead, Receive
      <3>2. tx' = IF next # seen THEN [tx EXCEPT ![t] = commit] ELSE tx
        BY <2>3 DEF CommitRead
      <3> HIDE DEF next, seen
      <3> QED
        BY <2>0, <3>1, <3>2
    <2> QED
      BY <2>1, <2>2, <2>3
  <1>4. tx'[t] = r
    BY <1>3 DEF IInv, TxTypes
  <1>5. m.type = "InventoryCommitted" /\ next # seen =>
          next > seen /\ next <= Required(o, m.sku)
    <2> SUFFICES ASSUME m.type = "InventoryCommitted", next # seen
                 PROVE  next > seen /\ next <= Required(o, m.sku)
      OBVIOUS
    <2>1. m.sku \in Skus /\ m.qty \in Nat
      BY MessageFields
    <2>2. seen \in Nat /\ Required(o, m.sku) \in Nat /\ seen <= Required(o, m.sku)
      BY <1>2, <2>1, RequiredIsNat DEF IInv, ProgressTypes, HistoryInv
    <2> HIDE DEF seen
    <2> QED
      BY <2>1, <2>2 DEF AtMost
  <1>6. r.op # "create"
    BY <1>3
  <1> HIDE DEF next, seen
  <1>7. Decided(t)'
    BY <1>1, <1>2, <1>3, <1>4, <1>5 DEF Decided
  <1>8. FreshIds'
    <2>1. \A u \in Txs : tx'[u] = tx[u] \/ tx'[u].op # "create"
      BY <1>3, <1>6 DEF IInv, TxTypes
    <2> QED
      BY <2>1, FreshIdsKept
  <1> QED
    BY <1>1, <1>3, <1>7, <1>8, HistoryQuiet

\* The counts a history is about, before a step that enqueues E for o.
LEMMA HistoryCounts ==
    ASSUME IInv, HistoryInv, NEW o \in OrderIds, NEW E, Enqueue(o, E)
    PROVE  /\ o \notin raced => History(o)
           /\ \A p \in OrderIds : p # o => emitted'[p] = emitted[p]
           /\ \A e \in {"OrderPaid", "OrderReadyToShip", "OrderCanceled",
                      "PaymentRefundRequested"} :
                /\ emitted[o][e] \in Nat
                /\ e \in E => emitted'[o][e] = emitted[o][e] + 1
                /\ e \notin E => emitted'[o][e] = emitted[o][e]
  <1>1. o \notin raced => History(o)
    BY DEF HistoryInv
  <1>2. \A e \in {"OrderPaid", "OrderReadyToShip", "OrderCanceled",
                 "PaymentRefundRequested"} : e \in EventTypes
    BY DEF EventTypes
  <1>3. TableTypes
    BY DEF IInv
  <1>4. /\ \A p \in OrderIds : p # o => emitted'[p] = emitted[p]
        /\ \A e \in EventTypes :
             emitted[o][e] \in Nat
             /\ emitted'[o][e] = emitted[o][e] + IF e \in E THEN 1 ELSE 0
    BY <1>3, EnqueueCounts
  <1>5. \A e \in EventTypes :
             /\ emitted[o][e] \in Nat
             /\ e \in E => emitted'[o][e] = emitted[o][e] + 1
             /\ e \notin E => emitted'[o][e] = emitted[o][e]
    BY <1>4
  <1> QED
    BY <1>1, <1>2, <1>4, <1>5

\* The rows of a step that commits no line stay within the order.
LEMMA CapsKept ==
    ASSUME HistoryInv, NEW o \in OrderIds, UNCHANGED progress
    PROVE  \A s \in Skus : progress'[o][s] <= Required(o, s)
  BY DEF HistoryInv

LEMMA CreateCommitHistory ==
    ASSUME IInv, HistoryInv, NEW t \in Txs, CreateCommit(t)
    PROVE  HistoryInv'
  <1>0. PICK o : o = tx[t].order
    OBVIOUS
  <1> DEFINE k == tx[t].key
  <1>1. o \in OrderIds /\ tx[t].op # "idle" /\ status[o] = "NONE"
    BY <1>0, TxFields DEF CreateCommit, IInv, HistoryInv, Decided
  <1>2. CASE KeyIsFree(k, "create") /\ \A p \in OrderIds : orderKey[p] # k
    <2>1. /\ status' = [status EXCEPT ![o] = "PENDING"]
          /\ Enqueue(o, {"OrderCreated"})
          /\ End(t)
          /\ UNCHANGED <<progress, raced>>
      BY <1>0, <1>2 DEF CreateCommit
    <2>2. status \in [OrderIds -> Statuses]
      BY DEF IInv, TableTypes
    <2>3. /\ o \notin raced => History(o)
          /\ \A p \in OrderIds : p # o => emitted'[p] = emitted[p]
          /\ \A e \in {"OrderPaid", "OrderReadyToShip", "OrderCanceled",
                      "PaymentRefundRequested"} :
               emitted'[o][e] = emitted[o][e]
      BY <1>1, <2>1, HistoryCounts
    <2>4. o \notin raced => History(o)'
      BY <1>1, <2>1, <2>2, <2>3 DEF History, Complete
    <2>5. status'[o] # "NONE" /\ \A p \in OrderIds : p # o => status'[p] = status[p]
      BY <1>1, <2>1, <2>2
    <2>6. Remember(o, FALSE)
      BY <2>1 DEF Remember
    <2> QED
      BY <1>0, <1>1, <2>1, <2>3, <2>4, <2>5, <2>6, CapsKept, HistoryCommit
  <1>3. CASE ~(KeyIsFree(k, "create") /\ \A p \in OrderIds : orderKey[p] # k)
    BY <1>0, <1>3, HistoryRollback DEF CreateCommit
  <1> QED
    BY <1>2, <1>3

\* Of the events that a history counts, an approve emits none.
LEMMA ApproveCommitHistory ==
    ASSUME IInv, HistoryInv, NEW t \in Txs, ApproveCommit(t)
    PROVE  HistoryInv'
  <1>0. PICK o : o = tx[t].order
    OBVIOUS
  <1> DEFINE k == tx[t].key
             E == {"InventoryReserveRequested", "PaymentChargeRequested"}
             stale == tx[t].seen # status[o]
  <1>1. /\ o \in OrderIds /\ tx[t].op # "idle" /\ status[o] # "NONE"
        /\ tx[t].seen \in {"PENDING", "RESERVED"}
    BY <1>0, TxFields DEF ApproveCommit, IInv, HistoryInv, Decided, Approvable
  <1>2. CASE KeyIsFree(k, "approve") /\ ~HasRepeatedSku(o)
    <2>1. /\ status' = IF tx[t].seen = "PENDING"
                       THEN [status EXCEPT ![o] = "RESERVED"] ELSE status
          /\ Enqueue(o, E)
          /\ Remember(o, stale)
          /\ End(t)
          /\ UNCHANGED progress
      BY <1>0, <1>2 DEF ApproveCommit
    <2>2. status \in [OrderIds -> Statuses]
      BY DEF IInv, TableTypes
    <2>3. /\ o \notin raced => History(o)
          /\ \A p \in OrderIds : p # o => emitted'[p] = emitted[p]
          /\ \A e \in {"OrderPaid", "OrderReadyToShip", "OrderCanceled",
                      "PaymentRefundRequested"} :
               emitted'[o][e] = emitted[o][e]
      BY <1>1, <2>1, HistoryCounts
    <2>4. /\ status'[o] # "NONE" /\ \A p \in OrderIds : p # o => status'[p] = status[p]
          /\ ~stale => status'[o] = "RESERVED"
      BY <1>1, <2>1, <2>2
    <2>5. ~stale /\ o \notin raced => History(o)'
      BY <1>1, <2>1, <2>3, <2>4 DEF History, Complete
    <2> HIDE DEF stale
    <2> QED
      BY <1>0, <1>1, <2>1, <2>3, <2>4, <2>5, CapsKept, HistoryCommit
  <1>3. CASE ~(KeyIsFree(k, "approve") /\ ~HasRepeatedSku(o))
    BY <1>0, <1>3, HistoryRollback DEF ApproveCommit
  <1> QED
    BY <1>2, <1>3

\* A paid order that is canceled asks for the refund.
LEMMA CancelCommitHistory ==
    ASSUME IInv, HistoryInv, NEW t \in Txs, CancelCommit(t)
    PROVE  HistoryInv'
  <1>0. PICK o : o = tx[t].order
    OBVIOUS
  <1> DEFINE k == tx[t].key
             ok == KeyIsFree(k, "cancel") /\ ~(tx[t].seen # "PAID" /\ HasRepeatedSku(o))
             E == Compensation(tx[t].seen) \cup {"OrderCanceled"}
             stale == tx[t].seen # status[o]
  <1>1. /\ o \in OrderIds /\ tx[t].op # "idle"
        /\ tx[t].seen \in {"PENDING", "RESERVED", "PAID"}
    BY <1>0, TxFields DEF CancelCommit, IInv, HistoryInv, Decided, Cancelable
  <1>2. CASE ok
    <2>1. /\ status' = [status EXCEPT ![o] = "CANCELED"]
          /\ Enqueue(o, E)
          /\ Remember(o, stale)
          /\ End(t)
          /\ UNCHANGED progress
      BY <1>0, <1>2 DEF CancelCommit
    <2>2. status \in [OrderIds -> Statuses]
      BY DEF IInv, TableTypes
    <2>3. /\ o \notin raced => History(o)
          /\ \A p \in OrderIds : p # o => emitted'[p] = emitted[p]
          /\ \A e \in {"OrderPaid", "OrderReadyToShip", "OrderCanceled",
                      "PaymentRefundRequested"} :
               /\ emitted[o][e] \in Nat
               /\ e \in E => emitted'[o][e] = emitted[o][e] + 1
               /\ e \notin E => emitted'[o][e] = emitted[o][e]
      BY <1>1, <2>1, HistoryCounts
    <2>4. status'[o] = "CANCELED" /\ \A p \in OrderIds : p # o => status'[p] = status[p]
      BY <1>1, <2>1, <2>2
    <2>5. ~stale /\ o \notin raced => History(o)'
      <3> SUFFICES ASSUME ~stale, o \notin raced PROVE History(o)'
        OBVIOUS
      <3>1. History(o) /\ tx[t].seen = status[o]
        BY <2>3
      <3>2. /\ emitted'[o]["OrderCanceled"] = emitted[o]["OrderCanceled"] + 1
            /\ emitted'[o]["OrderPaid"] = emitted[o]["OrderPaid"]
            /\ emitted'[o]["OrderReadyToShip"] = emitted[o]["OrderReadyToShip"]
            /\ status[o] = "PAID" => emitted'[o]["PaymentRefundRequested"] > 0
        BY <1>1, <2>3, <3>1 DEF Compensation
      <3>3. emitted[o]["OrderCanceled"] = 0
        BY <1>1, <2>3, <3>1 DEF History
      <3>4. status[o] # "PAID" => emitted[o]["OrderPaid"] = 0
        BY <1>1, <2>3, <3>1 DEF History
      <3> QED
        BY <1>1, <2>1, <2>3, <2>4, <3>1, <3>2, <3>3, <3>4 DEF History, Complete
    <2> HIDE DEF stale, E
    <2> QED
      BY <1>0, <1>1, <2>1, <2>3, <2>4, <2>5, CapsKept, HistoryCommit
  <1>3. CASE ~ok
    BY <1>0, <1>3, HistoryRollback DEF CancelCommit
  <1> QED
    BY <1>2, <1>3

LEMMA PaymentCommitHistory ==
    ASSUME IInv, HistoryInv, NEW t \in Txs, PaymentCommit(t)
    PROVE  HistoryInv'
  <1>0. PICK o : o = tx[t].order
    OBVIOUS
  <1> DEFINE stale == tx[t].seen # status[o]
  <1>1. /\ o \in OrderIds /\ tx[t].op # "idle"
        /\ tx[t].seen \in {"PENDING", "RESERVED"}
    BY <1>0, TxFields DEF PaymentCommit, IInv, HistoryInv, Decided
  <1>2. /\ status' = [status EXCEPT ![o] = "PAID"]
        /\ Enqueue(o, {"OrderPaid"})
        /\ Remember(o, stale)
        /\ End(t)
        /\ UNCHANGED progress
    BY <1>0 DEF PaymentCommit
  <1>3. /\ o \notin raced => History(o)
        /\ \A p \in OrderIds : p # o => emitted'[p] = emitted[p]
        /\ \A e \in {"OrderPaid", "OrderReadyToShip", "OrderCanceled",
                    "PaymentRefundRequested"} :
             /\ emitted[o][e] \in Nat
             /\ e \in {"OrderPaid"} => emitted'[o][e] = emitted[o][e] + 1
             /\ e \notin {"OrderPaid"} => emitted'[o][e] = emitted[o][e]
    BY <1>1, <1>2, HistoryCounts
  <1>4. status'[o] = "PAID" /\ \A p \in OrderIds : p # o => status'[p] = status[p]
    BY <1>1, <1>2 DEF IInv, TableTypes
  <1>5. ~stale /\ o \notin raced => History(o)'
    <2> SUFFICES ASSUME ~stale, o \notin raced PROVE History(o)'
      OBVIOUS
    <2>1. emitted[o]["OrderPaid"] = 0 /\ emitted[o]["OrderCanceled"] = 0
      BY <1>1, <1>3 DEF History
    <2> QED
      BY <1>2, <1>3, <1>4, <2>1 DEF History, Complete
  <1> HIDE DEF stale
  <1> QED
    BY <1>0, <1>1, <1>2, <1>3, <1>4, <1>5, CapsKept, HistoryCommit

LEMMA ShippingCommitHistory ==
    ASSUME IInv, HistoryInv, NEW t \in Txs, ShippingCommit(t)
    PROVE  HistoryInv'
  <1>0. PICK o : o = tx[t].order
    OBVIOUS
  <1> DEFINE stale == tx[t].seen # status[o]
  <1>1. o \in OrderIds /\ tx[t].op # "idle" /\ status[o] # "NONE"
    BY <1>0, TxFields DEF ShippingCommit, IInv, HistoryInv, Decided
  <1>2. /\ status' = IF tx[t].seen # "SHIPPED"
                     THEN [status EXCEPT ![o] = "SHIPPED"] ELSE status
        /\ Enqueue(o, {"OrderShipmentShipped"})
        /\ Remember(o, stale)
        /\ End(t)
        /\ UNCHANGED progress
    BY <1>0 DEF ShippingCommit
  <1>3. /\ o \notin raced => History(o)
        /\ \A p \in OrderIds : p # o => emitted'[p] = emitted[p]
        /\ \A e \in {"OrderPaid", "OrderReadyToShip", "OrderCanceled",
                    "PaymentRefundRequested"} :
             emitted'[o][e] = emitted[o][e]
    BY <1>1, <1>2, HistoryCounts
  <1>4. /\ status'[o] # "NONE" /\ \A p \in OrderIds : p # o => status'[p] = status[p]
        /\ ~stale => status'[o] = "SHIPPED"
    BY <1>1, <1>2 DEF IInv, TableTypes
  <1>5. ~stale /\ o \notin raced => History(o)'
    BY <1>2, <1>3, <1>4 DEF History, Complete
  <1> HIDE DEF stale
  <1> QED
    BY <1>0, <1>1, <1>2, <1>3, <1>4, <1>5, CapsKept, HistoryCommit

LEMMA CommitSaveHistory ==
    ASSUME IInv, HistoryInv, NEW t \in Txs, CommitSave(t)
    PROVE  HistoryInv'
  <1>0. PICK o, s, n : o = tx[t].order /\ s = tx[t].sku /\ n = tx[t].next
    OBVIOUS
  <1> DEFINE rows == [progress[o] EXCEPT ![s] = tx[t].seen]
             r == [op |-> "saved", order |-> o, sku |-> s, next |-> n, read |-> rows]
  <1>1. CASE Rollback(t)
    BY <1>1, HistoryRollback
  <1>2. CASE tx' = [tx EXCEPT ![t] = r] /\ UNCHANGED database
    <2>1. tx'[t] = r
      BY <1>2 DEF IInv, TxTypes
    <2>2. Decided(t) /\ tx[t].op = "commit"
      BY DEF HistoryInv, CommitSave
    <2>3. o \in OrderIds /\ s \in Skus
      BY <1>0, <2>2, TxFields DEF IInv
    <2>4. rows[s] = tx[t].seen
      BY <2>3 DEF IInv, ProgressTypes
    <2> HIDE DEF rows
    <2>5. /\ tx'[t].op = "saved" /\ tx'[t].order = o /\ tx'[t].sku = s /\ tx'[t].next = n
          /\ tx'[t].read = rows
      BY <2>1
    <2>6. Decided(t)'
      BY <1>0, <1>2, <2>2, <2>4, <2>5 DEF Decided
    <2>7. FreshIds'
      <3>1. \A u \in Txs : tx'[u] = tx[u] \/ tx'[u].op # "create"
        BY <1>2, <2>5 DEF IInv, TxTypes
      <3> QED
        BY <3>1, FreshIdsKept
    <2> QED
      BY <1>2, <2>6, <2>7, HistoryQuiet
  <1> QED
    BY <1>0, <1>1, <1>2 DEF CommitSave

\* All lines of an order are committed exactly when every SKU is.
LEMMA AllCommittedIsComplete ==
    ASSUME NEW o \in OrderIds, NEW rows \in [Skus -> Nat]
    PROVE  AllCommitted(o, rows) <=> \A s \in Skus : rows[s] >= Required(o, s)
  <1>1. \A i \in DOMAIN Lines[o] : Lines[o][i].sku \in Skus
    BY LinesAreFinite
  <1>2. ASSUME AllCommitted(o, rows), NEW s \in Skus PROVE rows[s] >= Required(o, s)
    <2>1. CASE s \in {Lines[o][i].sku : i \in DOMAIN Lines[o]}
      BY <1>2, <2>1 DEF AllCommitted
    <2>2. CASE s \notin {Lines[o][i].sku : i \in DOMAIN Lines[o]}
      <3>1. Required(o, s) = 0
        BY <2>2, NothingRequired
      <3> QED
        BY <3>1
    <2> QED
      BY <2>1, <2>2
  <1> QED
    BY <1>1, <1>2 DEF AllCommitted

\* The order becomes ready with the commit of its last line, and is complete.
LEMMA CommitCommitHistory ==
    ASSUME IInv, HistoryInv, NEW t \in Txs, CommitCommit(t)
    PROVE  HistoryInv'
  <1>0. PICK o : o = tx[t].order
    OBVIOUS
  <1> DEFINE s == tx[t].sku
             n == tx[t].next
             ready == AllCommitted(o, [tx[t].read EXCEPT ![s] = n])
             E == IF ready THEN {"OrderReadyToShip"} ELSE {}
             stale == tx[t].read # progress[o]
  <1>1. /\ o \in OrderIds /\ s \in Skus /\ n \in Nat /\ tx[t].op # "idle"
        /\ tx[t].read \in [Skus -> Nat] /\ status[o] # "NONE"
        /\ n > tx[t].read[s] /\ n <= Required(o, s)
    BY <1>0, TxFields DEF CommitCommit, IInv, HistoryInv, Decided
  <1>2. /\ progress' = [progress EXCEPT ![o][s] = n]
        /\ Enqueue(o, E)
        /\ Remember(o, stale)
        /\ End(t)
        /\ UNCHANGED status
    BY <1>0 DEF CommitCommit
  <1>3. progress \in [OrderIds -> [Skus -> Nat]] /\ \A z \in Skus : Required(o, z) \in Nat
    BY <1>1, RequiredIsNat DEF IInv, ProgressTypes
  <1>4. /\ \A p \in OrderIds : p # o => progress'[p] = progress[p]
        /\ progress'[o] = [progress[o] EXCEPT ![s] = n]
        /\ progress'[o] \in [Skus -> Nat]
        /\ \A z \in Skus : progress'[o][z] = IF z = s THEN n ELSE progress[o][z]
    BY <1>1, <1>2, <1>3
  <1>5. /\ o \notin raced => History(o)
        /\ \A p \in OrderIds : p # o => emitted'[p] = emitted[p]
        /\ \A e \in {"OrderPaid", "OrderReadyToShip", "OrderCanceled",
                    "PaymentRefundRequested"} :
             /\ emitted[o][e] \in Nat
             /\ e \in E => emitted'[o][e] = emitted[o][e] + 1
             /\ e \notin E => emitted'[o][e] = emitted[o][e]
    BY <1>1, <1>2, HistoryCounts
  <1>6. \A z \in Skus : progress'[o][z] <= Required(o, z)
    BY <1>1, <1>4 DEF HistoryInv
  <1>7. ~stale /\ o \notin raced => History(o)'
    <2> SUFFICES ASSUME ~stale, o \notin raced PROVE History(o)'
      OBVIOUS
    <2>1. ready <=> Complete(o)'
      BY <1>1, <1>4, AllCommittedIsComplete DEF Complete
    <2>2. emitted[o]["OrderReadyToShip"] = 0
      <3>1. ~(progress[o][s] >= Required(o, s))
        BY <1>1, <1>3
      <3>2. ~Complete(o)
        BY <1>1, <3>1 DEF Complete
      <3> QED
        BY <1>5, <3>2 DEF History
    <2> HIDE DEF ready
    <2>3. /\ emitted'[o]["OrderPaid"] = emitted[o]["OrderPaid"]
          /\ emitted'[o]["OrderCanceled"] = emitted[o]["OrderCanceled"]
          /\ emitted'[o]["PaymentRefundRequested"] = emitted[o]["PaymentRefundRequested"]
          /\ emitted'[o]["OrderReadyToShip"] = IF ready THEN 1 ELSE 0
      BY <1>5, <2>2
    <2> QED
      BY <1>2, <1>5, <2>1, <2>3 DEF History
  <1> HIDE DEF stale, E
  <1> QED
    BY <1>0, <1>1, <1>2, <1>4, <1>5, <1>6, <1>7, HistoryCommit

LEMMA InitHistory == Init => HistoryInv
  <1> SUFFICES ASSUME Init PROVE HistoryInv
    OBVIOUS
  <1>1. \A t \in Txs : tx[t].op = "idle"
    BY DEF Init
  <1>2. \A o \in OrderIds : \A s \in Skus : progress[o][s] = 0 /\ Required(o, s) \in Nat
    BY RequiredIsNat DEF Init
  <1>3. ASSUME NEW o \in OrderIds PROVE History(o)
    <2>1. status[o] = "NONE" /\ \A e \in EventTypes : emitted[o][e] = 0
      BY DEF Init
    <2>2. Lines[o] # << >> => ~Complete(o)
      BY <1>2, LinesRequire DEF Complete
    <2> QED
      BY <2>1, <2>2 DEF History, EventTypes
  <1> QED
    BY <1>1, <1>2, <1>3 DEF HistoryInv, Decided, FreshIds

LEMMA NextHistory == IInv /\ HistoryInv /\ [Next]_vars => HistoryInv'
  <1> SUFFICES ASSUME IInv, HistoryInv, [Next]_vars PROVE HistoryInv'
    OBVIOUS
  <1>1. ASSUME NEW t \in Txs, Start(t) PROVE HistoryInv'
    BY <1>1, RequestReadHistory, MessageReadHistory DEF Start
  <1>2. ASSUME NEW t \in Txs, Proceed(t) PROVE HistoryInv'
    BY <1>2, CreateCommitHistory, ApproveCommitHistory, CancelCommitHistory,
       PaymentCommitHistory, ShippingCommitHistory, CommitSaveHistory, CommitCommitHistory
       DEF Proceed
  <1>3. ASSUME NEW t \in Txs, Fail(t) PROVE HistoryInv'
    BY <1>3, HistoryRollback DEF Fail
  <1>4. CASE UNCHANGED vars
    BY <1>4 DEF vars, HistoryInv, Decided, FreshIds, History, Complete
  <1> QED
    BY <1>1, <1>2, <1>3, <1>4 DEF Next

-----------------------------------------------------------------------------
(* Charges.                                                                *)

Approved == {k \in Keys : <<k, "approve">> \in usedKeys}

ChargedInv == IsFiniteSet(Approved) /\ ChargedOncePerKey

Charges == [o \in OrderIds |-> emitted[o]["PaymentChargeRequested"]]

LEMMA ChargesTotal == Total("PaymentChargeRequested") = SumFunctionOnSet(Charges, OrderIds)
  BY DEF Total, SumFunction, Charges

\* A step that requests no charge and takes no approve key.
LEMMA NoCharge ==
    ASSUME ChargedInv, Approved' = Approved,
           \A o \in OrderIds :
               emitted'[o]["PaymentChargeRequested"] = emitted[o]["PaymentChargeRequested"]
    PROVE  ChargedInv'
  <1>1. Charges' = Charges
    BY DEF Charges
  <1>2. Total("PaymentChargeRequested")' = SumFunctionOnSet(Charges', OrderIds)
    BY DEF Total, SumFunction, Charges
  <1> QED
    BY <1>1, <1>2, ChargesTotal DEF ChargedInv, ChargedOncePerKey, Approved

\* A commit that enqueues E, without a charge.
LEMMA OtherCommitCharges ==
    ASSUME IInv, ChargedInv, NEW o \in OrderIds, NEW E, Enqueue(o, E),
           "PaymentChargeRequested" \notin E,
           \/ UNCHANGED usedKeys
           \/ \E k \in Keys, req \in {"create", "cancel"} : TakeKey(k, req)
    PROVE  ChargedInv'
  <1>1. Approved' = Approved
    BY DEF Approved, TakeKey
  <1>2. TableTypes /\ "PaymentChargeRequested" \in EventTypes
    BY DEF IInv, EventTypes
  <1>3. /\ \A p \in OrderIds : p # o => emitted'[p] = emitted[p]
        /\ \A e \in EventTypes : emitted[o][e] \in Nat
             /\ emitted'[o][e] = emitted[o][e] + IF e \in E THEN 1 ELSE 0
    BY <1>2, EnqueueCounts
  <1>4. emitted'[o]["PaymentChargeRequested"] = emitted[o]["PaymentChargeRequested"]
    BY <1>2, <1>3
  <1> QED
    BY <1>1, <1>3, <1>4, NoCharge

\* An approve that commits requests one charge and takes one key.
LEMMA ApproveCharges ==
    ASSUME IInv, ChargedInv, NEW o \in OrderIds, NEW k \in Keys,
           KeyIsFree(k, "approve"), TakeKey(k, "approve"),
           Enqueue(o, {"InventoryReserveRequested", "PaymentChargeRequested"})
    PROVE  ChargedInv'
  <1>1. TableTypes /\ "PaymentChargeRequested" \in EventTypes
    BY DEF IInv, EventTypes
  <1>2. /\ emitted' \in [OrderIds -> [EventTypes -> Nat]]
        /\ \A p \in OrderIds : p # o => emitted'[p] = emitted[p]
        /\ emitted[o]["PaymentChargeRequested"] \in Nat
        /\ emitted'[o]["PaymentChargeRequested"] = emitted[o]["PaymentChargeRequested"] + 1
    BY <1>1, EnqueueCounts, EnqueueAdds
  <1>3. PICK f, g : f = Charges /\ g = Charges'
    OBVIOUS
  <1>4. /\ \A p \in OrderIds : f[p] \in Nat
        /\ \A p \in OrderIds : g[p] = IF p = o THEN f[p] + 1 ELSE f[p]
    BY <1>1, <1>2, <1>3 DEF Charges, TableTypes
  <1>5. SumFunctionOnSet(Charges', OrderIds) = SumFunctionOnSet(Charges, OrderIds) + 1
    <2>1. IsFiniteSet(OrderIds)
      BY FiniteAssumption
    <2>2. 1 \in Nat
      OBVIOUS
    <2>3. SumFunctionOnSet(g, OrderIds) = SumFunctionOnSet(f, OrderIds) + 1
      BY <1>4, <2>1, <2>2, SumGrows
    <2> QED
      BY <1>3, <2>3
  <1>6. Approved' = Approved \cup {k} /\ k \notin Approved
    BY DEF Approved, TakeKey, KeyIsFree
  <1>7. /\ IsFiniteSet(Approved')
        /\ Cardinality(Approved') = Cardinality(Approved) + 1
    BY <1>6, FS_AddElement DEF ChargedInv
  <1>8. Total("PaymentChargeRequested")' = SumFunctionOnSet(Charges', OrderIds)
    BY DEF Total, SumFunction, Charges
  <1>9. SumFunctionOnSet(Charges, OrderIds) = Cardinality(Approved)
    BY ChargesTotal DEF ChargedInv, ChargedOncePerKey, Approved
  <1>10. Cardinality(Approved) \in Nat
    BY FS_CardinalityType DEF ChargedInv
  <1>11. SumFunctionOnSet(Charges', OrderIds) = Cardinality(Approved')
    BY <1>5, <1>7, <1>9, <1>10
  <1> QED
    BY <1>7, <1>8, <1>11 DEF ChargedInv, ChargedOncePerKey, Approved

LEMMA ProceedCharges ==
    ASSUME IInv, ChargedInv, NEW t \in Txs, Proceed(t)
    PROVE  ChargedInv'
  <1>0. TxTypes
    BY DEF IInv
  <1>1. CASE UNCHANGED <<usedKeys, emitted>>
    BY <1>1, NoCharge DEF Approved
  <1>2. CASE CreateCommit(t)
    <2>1. \/ UNCHANGED <<usedKeys, emitted>>
          \/ TakeKey(tx[t].key, "create") /\ Enqueue(tx[t].order, {"OrderCreated"})
      BY <1>2 DEF CreateCommit, Rollback
    <2>2. tx[t].order \in OrderIds /\ tx[t].key \in Keys
      BY <1>0, <1>2, TxFields DEF CreateCommit
    <2> QED
      BY <1>1, <2>1, <2>2, OtherCommitCharges
  <1>3. CASE ApproveCommit(t)
    <2>1. \/ UNCHANGED <<usedKeys, emitted>>
          \/ /\ KeyIsFree(tx[t].key, "approve") /\ TakeKey(tx[t].key, "approve")
             /\ Enqueue(tx[t].order, {"InventoryReserveRequested", "PaymentChargeRequested"})
      BY <1>3 DEF ApproveCommit, Rollback
    <2>2. tx[t].order \in OrderIds /\ tx[t].key \in Keys
      BY <1>0, <1>3, TxFields DEF ApproveCommit
    <2> QED
      BY <1>1, <2>1, <2>2, ApproveCharges
  <1>4. CASE CancelCommit(t)
    <2>1. \/ UNCHANGED <<usedKeys, emitted>>
          \/ /\ TakeKey(tx[t].key, "cancel")
             /\ Enqueue(tx[t].order, Compensation(tx[t].seen) \cup {"OrderCanceled"})
      BY <1>4 DEF CancelCommit, Rollback
    <2>2. tx[t].order \in OrderIds /\ tx[t].key \in Keys
      BY <1>0, <1>4, TxFields DEF CancelCommit
    <2>3. "PaymentChargeRequested" \notin Compensation(tx[t].seen) \cup {"OrderCanceled"}
      BY DEF Compensation
    <2> QED
      BY <1>1, <2>1, <2>2, <2>3, OtherCommitCharges
  <1>5. CASE PaymentCommit(t)
    <2>1. tx[t].order \in OrderIds
      BY <1>0, <1>5, TxFields DEF PaymentCommit
    <2> QED
      BY <1>5, <2>1, OtherCommitCharges DEF PaymentCommit
  <1>6. CASE ShippingCommit(t)
    <2>1. tx[t].order \in OrderIds
      BY <1>0, <1>6, TxFields DEF ShippingCommit
    <2> QED
      BY <1>6, <2>1, OtherCommitCharges DEF ShippingCommit
  <1>7. CASE CommitSave(t)
    BY <1>1, <1>7 DEF CommitSave, Rollback
  <1>8. CASE CommitCommit(t)
    <2>1. tx[t].order \in OrderIds
      BY <1>0, <1>8, TxFields DEF CommitCommit
    <2>2. PICK E \in SUBSET {"OrderReadyToShip"} : Enqueue(tx[t].order, E) /\ UNCHANGED usedKeys
      BY <1>8 DEF CommitCommit
    <2> QED
      BY <2>1, <2>2, OtherCommitCharges
  <1> QED
    BY <1>2, <1>3, <1>4, <1>5, <1>6, <1>7, <1>8 DEF Proceed

LEMMA InitCharges == Init => ChargedInv
  <1> SUFFICES ASSUME Init PROVE ChargedInv
    OBVIOUS
  <1>1. Approved = {}
    BY DEF Init, Approved
  <1>2. \A o \in OrderIds : Charges[o] = 0
    BY DEF Init, Charges, EventTypes
  <1>3. SumFunctionOnSet(Charges, OrderIds) = 0
    BY <1>2, SumZero, FiniteAssumption
  <1>4. IsFiniteSet(Approved) /\ Cardinality(Approved) = 0
    BY <1>1, FS_EmptySet
  <1> QED
    BY <1>3, <1>4, ChargesTotal DEF ChargedInv, ChargedOncePerKey, Approved

LEMMA NextCharges == IInv /\ ChargedInv /\ [Next]_vars => ChargedInv'
  <1> SUFFICES ASSUME IInv, ChargedInv, [Next]_vars PROVE ChargedInv'
    OBVIOUS
  <1>1. CASE UNCHANGED <<usedKeys, emitted>>
    BY <1>1, NoCharge DEF Approved
  <1>2. ASSUME NEW t \in Txs, Start(t) PROVE ChargedInv'
    BY <1>1, <1>2 DEF Start, CreateRead, ApproveRead, CancelRead, PaymentRead, ShippingRead,
                      CommitRead
  <1>3. ASSUME NEW t \in Txs, Fail(t) PROVE ChargedInv'
    BY <1>1, <1>3 DEF Fail, Rollback
  <1>4. CASE UNCHANGED vars
    BY <1>1, <1>4 DEF vars
  <1> QED
    BY <1>2, <1>3, <1>4, ProceedCharges DEF Next

-----------------------------------------------------------------------------
(* What was delivered about the inventory, and what orders-svc makes of it.*)

\* A decision about the progress of a line is backed by deliveries.
JustifiedTx(t) ==
    /\ tx[t].op \in {"commit", "saved"} =>
         /\ tx[t].next <= Delivered(tx[t].order, tx[t].sku)
         /\ tx[t].next <= Required(tx[t].order, tx[t].sku)
    /\ tx[t].op = "commit" => tx[t].seen <= tx[t].next
    /\ tx[t].op = "saved" =>
         \A s \in Skus : tx[t].read[s] <= Delivered(tx[t].order, s)

JustifiedOrder(o) ==
    /\ \A s \in Skus :
         progress[o][s] <= Delivered(o, s) /\ progress[o][s] <= Required(o, s)
    /\ emitted[o]["OrderReadyToShip"] > 0 =>
         \A s \in Skus : Delivered(o, s) >= Required(o, s)

JustifiedInv ==
    /\ \A m \in Messages : inbox[m] <= Copies[m]
    /\ \A t \in Txs : JustifiedTx(t)
    /\ \A o \in OrderIds : JustifiedOrder(o)

\* The summands of Delivered.
Deliveries(o, s) ==
    [m \in Messages |-> IF ReportsCommit(m, o, s) THEN m.qty * (Copies[m] - inbox[m]) ELSE 0]

\* Messages that have been delivered no oftener than they were sent.
LEMMA DeliveriesAreNat ==
    ASSUME NEW q \in Nat, NEW n \in Nat
    PROVE  q * n \in Nat
  OBVIOUS

LEMMA DeliveriesGrow ==
    ASSUME NEW q \in Nat, NEW c \in Nat, NEW i \in Nat, NEW j \in Nat, j <= i, i <= c
    PROVE  q * (c - i) <= q * (c - j)
  <1>1. PICK a \in Nat : a = c - i
    OBVIOUS
  <1>2. PICK d \in Nat : d = i - j
    OBVIOUS
  <1>3. c - j = a + d
    BY <1>1, <1>2
  <1>4. q * (a + d) = q * a + q * d /\ q * d >= 0
    OBVIOUS
  <1> QED
    BY <1>1, <1>3, <1>4

LEMMA DeliveredIsSum ==
    ASSUME NEW o \in OrderIds, NEW s \in Skus, inbox \in [Messages -> Nat],
           \A m \in Messages : inbox[m] <= Copies[m]
    PROVE  /\ Delivered(o, s) = SumFunctionOnSet(Deliveries(o, s), Messages)
           /\ \A m \in Messages : Deliveries(o, s)[m] \in Nat
           /\ Delivered(o, s) \in Nat
  <1>1. Delivered(o, s) = SumFunctionOnSet(Deliveries(o, s), Messages)
    BY DEF Delivered, Deliveries, SumFunction
  <1>2. ASSUME NEW m \in Messages PROVE Deliveries(o, s)[m] \in Nat
    <2>1. Copies[m] - inbox[m] \in Nat
      BY BoundsAssumption
    <2>2. ReportsCommit(m, o, s) => m.qty * (Copies[m] - inbox[m]) \in Nat
      BY <2>1, MessageFields, DeliveriesAreNat DEF ReportsCommit
    <2> QED
      BY <2>2 DEF Deliveries
  <1>3. IsFiniteSet(Messages)
    BY FiniteAssumption
  <1>4. PICK f : f = Deliveries(o, s)
    OBVIOUS
  <1>5. SumFunctionOnSet(f, Messages) \in Nat
    BY <1>2, <1>3, <1>4, SumNat
  <1> QED
    BY <1>1, <1>2, <1>4, <1>5

\* The same after a step.
LEMMA DeliveredIsSumNext ==
    ASSUME NEW o \in OrderIds, NEW s \in Skus, inbox' \in [Messages -> Nat],
           \A m \in Messages : inbox'[m] <= Copies[m]
    PROVE  /\ Delivered(o, s)' = SumFunctionOnSet(Deliveries(o, s)', Messages)
           /\ \A m \in Messages : Deliveries(o, s)'[m] \in Nat
           /\ Delivered(o, s)' \in Nat
  <1>1. Delivered(o, s)' = SumFunctionOnSet(Deliveries(o, s)', Messages)
    BY DEF Delivered, Deliveries, SumFunction
  <1>2. ASSUME NEW m \in Messages PROVE Deliveries(o, s)'[m] \in Nat
    <2>1. Copies[m] - inbox'[m] \in Nat
      BY BoundsAssumption
    <2>2. ReportsCommit(m, o, s) => m.qty * (Copies[m] - inbox'[m]) \in Nat
      BY <2>1, MessageFields, DeliveriesAreNat DEF ReportsCommit
    <2> QED
      BY <2>2 DEF Deliveries
  <1>3. IsFiniteSet(Messages)
    BY FiniteAssumption
  <1>4. PICK f : f = Deliveries(o, s)'
    OBVIOUS
  <1>5. SumFunctionOnSet(f, Messages) \in Nat
    BY <1>2, <1>3, <1>4, SumNat
  <1> QED
    BY <1>1, <1>2, <1>4, <1>5

\* Nothing that was delivered is taken back.
LEMMA DeliveredGrows ==
    ASSUME IInv, JustifiedInv, \A m \in Messages : inbox'[m] \in Nat /\ inbox'[m] <= inbox[m],
           inbox' \in [Messages -> Nat], NEW o \in OrderIds, NEW s \in Skus
    PROVE  /\ Delivered(o, s) <= Delivered(o, s)'
           /\ Delivered(o, s) \in Nat /\ Delivered(o, s)' \in Nat
  <1>1. PICK f, g : f = Deliveries(o, s) /\ g = Deliveries(o, s)'
    OBVIOUS
  <1>0. /\ inbox \in [Messages -> Nat] /\ Copies \in [Messages -> Nat]
        /\ \A m \in Messages : inbox[m] <= Copies[m] /\ inbox'[m] <= Copies[m]
    BY BoundsAssumption DEF IInv, ProgressTypes, JustifiedInv
  <1>2. ASSUME NEW m \in Messages
        PROVE  f[m] \in Nat /\ g[m] \in Nat /\ f[m] <= g[m]
    <2>1. f[m] \in Nat /\ g[m] \in Nat
      BY <1>0, <1>1, DeliveredIsSum, DeliveredIsSumNext
    <2>2. ReportsCommit(m, o, s) =>
            m.qty * (Copies[m] - inbox[m]) <= m.qty * (Copies[m] - inbox'[m])
      BY <1>0, MessageFields, DeliveriesGrow DEF ReportsCommit
    <2> QED
      BY <1>1, <2>1, <2>2 DEF Deliveries
  <1>3. IsFiniteSet(Messages)
    BY FiniteAssumption
  <1>4. SumFunctionOnSet(f, Messages) <= SumFunctionOnSet(g, Messages)
    BY <1>2, <1>3, SumMonotone
  <1> QED
    BY <1>0, <1>1, <1>4, DeliveredIsSum, DeliveredIsSumNext

\* A commit event that arrives counts once more from the step on.
LEMMA OneMoreDelivery ==
    ASSUME IInv, JustifiedInv,
           NEW m \in Messages, m.type = "InventoryCommitted", inbox[m] > 0,
           inbox' = [inbox EXCEPT ![m] = @ - 1]
    PROVE  Delivered(m.order, m.sku)' = Delivered(m.order, m.sku) + m.qty
  <1>0. PICK o, s, q : o = m.order /\ s = m.sku /\ q = m.qty
    OBVIOUS
  <1>1. o \in OrderIds /\ s \in Skus /\ q \in Nat
    BY <1>0, MessageFields
  <1>2. PICK f, g : f = Deliveries(o, s) /\ g = Deliveries(o, s)'
    OBVIOUS
  <1>3. /\ inbox \in [Messages -> Nat] /\ Copies \in [Messages -> Nat]
        /\ \A n \in Messages : inbox[n] <= Copies[n]
    BY BoundsAssumption DEF IInv, ProgressTypes, JustifiedInv
  <1>4. inbox' \in [Messages -> Nat] /\ \A n \in Messages : inbox'[n] <= Copies[n]
    BY <1>3
  <1>5. \A n \in Messages \ {m} : f[n] = g[n]
    BY <1>2, <1>3 DEF Deliveries
  <1>6. g[m] = f[m] + q
    <2>1. PICK n \in Nat : n = Copies[m] - inbox[m] /\ n + 1 = Copies[m] - inbox'[m]
      BY <1>3
    <2>2. f[m] = q * n /\ g[m] = q * (n + 1)
      BY <1>0, <1>2, <2>1 DEF Deliveries, ReportsCommit
    <2>3. q * (n + 1) = q * n + q
      BY <1>1
    <2> QED
      BY <2>2, <2>3
  <1>7. \A n \in Messages : f[n] \in Nat /\ g[n] \in Nat
    BY <1>1, <1>2, <1>3, <1>4, DeliveredIsSum, DeliveredIsSumNext
  <1>8. IsFiniteSet(Messages)
    BY FiniteAssumption
  <1>9. SumFunctionOnSet(g, Messages) = SumFunctionOnSet(f, Messages) + g[m] - f[m]
    BY <1>5, <1>7, <1>8, SumChange
  <1>10. /\ Delivered(o, s) = SumFunctionOnSet(f, Messages)
         /\ Delivered(o, s)' = SumFunctionOnSet(g, Messages)
         /\ Delivered(o, s) \in Nat
    BY <1>1, <1>2, <1>3, <1>4, DeliveredIsSum, DeliveredIsSumNext
  <1>11. Delivered(o, s)' = Delivered(o, s) + q
    BY <1>1, <1>6, <1>7, <1>9, <1>10
  <1> QED
    BY <1>0, <1>11

\* A step of t that writes no progress and makes no order ready.
LEMMA JustifiedQuiet ==
    ASSUME IInv, IInv', JustifiedInv, NEW t,
           \A m \in Messages : inbox'[m] <= inbox[m],
           \A o \in OrderIds :
               /\ progress'[o] = progress[o]
               /\ emitted'[o]["OrderReadyToShip"] = emitted[o]["OrderReadyToShip"],
           \A u \in Txs \ {t} : tx'[u] = tx[u],
           t \in Txs => JustifiedTx(t)'
    PROVE  JustifiedInv'
  <1>1. \A m \in Messages : inbox'[m] \in Nat /\ inbox[m] \in Nat /\ Copies[m] \in Nat
    BY BoundsAssumption DEF IInv, ProgressTypes
  <1>2. \A m \in Messages : inbox'[m] <= Copies[m]
    BY <1>1 DEF JustifiedInv
  <1>3. \A o \in OrderIds, s \in Skus :
          /\ Delivered(o, s) <= Delivered(o, s)'
          /\ Delivered(o, s) \in Nat /\ Delivered(o, s)' \in Nat
          /\ Required(o, s) \in Nat /\ progress[o][s] \in Nat
    BY <1>1, DeliveredGrows, RequiredIsNat DEF IInv, ProgressTypes
  <1>4. ASSUME NEW o \in OrderIds PROVE JustifiedOrder(o)'
    <2>1. JustifiedOrder(o)
      BY DEF JustifiedInv
    <2> QED
      BY <1>3, <2>1 DEF JustifiedOrder
  <1>5. ASSUME NEW u \in Txs, u # t PROVE JustifiedTx(u)'
    <2>1. JustifiedTx(u) /\ tx'[u] = tx[u]
      BY <1>5 DEF JustifiedInv
    <2>2. PICK r : r = tx[u]
      OBVIOUS
    <2>3. CASE r.op \notin {"commit", "saved"}
      BY <2>1, <2>2, <2>3 DEF JustifiedTx
    <2>4. CASE r.op \in {"commit", "saved"}
      <3>1. r.order \in OrderIds /\ r.sku \in Skus /\ r.next \in Nat
        BY <2>2, <2>4, TxFields DEF IInv
      <3>2. PICK o, s, n : o = r.order /\ s = r.sku /\ n = r.next
        OBVIOUS
      <3>3. /\ n <= Delivered(o, s)' /\ n <= Required(o, s)
            /\ r.op = "saved" => \A z \in Skus : r.read[z] <= Delivered(o, z)'
        <4>1. r.op = "saved" => \A z \in Skus : r.read[z] \in Nat
          BY <2>2, TxFields DEF IInv
        <4> QED
          BY <1>3, <2>1, <2>2, <2>4, <3>1, <3>2, <4>1 DEF JustifiedTx
      <3> QED
        BY <2>1, <2>2, <3>2, <3>3 DEF JustifiedTx
    <2> QED
      BY <2>3, <2>4
  <1> QED
    BY <1>2, <1>4, <1>5 DEF JustifiedInv

\* The read of a commit event decides on what the event reports.
LEMMA CommitReadJustified ==
    ASSUME IInv, IInv', JustifiedInv, NEW t \in Txs, NEW m \in Messages,
           CommitRead(t, m)
    PROVE  JustifiedInv'
  <1>0. PICK o, s, q : o = m.order /\ s = m.sku /\ q = m.qty
    OBVIOUS
  <1> DEFINE seen == progress[o][s]
             next == AtMost(seen + q, Required(o, s))
             r == [op |-> "commit", order |-> o, sku |-> s, seen |-> seen, next |-> next]
  <1>1. /\ m.type = "InventoryCommitted" /\ inbox[m] > 0
        /\ inbox' = [inbox EXCEPT ![m] = @ - 1]
        /\ UNCHANGED <<progress, emitted>>
        /\ tx[t] = Idle
        /\ tx' = IF next # seen THEN [tx EXCEPT ![t] = r] ELSE tx
    BY <1>0 DEF CommitRead, Receive
  <1>2. o \in OrderIds /\ s \in Skus /\ q \in Nat
    BY <1>0, <1>1, MessageFields
  <1>3. \A n \in Messages : inbox'[n] \in Nat /\ inbox[n] \in Nat /\ inbox'[n] <= inbox[n]
    BY <1>1 DEF IInv, ProgressTypes
  <1>4. Delivered(o, s)' = Delivered(o, s) + q
    BY <1>0, <1>1, OneMoreDelivery
  <1>5. seen \in Nat /\ Required(o, s) \in Nat /\ Delivered(o, s) \in Nat /\ seen <= Delivered(o, s)
    BY <1>2, RequiredIsNat, DeliveredIsSum DEF IInv, ProgressTypes, JustifiedInv, JustifiedOrder
  <1>6. next <= Delivered(o, s)' /\ next <= Required(o, s) /\ seen <= next
    <2>1. seen <= Required(o, s)
      BY <1>2 DEF JustifiedInv, JustifiedOrder
    <2> HIDE DEF seen
    <2> QED
      BY <1>2, <1>4, <1>5, <2>1 DEF AtMost
  <1>7. JustifiedTx(t)'
    <2>1. CASE tx'[t] = Idle
      BY <2>1 DEF JustifiedTx
    <2>2. CASE tx'[t] = r
      <3>1. /\ tx'[t].op = "commit" /\ tx'[t].order = o /\ tx'[t].sku = s
            /\ tx'[t].next = next /\ tx'[t].seen = seen
        BY <2>2
      <3> HIDE DEF next, seen
      <3> QED
        BY <1>6, <3>1 DEF JustifiedTx
    <2> QED
      BY <1>1, <2>1, <2>2 DEF IInv, TxTypes
  <1>8. \A u \in Txs \ {t} : tx'[u] = tx[u]
    BY <1>1 DEF IInv, TxTypes
  <1> QED
    BY <1>1, <1>3, <1>7, <1>8, JustifiedQuiet

LEMMA StartJustified ==
    ASSUME IInv, IInv', JustifiedInv, NEW t \in Txs, Start(t)
    PROVE  JustifiedInv'
  <1>1. ASSUME NEW o \in OrderIds, NEW k \in Keys,
               CreateRead(t, o, k) \/ ApproveRead(t, o, k) \/ CancelRead(t, o, k)
        PROVE  JustifiedInv'
    <2>1. /\ UNCHANGED <<progress, emitted, inbox>>
          /\ \E r : r.op \in {"create", "approve", "cancel"} /\ Begin(t, r)
      <3>1. CASE CreateRead(t, o, k)
        <4>1. [op |-> "create", order |-> o, key |-> k].op = "create"
          OBVIOUS
        <4> QED
          BY <3>1, <4>1 DEF CreateRead
      <3>2. CASE ApproveRead(t, o, k)
        <4>1. [op |-> "approve", order |-> o, key |-> k, seen |-> status[o]].op = "approve"
          OBVIOUS
        <4> QED
          BY <3>2, <4>1 DEF ApproveRead
      <3>3. CASE CancelRead(t, o, k)
        <4>1. [op |-> "cancel", order |-> o, key |-> k, seen |-> status[o]].op = "cancel"
          OBVIOUS
        <4> QED
          BY <3>3, <4>1 DEF CancelRead
      <3> QED
        BY <1>1, <3>1, <3>2, <3>3
    <2>2. /\ tx'[t].op \in {"create", "approve", "cancel"}
          /\ \A u \in Txs \ {t} : tx'[u] = tx[u]
      BY <2>1 DEF Begin, IInv, TxTypes
    <2>3. JustifiedTx(t)'
      BY <2>2 DEF JustifiedTx
    <2>4. \A m \in Messages : inbox'[m] <= inbox[m]
      BY <2>1 DEF IInv, ProgressTypes
    <2> QED
      BY <2>1, <2>2, <2>3, <2>4, JustifiedQuiet
  <1>2. ASSUME NEW m \in Messages, PaymentRead(t, m) \/ ShippingRead(t, m)
        PROVE  JustifiedInv'
    <2>1. /\ inbox' = [inbox EXCEPT ![m] = @ - 1]
          /\ UNCHANGED <<progress, emitted>>
      BY <1>2 DEF PaymentRead, ShippingRead, Receive
    <2>2. tx'[t].op \in {"idle", "paid", "shipped"} /\ \A u \in Txs \ {t} : tx'[u] = tx[u]
      <3>1. CASE PaymentRead(t, m)
        BY <3>1 DEF PaymentRead, IInv, TxTypes
      <3>2. CASE ShippingRead(t, m)
        BY <3>2 DEF ShippingRead, Begin, IInv, TxTypes
      <3> QED
        BY <1>2, <3>1, <3>2
    <2>3. JustifiedTx(t)'
      BY <2>2 DEF JustifiedTx
    <2>4. \A n \in Messages : inbox'[n] <= inbox[n]
      BY <2>1 DEF IInv, ProgressTypes
    <2> QED
      BY <2>1, <2>2, <2>3, <2>4, JustifiedQuiet
  <1> QED
    BY <1>1, <1>2, CommitReadJustified DEF Start

\* What a transaction has read of the progress was delivered, too: a commit
\* decides on the row as it read it, the rest it reads as it saves.
LEMMA CommitSaveJustified ==
    ASSUME IInv, IInv', JustifiedInv, NEW t \in Txs, CommitSave(t)
    PROVE  JustifiedInv'
  <1>0. PICK o, s, n : o = tx[t].order /\ s = tx[t].sku /\ n = tx[t].next
    OBVIOUS
  <1> DEFINE rows == [progress[o] EXCEPT ![s] = tx[t].seen]
             r == [op |-> "saved", order |-> o, sku |-> s, next |-> n, read |-> rows]
  <1>1. /\ tx[t].op = "commit" /\ UNCHANGED <<progress, emitted, inbox>>
        /\ tx' = [tx EXCEPT ![t] = Idle] \/ tx' = [tx EXCEPT ![t] = r]
    BY <1>0 DEF CommitSave, Rollback, End
  <1>2. o \in OrderIds /\ s \in Skus /\ n \in Nat /\ tx[t].seen \in Nat
    BY <1>0, <1>1, TxFields DEF IInv
  <1>3. n <= Delivered(o, s) /\ n <= Required(o, s) /\ tx[t].seen <= n
    BY <1>0, <1>1 DEF JustifiedInv, JustifiedTx
  <1>4. inbox \in [Messages -> Nat] /\ \A m \in Messages : inbox[m] <= Copies[m]
    BY DEF IInv, ProgressTypes, JustifiedInv
  <1>5. \A z \in Skus : /\ Delivered(o, z)' = Delivered(o, z) /\ Delivered(o, z) \in Nat
                        /\ progress[o][z] \in Nat /\ progress[o][z] <= Delivered(o, z)
    BY <1>1, <1>2, <1>4, DeliveredIsSum
       DEF Delivered, IInv, ProgressTypes, JustifiedInv, JustifiedOrder
  <1>6. \A z \in Skus : rows[z] <= Delivered(o, z)
    <2>1. \A z \in Skus : rows[z] = IF z = s THEN tx[t].seen ELSE progress[o][z]
      BY <1>2 DEF IInv, ProgressTypes
    <2> HIDE DEF rows
    <2> QED
      BY <1>2, <1>3, <1>5, <2>1
  <1>7. JustifiedTx(t)'
    <2>1. CASE tx'[t] = Idle
      BY <2>1 DEF JustifiedTx
    <2>2. CASE tx'[t] = r
      <3> HIDE DEF rows
      <3>1. /\ tx'[t].op = "saved" /\ tx'[t].order = o /\ tx'[t].sku = s
            /\ tx'[t].next = n /\ tx'[t].read = rows
        BY <2>2
      <3> QED
        BY <1>2, <1>3, <1>5, <1>6, <3>1 DEF JustifiedTx
    <2> QED
      BY <1>1, <2>1, <2>2 DEF IInv, TxTypes
  <1>8. \A u \in Txs \ {t} : tx'[u] = tx[u]
    BY <1>1 DEF IInv, TxTypes
  <1>9. \A m \in Messages : inbox'[m] <= inbox[m]
    BY <1>1 DEF IInv, ProgressTypes
  <1> QED
    BY <1>1, <1>7, <1>8, <1>9, JustifiedQuiet

\* A commit of t that does not touch progress and readiness.
LEMMA OtherCommitJustified ==
    ASSUME IInv, IInv', JustifiedInv, NEW t \in Txs, NEW o \in OrderIds, NEW E,
           Enqueue(o, E), "OrderReadyToShip" \notin E, End(t), UNCHANGED <<progress, inbox>>
    PROVE  JustifiedInv'
  <1>1. TableTypes /\ "OrderReadyToShip" \in EventTypes
    BY DEF IInv, EventTypes
  <1>2. /\ \A p \in OrderIds : p # o => emitted'[p] = emitted[p]
        /\ emitted'[o]["OrderReadyToShip"] = emitted[o]["OrderReadyToShip"]
    BY <1>1, EnqueueCounts
  <1>3. tx'[t].op = "idle" /\ \A u \in Txs \ {t} : tx'[u] = tx[u]
    BY DEF End, IInv, TxTypes
  <1>4. JustifiedTx(t)'
    BY <1>3 DEF JustifiedTx
  <1>5. \A m \in Messages : inbox'[m] <= inbox[m]
    BY DEF IInv, ProgressTypes
  <1> QED
    BY <1>2, <1>3, <1>4, <1>5, JustifiedQuiet

LEMMA RollbackJustified ==
    ASSUME IInv, IInv', JustifiedInv, NEW t \in Txs, Rollback(t), UNCHANGED inbox
    PROVE  JustifiedInv'
  <1>1. tx'[t].op = "idle" /\ \A u \in Txs \ {t} : tx'[u] = tx[u]
    BY DEF Rollback, End, IInv, TxTypes
  <1>2. JustifiedTx(t)'
    BY <1>1 DEF JustifiedTx
  <1>3. \A m \in Messages : inbox'[m] <= inbox[m]
    BY DEF IInv, ProgressTypes
  <1> QED
    BY <1>1, <1>2, <1>3, JustifiedQuiet DEF Rollback

\* What a transaction writes, even over a later value, is justified.
LEMMA CommitCommitJustified ==
    ASSUME IInv, IInv', JustifiedInv, NEW t \in Txs, CommitCommit(t)
    PROVE  JustifiedInv'
  <1>0. PICK o, s, n : o = tx[t].order /\ s = tx[t].sku /\ n = tx[t].next
    OBVIOUS
  <1> DEFINE rows == [tx[t].read EXCEPT ![s] = n]
             ready == AllCommitted(o, rows)
             E == IF ready THEN {"OrderReadyToShip"} ELSE {}
  <1>1. /\ tx[t].op = "saved" /\ progress' = [progress EXCEPT ![o][s] = n]
        /\ Enqueue(o, E) /\ tx' = [tx EXCEPT ![t] = Idle] /\ UNCHANGED inbox
    BY <1>0 DEF CommitCommit, End
  <1>2. o \in OrderIds /\ s \in Skus /\ n \in Nat /\ tx[t].read \in [Skus -> Nat]
    BY <1>0, <1>1, TxFields DEF IInv
  <1>3. \A p \in OrderIds, z \in Skus : Delivered(p, z)' = Delivered(p, z)
    BY <1>1 DEF Delivered
  <1>4. /\ n <= Delivered(o, s) /\ n <= Required(o, s)
        /\ ready => \A z \in Skus : Delivered(o, z) >= Required(o, z)
    <2>1. /\ n <= Delivered(o, s) /\ n <= Required(o, s)
          /\ \A z \in Skus : tx[t].read[z] <= Delivered(o, z)
      BY <1>0, <1>1 DEF JustifiedInv, JustifiedTx
    <2>2. rows \in [Skus -> Nat] /\ \A z \in Skus : rows[z] = IF z = s THEN n ELSE tx[t].read[z]
      BY <1>2
    <2> HIDE DEF rows
    <2>3. \A z \in Skus : rows[z] \in Nat /\ rows[z] <= Delivered(o, z)
      BY <2>1, <2>2
    <2>4. \A z \in Skus : Required(o, z) \in Nat /\ Delivered(o, z) \in Nat
      BY <1>2, RequiredIsNat, DeliveredIsSum DEF IInv, ProgressTypes, JustifiedInv
    <2>5. ready => \A z \in Skus : rows[z] >= Required(o, z)
      BY <1>2, <2>2, AllCommittedIsComplete
    <2> QED
      BY <2>1, <2>3, <2>4, <2>5
  <1> HIDE DEF ready
  <1>5. progress \in [OrderIds -> [Skus -> Nat]]
    BY DEF IInv, ProgressTypes
  <1>6. /\ \A p \in OrderIds : p # o => progress'[p] = progress[p]
        /\ \A z \in Skus : progress'[o][z] = IF z = s THEN n ELSE progress[o][z]
    BY <1>1, <1>2, <1>5
  <1>7. /\ \A p \in OrderIds : p # o => emitted'[p] = emitted[p]
        /\ ~ ready => emitted'[o]["OrderReadyToShip"] = emitted[o]["OrderReadyToShip"]
    <2>1. TableTypes /\ "OrderReadyToShip" \in EventTypes
      BY DEF IInv, EventTypes
    <2> QED
      BY <1>1, <1>2, <2>1, EnqueueCounts
  <1>8. ASSUME NEW p \in OrderIds PROVE JustifiedOrder(p)'
    <2>1. JustifiedOrder(p)
      BY DEF JustifiedInv
    <2>2. CASE p # o
      BY <1>3, <1>6, <1>7, <2>1, <2>2 DEF JustifiedOrder
    <2>3. CASE p = o
      BY <1>2, <1>3, <1>4, <1>6, <1>7, <2>1, <2>3 DEF JustifiedOrder
    <2> QED
      BY <2>2, <2>3
  <1>9. ASSUME NEW u \in Txs PROVE JustifiedTx(u)'
    <2>1. CASE u = t
      <3>1. tx'[u].op = "idle"
        BY <1>1, <2>1 DEF IInv, TxTypes
      <3> QED
        BY <3>1 DEF JustifiedTx
    <2>2. CASE u # t
      <3>1. tx'[u] = tx[u] /\ JustifiedTx(u)
        BY <1>1, <2>2 DEF IInv, TxTypes, JustifiedInv
      <3>2. tx[u].op \in {"commit", "saved"} => tx[u].order \in OrderIds /\ tx[u].sku \in Skus
        BY TxFields DEF IInv
      <3> QED
        BY <1>3, <3>1, <3>2 DEF JustifiedTx
    <2> QED
      BY <2>1, <2>2
  <1>10. \A m \in Messages : inbox'[m] <= Copies[m]
    BY <1>1 DEF JustifiedInv
  <1> QED
    BY <1>8, <1>9, <1>10 DEF JustifiedInv

LEMMA ProceedJustified ==
    ASSUME IInv, IInv', JustifiedInv, NEW t \in Txs, Proceed(t)
    PROVE  JustifiedInv'
  <1>0. TxTypes
    BY DEF IInv
  <1>1. CASE CreateCommit(t)
    <2>1. \/ Rollback(t) /\ UNCHANGED inbox
          \/ /\ Enqueue(tx[t].order, {"OrderCreated"})
             /\ End(t) /\ UNCHANGED <<progress, inbox>>
      BY <1>1 DEF CreateCommit
    <2>2. tx[t].order \in OrderIds
      BY <1>0, <1>1, TxFields DEF CreateCommit
    <2> QED
      BY <2>1, <2>2, RollbackJustified, OtherCommitJustified
  <1>2. CASE ApproveCommit(t)
    <2>1. \/ Rollback(t) /\ UNCHANGED inbox
          \/ /\ Enqueue(tx[t].order, {"InventoryReserveRequested", "PaymentChargeRequested"})
             /\ End(t) /\ UNCHANGED <<progress, inbox>>
      BY <1>2 DEF ApproveCommit
    <2>2. tx[t].order \in OrderIds
      BY <1>0, <1>2, TxFields DEF ApproveCommit
    <2> QED
      BY <2>1, <2>2, RollbackJustified, OtherCommitJustified
  <1>3. CASE CancelCommit(t)
    <2>1. \/ Rollback(t) /\ UNCHANGED inbox
          \/ /\ Enqueue(tx[t].order, Compensation(tx[t].seen) \cup {"OrderCanceled"})
             /\ End(t) /\ UNCHANGED <<progress, inbox>>
      BY <1>3 DEF CancelCommit
    <2>2. tx[t].order \in OrderIds
      BY <1>0, <1>3, TxFields DEF CancelCommit
    <2>3. "OrderReadyToShip" \notin Compensation(tx[t].seen) \cup {"OrderCanceled"}
      BY DEF Compensation
    <2> QED
      BY <2>1, <2>2, <2>3, RollbackJustified, OtherCommitJustified
  <1>4. CASE PaymentCommit(t)
    <2>1. tx[t].order \in OrderIds
      BY <1>0, <1>4, TxFields DEF PaymentCommit
    <2> QED
      BY <1>4, <2>1, OtherCommitJustified DEF PaymentCommit
  <1>5. CASE ShippingCommit(t)
    <2>1. tx[t].order \in OrderIds
      BY <1>0, <1>5, TxFields DEF ShippingCommit
    <2> QED
      BY <1>5, <2>1, OtherCommitJustified DEF ShippingCommit
  <1> QED
    BY <1>1, <1>2, <1>3, <1>4, <1>5, CommitSaveJustified, CommitCommitJustified DEF Proceed

LEMMA InitJustified == Init => JustifiedInv
  <1> SUFFICES ASSUME Init PROVE JustifiedInv
    OBVIOUS
  <1>1. \A t \in Txs : tx[t].op = "idle"
    BY DEF Init
  <1>2. \A m \in Messages : inbox[m] <= Copies[m]
    BY BoundsAssumption DEF Init
  <1>3. ASSUME NEW o \in OrderIds PROVE JustifiedOrder(o)
    <2>1. /\ emitted[o]["OrderReadyToShip"] = 0
          /\ \A s \in Skus : /\ progress[o][s] = 0
                             /\ Required(o, s) \in Nat /\ Delivered(o, s) \in Nat
      BY <1>2, RequiredIsNat, DeliveredIsSum, BoundsAssumption DEF Init, EventTypes
    <2> QED
      BY <2>1 DEF JustifiedOrder
  <1> QED
    BY <1>1, <1>2, <1>3 DEF JustifiedInv, JustifiedTx

LEMMA NextJustified == IInv /\ IInv' /\ JustifiedInv /\ [Next]_vars => JustifiedInv'
  <1> SUFFICES ASSUME IInv, IInv', JustifiedInv, [Next]_vars PROVE JustifiedInv'
    OBVIOUS
  <1>1. ASSUME NEW t \in Txs, Fail(t) PROVE JustifiedInv'
    BY <1>1, RollbackJustified DEF Fail
  <1>2. CASE UNCHANGED vars
    <2>1. UNCHANGED <<progress, inbox, emitted, tx>>
      BY <1>2 DEF vars
    <2>2. \A o, s : Delivered(o, s)' = Delivered(o, s)
      BY <2>1 DEF Delivered
    <2> QED
      BY <2>1, <2>2 DEF JustifiedInv, JustifiedOrder, JustifiedTx
  <1> QED
    BY <1>1, <1>2, StartJustified, ProceedJustified DEF Next

-----------------------------------------------------------------------------
(* The theorems.                                                           *)

\* Whatever is repeated, overlaps or fails, the charges that orders-svc
\* requests are as many as the approve keys that went through: the key and
\* the request commit together, and a key is taken once (OrdersService.approve).
THEOREM OrdersChargedOncePerKey == Spec => []ChargedOncePerKey
  <1>1. ChargedInv => ChargedOncePerKey
    BY DEF ChargedInv
  <1> QED
    BY <1>1, OrdersInvariant, InitCharges, NextCharges, PTL DEF Spec

\* However handlers overlap, overwrite each other's progress or fail, and
\* however often an event is repeated: each delivery counts at most once, and
\* an order is called ready only when the deliveries cover its lines
\* (onInventoryEvent).
THEOREM OrdersReadyIsJustified == Spec => []ReadyIsJustified
  <1>1. JustifiedInv => ReadyIsJustified
    <2> SUFFICES ASSUME JustifiedInv, NEW o \in OrderIds
                 PROVE  /\ \A s \in Skus :
                             progress[o][s] <= AtMost(Delivered(o, s), Required(o, s))
                        /\ emitted[o]["OrderReadyToShip"] > 0 =>
                             \A s \in Skus : Delivered(o, s) >= Required(o, s)
      BY DEF ReadyIsJustified
    <2> QED
      BY DEF JustifiedInv, JustifiedOrder, AtMost
  <1> QED
    BY <1>1, OrdersInvariant, InitJustified, NextJustified, PTL DEF Spec

\* The history of the orders no stale commit has touched, in every execution.
LEMMA OrdersHistory == Spec => []HistoryInv
  BY OrdersInvariant, InitHistory, NextHistory, PTL DEF Spec

\* An order that is canceled after it was paid has its refund requested,
\* unless a commit overwrote what another had written since it was read
\* (OrdersService.cancel compensates the status it read).
THEOREM OrdersCancelCompensates == Spec => []CancelCompensates
  <1>1. HistoryInv => CancelCompensates
    BY DEF HistoryInv, History, CancelCompensates, Compensated
  <1> QED
    BY <1>1, OrdersHistory, PTL

\* Redelivered events and repeated requests are absorbed, also when they
\* overlap, as long as no commit on the order is a stale one: the early
\* returns of the handlers and of cancel see the latest status.
THEOREM OrdersAnnouncedOnce == Spec => []AnnouncedOnce
  <1>1. HistoryInv => AnnouncedOnce
    BY DEF HistoryInv, History, AnnouncedOnce
  <1> QED
    BY <1>1, OrdersHistory, PTL

\* An order whose lines are all recorded as committed has been called ready,
\* unless a handler judged it by rows that another was about to change.
THEOREM OrdersReadyIsAnnounced == Spec => []ReadyIsAnnounced
  <1>1. HistoryInv => ReadyIsAnnounced
    BY DEF HistoryInv, History, Complete, ReadyIsAnnounced
  <1> QED
    BY <1>1, OrdersHistory, PTL

\* A shipped order stays shipped in every step but one that commits on a
\* status read before the shipment (OrdersService, onPaymentEvent).
THEOREM OrdersShippedIsFinal == Spec => ShippedIsFinal
  <1> DEFINE Kept == \A o \in OrderIds \ raced' :
                       status[o] = "SHIPPED" => status'[o] = "SHIPPED"
  <1>1. IInv /\ HistoryInv /\ [Next]_vars => [Kept]_vars
    <2> SUFFICES ASSUME IInv, HistoryInv, NEW t \in Txs, Start(t) \/ Proceed(t) \/ Fail(t),
                        NEW o \in OrderIds \ raced', status[o] = "SHIPPED"
                 PROVE  status'[o] = "SHIPPED"
      BY DEF Next
    <2>1. status \in [OrderIds -> Statuses] /\ Decided(t)
      BY DEF IInv, TableTypes, HistoryInv
    <2>2. CASE UNCHANGED status
      BY <2>2
    <2>3. CASE Start(t)
      BY <2>2, <2>3 DEF Start, CreateRead, ApproveRead, CancelRead, PaymentRead, ShippingRead,
                        CommitRead
    <2>4. CASE Fail(t)
      BY <2>2, <2>4 DEF Fail, Rollback
    <2>5. CASE CreateCommit(t)
      BY <2>1, <2>2, <2>5 DEF CreateCommit, Rollback, Decided
    <2>6. CASE ApproveCommit(t)
      BY <2>1, <2>2, <2>6 DEF ApproveCommit, Rollback, Remember
    <2>7. CASE CancelCommit(t)
      BY <2>1, <2>2, <2>7 DEF CancelCommit, Rollback, Decided, Remember, Cancelable
    <2>8. CASE PaymentCommit(t)
      BY <2>1, <2>8 DEF PaymentCommit, Decided, Remember
    <2>9. CASE ShippingCommit(t)
      BY <2>1, <2>9 DEF ShippingCommit
    <2>10. CASE CommitSave(t) \/ CommitCommit(t)
      BY <2>2, <2>10 DEF CommitSave, CommitCommit, Rollback
    <2> QED
      BY <2>3, <2>4, <2>5, <2>6, <2>7, <2>8, <2>9, <2>10 DEF Proceed
  <1>2. Spec => [][Kept]_vars
    BY <1>1, OrdersInvariant, OrdersHistory, PTL DEF Spec
  <1> QED
    BY <1>2 DEF ShippedIsFinal
==============================================================================
