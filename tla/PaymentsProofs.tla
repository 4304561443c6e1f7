--------------------------- MODULE PaymentsProofs ---------------------------
(***************************************************************************)
(* Theorems about Payments, for any payments, keys, overlapping calls and  *)
(* failures: the types, that a key takes effect once, that money moves in  *)
(* order, and that a payment without a lost update is charged once and     *)
(* keeps its capture.                                                      *)
(*                                                                         *)
(* A save writes the columns that differed at its second read, so a row    *)
(* may be a mixture of what several calls decided.  Two facts tame it.     *)
(* Each column is justified by an event on its own.  And the statuses that *)
(* matter are ranked: without a lost update a payment never comes back to  *)
(* a status of a lower rank, so a save that meets the row its call had     *)
(* read also met it at the second read, and writes exactly what it decided.*)
(***************************************************************************)
EXTENDS Payments, SumTheorems

USE DEF Idle, Actions, Calls

-----------------------------------------------------------------------------
(* The inductive invariant.                                                *)

TableTypes ==
    /\ row \in [PaymentIds -> Row]
    /\ paymentKey \in [PaymentIds -> Keys \cup {NoKey}]
    /\ usedKeys \subseteq Keys
    /\ emitted \in [PaymentIds -> [EventTypes -> Nat]]
    /\ calls \in 0..MaxCalls
    /\ raced \subseteq PaymentIds

TxTypes == tx \in [Txs -> OpenTx \cup {Idle}]

\* What has an event behind it in a row, or in what a call has read of it.
Justified(p, r) ==
    /\ r.authorized \/ r.status = "AUTHORIZED" => emitted[p]["PaymentAUTHORIZE"] > 0
    /\ r.captured \/ r.status = "CAPTURED" => emitted[p]["PaymentCAPTURE"] > 0
    /\ r.refunded => emitted[p]["PaymentREFUND"] > 0

EventsInOrder(p) ==
    /\ emitted[p]["PaymentCAPTURE"] > 0 => emitted[p]["PaymentAUTHORIZE"] > 0
    /\ emitted[p]["PaymentREFUND"] > 0 => emitted[p]["PaymentCAPTURE"] > 0

\* A row that no lost update has mixed.
Coherent(r) ==
    /\ r.status \in {"NONE", "NEW", "AUTHORIZED"} => ~r.captured /\ ~r.refunded
    /\ r.status = "CAPTURED" => r.captured /\ ~r.refunded
    /\ r.status \in {"PROCESSING", "VOIDED", "CANCELED"} => (r.captured <=> r.refunded)

\* The events count what the row says.
Counted(p) ==
    /\ emitted[p]["PaymentCAPTURE"] = (IF row[p].captured THEN 1 ELSE 0)
    /\ emitted[p]["PaymentREFUND"] = (IF row[p].refunded THEN 1 ELSE 0)

RowInv(p) ==
    /\ Justified(p, row[p])
    /\ EventsInOrder(p)
    /\ p \notin raced => Coherent(row[p]) /\ Counted(p)

Rank(s) ==
    IF s = "NONE" THEN 0 ELSE IF s = "NEW" THEN 1 ELSE IF s = "AUTHORIZED" THEN 2
    ELSE IF s = "CAPTURED" THEN 3 ELSE 4

Transitory(t) == tx[t].stage \in {"read", "saving"}

\* A create has its id to itself; the other calls work on a payment.
Claim(t) ==
    /\ tx[t].stage = "creating" =>
         /\ row[tx[t].payment] = NoRow
         /\ \A u \in Txs : u # t =>
              ~(tx[u].stage = "creating" /\ tx[u].payment = tx[t].payment)
    /\ tx[t].stage \in {"read", "saving", "announcing"} => row[tx[t].payment].status # "NONE"

\* What a call has read and decided.
Knows(t) ==
    Transitory(t) =>
        /\ tx[t].seen.status \in Sources[tx[t].action]
        /\ tx[t].next = Changed(tx[t].seen, tx[t].action)
        /\ tx[t].action \in Actions => tx[t].key \in Keys
        /\ Justified(tx[t].payment, tx[t].seen)

\* Where the row stands to what a call has read of it.
Fresh(t) ==
    LET p == tx[t].payment
        seen == tx[t].seen
    IN  Transitory(t) /\ p \notin raced =>
          /\ Rank(row[p].status) >= Rank(seen.status)
          /\ Rank(row[p].status) = Rank(seen.status) /\ Rank(seen.status) <= 3 =>
               /\ row[p] = seen
               /\ tx[t].stage = "saving" =>
                    tx[t].dirty = {c \in Columns : seen[c] # tx[t].next[c]}

TxInv(t) == Claim(t) /\ Knows(t) /\ Fresh(t)

IInv ==
    /\ TableTypes /\ TxTypes
    /\ \A p \in PaymentIds : RowInv(p)
    /\ \A t \in Txs : TxInv(t)

LEMMA TypeParts == TypeOK <=> TableTypes /\ TxTypes
  BY DEF TypeOK, TableTypes, TxTypes

\* What a call being served remembers.
LEMMA TxFields ==
    ASSUME TxTypes, NEW t \in Txs, tx[t].stage # "idle"
    PROVE  /\ tx[t].stage \in {"creating", "read", "saving", "announcing"}
           /\ tx[t].payment \in PaymentIds
           /\ tx[t].stage = "creating" => tx[t].key \in Keys
           /\ tx[t].stage = "announcing" => tx[t].action \in Calls
           /\ Transitory(t) =>
                /\ tx[t].action \in Actions \cup Calls
                /\ tx[t].key \in Keys \cup {NoKey}
                /\ tx[t].seen \in Row /\ tx[t].next \in Row
                /\ tx[t].dirty \in SUBSET Columns
  <1>1. tx[t] \in OpenTx \cup {Idle}
    BY DEF TxTypes
  <1> DEFINE r == tx[t]
  <1>2. CASE r \in [stage : {"creating"}, payment : PaymentIds, key : Keys]
    BY <1>2, SMT DEF Transitory
  <1>3. CASE r \in [stage : {"read", "saving"}, payment : PaymentIds,
                    action : Actions \cup Calls, key : Keys \cup {NoKey},
                    seen : Row, next : Row, dirty : SUBSET Columns]
    BY <1>3, SMT DEF Transitory
  <1>4. CASE r \in [stage : {"announcing"}, payment : PaymentIds, action : Calls]
    BY <1>4, SMT DEF Transitory
  <1> QED
    BY <1>1, <1>2, <1>3, <1>4 DEF OpenTx

LEMMA TxSet ==
    ASSUME TxTypes, NEW t \in Txs, NEW r \in OpenTx \cup {Idle},
           tx' = [tx EXCEPT ![t] = r]
    PROVE  TxTypes' /\ tx'[t] = r /\ \A u \in Txs : u # t => tx'[u] = tx[u]
  BY DEF TxTypes

-----------------------------------------------------------------------------
(* Steps of one call that leave the tables alone.                          *)

LEMMA QuietStep ==
    ASSUME IInv, NEW t \in Txs, NEW r \in OpenTx \cup {Idle}, tx' = [tx EXCEPT ![t] = r],
           UNCHANGED <<row, paymentKey, usedKeys, emitted, raced>>,
           calls' \in 0..MaxCalls,
           \A u \in Txs : u # t /\ tx[u].stage = "creating" /\ r.stage = "creating"
                            => tx[u].payment # r.payment,
           TxInv(t)'
    PROVE  IInv'
  <1>1. TxTypes' /\ tx'[t] = r /\ \A u \in Txs : u # t => tx'[u] = tx[u]
    BY TxSet DEF IInv
  <1>2. TableTypes'
    BY DEF IInv, TableTypes
  <1>3. ASSUME NEW p \in PaymentIds PROVE RowInv(p)'
    BY DEF IInv, RowInv, Justified, EventsInOrder, Coherent, Counted
  <1>4. ASSUME NEW u \in Txs PROVE TxInv(u)'
    <2>1. CASE u = t
      BY <2>1
    <2>2. CASE u # t
      <3>1. tx'[u] = tx[u] /\ TxInv(u)
        BY <1>1, <2>2 DEF IInv
      <3>2. Claim(u)'
        <4>1. Claim(u)
          BY <3>1 DEF TxInv
        <4>2. ASSUME tx[u].stage = "creating", NEW w \in Txs, w # u
              PROVE  ~(tx'[w].stage = "creating" /\ tx'[w].payment = tx[u].payment)
          BY <1>1, <2>2, <4>1, <4>2 DEF Claim
        <4> QED
          BY <3>1, <4>1, <4>2 DEF Claim
      <3>3. Knows(u)'
        BY <3>1 DEF TxInv, Knows, Transitory, Justified
      <3>4. Fresh(u)'
        BY <3>1 DEF TxInv, Fresh, Transitory
      <3> QED
        BY <3>2, <3>3, <3>4 DEF TxInv
    <2> QED
      BY <2>1, <2>2
  <1> QED
    BY <1>1, <1>2, <1>3, <1>4 DEF IInv

LEMMA CreateReadIInv ==
    ASSUME IInv, NEW t \in Txs, NEW p \in PaymentIds, NEW k \in Keys, CreateRead(t, p, k)
    PROVE  IInv'
  <1> DEFINE r == [stage |-> "creating", payment |-> p, key |-> k]
  <1>1. r \in OpenTx
    BY DEF OpenTx
  <1>2. tx' = [tx EXCEPT ![t] = r] /\ UNCHANGED <<row, paymentKey, usedKeys, emitted, calls, raced>>
    BY DEF CreateRead
  <1>3. TxTypes' /\ tx'[t] = r /\ \A u \in Txs : u # t => tx'[u] = tx[u]
    BY <1>1, <1>2, TxSet DEF IInv
  <1>4. row[p] = NoRow /\ \A u \in Txs : ~(tx[u].stage = "creating" /\ tx[u].payment = p)
    BY DEF CreateRead, IsFresh
  <1>5. TxInv(t)'
    <2>1. Claim(t)'
      BY <1>2, <1>3, <1>4 DEF Claim
    <2>2. ~Transitory(t)'
      BY <1>3 DEF Transitory
    <2> QED
      BY <2>1, <2>2 DEF TxInv, Knows, Fresh
  <1>6. r \in OpenTx \cup {Idle} /\ calls' \in 0..MaxCalls
    BY <1>1, <1>2 DEF IInv, TableTypes
  <1>7. \A u \in Txs : u # t /\ tx[u].stage = "creating" /\ r.stage = "creating"
                         => tx[u].payment # r.payment
    BY <1>4
  <1> HIDE DEF r
  <1> QED
    BY <1>2, <1>5, <1>6, <1>7, QuietStep

LEMMA ChangedType ==
    ASSUME NEW r \in Row, NEW a \in Actions \cup Calls
    PROVE  Changed(r, a) \in Row
  BY DEF Changed, Row, Target, PaymentStatusEnum

LEMMA ReadIInv ==
    ASSUME IInv, NEW t \in Txs, NEW p \in PaymentIds, NEW a \in Actions \cup Calls,
           NEW k \in Keys \cup {NoKey}, Read(t, p, a, k)
    PROVE  IInv'
  <1> DEFINE r == [stage |-> "read", payment |-> p, action |-> a, key |-> k,
                   seen |-> row[p], next |-> Changed(row[p], a), dirty |-> {}]
  <1>1. row[p] \in Row /\ Changed(row[p], a) \in Row
    BY ChangedType DEF IInv, TableTypes
  <1>2. r \in OpenTx
    BY <1>1 DEF OpenTx
  <1>3. tx' = [tx EXCEPT ![t] = r] /\ UNCHANGED <<row, paymentKey, usedKeys, emitted, raced>>
    BY DEF Read
  <1>4. TxTypes' /\ tx'[t] = r /\ \A u \in Txs : u # t => tx'[u] = tx[u]
    BY <1>2, <1>3, TxSet DEF IInv
  <1>5. row[p].status \in Sources[a] /\ (a \in Actions => k \in Keys)
    BY DEF Read
  <1>6. calls' \in 0..MaxCalls
    BY BoundsAssumption, SMT DEF Read, IInv, TableTypes
  <1>7. TxInv(t)'
    <2>1. Claim(t)'
      <3>1. row[p].status # "NONE"
        BY <1>5 DEF Sources, Capturable, Voidable, PaymentStatusEnum, isTerminal
      <3> QED
        BY <1>3, <1>4, <3>1 DEF Claim
    <2>2. Knows(t)'
      <3>1. Justified(p, row[p])
        BY DEF IInv, RowInv
      <3> QED
        BY <1>3, <1>4, <1>5, <3>1 DEF Knows, Justified
    <2>3. Fresh(t)'
      BY <1>3, <1>4, SMT DEF Fresh, Rank
    <2> QED
      BY <2>1, <2>2, <2>3 DEF TxInv
  <1>8. r \in OpenTx \cup {Idle} /\ r.stage # "creating"
    BY <1>2
  <1> HIDE DEF r
  <1> QED
    BY <1>3, <1>6, <1>7, <1>8, QuietStep

LEMMA ReloadIInv ==
    ASSUME IInv, NEW t \in Txs, Reload(t)
    PROVE  IInv'
  <1> DEFINE dirty == {c \in Columns : row[tx[t].payment][c] # tx[t].next[c]}
             r == [tx[t] EXCEPT !.stage = "saving", !.dirty = dirty]
  <1>1. tx[t].stage = "read" /\ tx[t] \in OpenTx /\ TxInv(t)
    BY TxFields DEF Reload, IInv, TxTypes
  <1>2. tx[t] \in [stage : {"read", "saving"}, payment : PaymentIds,
                   action : Actions \cup Calls, key : Keys \cup {NoKey},
                   seen : Row, next : Row, dirty : SUBSET Columns]
    BY <1>1 DEF OpenTx
  <1>3. r \in [stage : {"read", "saving"}, payment : PaymentIds,
               action : Actions \cup Calls, key : Keys \cup {NoKey},
               seen : Row, next : Row, dirty : SUBSET Columns]
    BY <1>2
  <1>4. /\ r.stage = "saving" /\ r.payment = tx[t].payment /\ r.action = tx[t].action
        /\ r.key = tx[t].key /\ r.seen = tx[t].seen /\ r.next = tx[t].next /\ r.dirty = dirty
    BY <1>2
  <1>5. tx' = [tx EXCEPT ![t] = r] /\ UNCHANGED <<row, paymentKey, usedKeys, emitted, calls, raced>>
    BY <1>1 DEF Reload, IInv, TxTypes
  <1>6. TxTypes' /\ tx'[t] = r /\ \A u \in Txs : u # t => tx'[u] = tx[u]
    BY <1>3, <1>5, TxSet DEF IInv, OpenTx
  <1>7. TxInv(t)'
    <2>1. Claim(t)'
      BY <1>1, <1>4, <1>5, <1>6 DEF TxInv, Claim
    <2>2. Knows(t)'
      BY <1>1, <1>4, <1>5, <1>6 DEF TxInv, Knows, Transitory, Justified
    <2>3. Fresh(t)'
      BY <1>1, <1>4, <1>5, <1>6 DEF TxInv, Fresh, Transitory
    <2> QED
      BY <2>1, <2>2, <2>3 DEF TxInv
  <1>8. r \in OpenTx \cup {Idle} /\ r.stage # "creating"
    BY <1>3, <1>4 DEF OpenTx
  <1>9. calls' \in 0..MaxCalls
    BY <1>5 DEF IInv, TableTypes
  <1> HIDE DEF r
  <1> QED
    BY <1>5, <1>7, <1>8, <1>9, QuietStep

LEMMA FailIInv ==
    ASSUME IInv, NEW t \in Txs, Fail(t)
    PROVE  IInv'
  <1>1. tx' = [tx EXCEPT ![t] = Idle] /\ UNCHANGED <<row, paymentKey, usedKeys, emitted, calls, raced>>
    BY DEF Fail, End
  <1>2. tx'[t] = Idle
    BY <1>1 DEF IInv, TxTypes
  <1>3. TxInv(t)'
    BY <1>2 DEF TxInv, Claim, Knows, Fresh, Transitory
  <1>4. calls' \in 0..MaxCalls
    BY <1>1 DEF IInv, TableTypes
  <1> DEFINE r == Idle
  <1>5. r \in OpenTx \cup {Idle} /\ r.stage # "creating" /\ tx' = [tx EXCEPT ![t] = r]
    BY <1>1
  <1> HIDE DEF r, Idle
  <1> QED
    BY <1>1, <1>3, <1>4, <1>5, QuietStep

-----------------------------------------------------------------------------
(* create commits.                                                         *)

LEMMA EmitAdds ==
    ASSUME TableTypes, NEW p \in PaymentIds, NEW ev \in EventTypes, Emit(p, ev)
    PROVE  /\ emitted' \in [PaymentIds -> [EventTypes -> Nat]]
           /\ \A q \in PaymentIds, e \in EventTypes :
                emitted'[q][e] = emitted[q][e] + IF q = p /\ e = ev THEN 1 ELSE 0
  <1>1. emitted \in [PaymentIds -> [EventTypes -> Nat]]
    BY DEF TableTypes
  <1>2. emitted' = [emitted EXCEPT ![p][ev] = emitted[p][ev] + 1]
    BY DEF Emit
  <1>3. emitted[p][ev] + 1 \in Nat
    BY <1>1, SMT
  <1>4. emitted' \in [PaymentIds -> [EventTypes -> Nat]]
    BY <1>1, <1>2, <1>3, SMT
  <1>5. ASSUME NEW q \in PaymentIds, NEW e \in EventTypes
        PROVE  emitted'[q][e] = emitted[q][e] + IF q = p /\ e = ev THEN 1 ELSE 0
    BY <1>1, <1>2, SMT
  <1> QED
    BY <1>4, <1>5

Money == {"PaymentAUTHORIZE", "PaymentCAPTURE", "PaymentREFUND"}

LEMMA MoneyTypes ==
    /\ Money \subseteq EventTypes
    /\ \A a \in Actions : Event[a] \in EventTypes
    /\ \A a \in Calls : Event[a] \in EventTypes \ Money
    /\ "PaymentCreated" \in EventTypes
  BY DEF Money, EventTypes, KeyedEvents, Event

\* An event that moves no money changes nothing that is counted.
LEMMA OtherEvents ==
    ASSUME IInv, NEW p \in PaymentIds, NEW ev \in EventTypes \ Money, Emit(p, ev)
    PROVE  \A q \in PaymentIds, e \in Money : emitted'[q][e] = emitted[q][e]
  <1>1. ASSUME NEW q \in PaymentIds, NEW e \in Money PROVE emitted'[q][e] = emitted[q][e]
    <2>1. e \in EventTypes /\ e # ev
      BY MoneyTypes
    <2>2. emitted'[q][e] = emitted[q][e] + 0
      BY <2>1, EmitAdds DEF IInv
    <2>3. emitted[q][e] \in Nat
      BY <2>1 DEF IInv, TableTypes
    <2> QED
      BY <2>2, <2>3, SMT
  <1> QED
    BY <1>1

LEMMA CreateCommitIInv ==
    ASSUME IInv, NEW t \in Txs, CreateCommit(t)
    PROVE  IInv'
  <1> DEFINE p == tx[t].payment
             k == tx[t].key
  <1>1. p \in PaymentIds /\ k \in Keys /\ tx[t].stage = "creating"
    BY TxFields DEF CreateCommit, IInv
  <1>2. /\ row' = [row EXCEPT ![p].status = "NEW"]
        /\ paymentKey' = [paymentKey EXCEPT ![p] = k]
        /\ usedKeys' = usedKeys \cup {k}
        /\ Emit(p, "PaymentCreated")
        /\ tx' = [tx EXCEPT ![t] = Idle]
        /\ UNCHANGED <<calls, raced>>
    BY DEF CreateCommit, End
  <1>3. row \in [PaymentIds -> Row] /\ row[p] = NoRow
    BY <1>1 DEF IInv, TableTypes, TxInv, Claim
  <1>4. /\ row' \in [PaymentIds -> Row]
        /\ \A q \in PaymentIds : q # p => row'[q] = row[q]
        /\ row'[p] = [NoRow EXCEPT !.status = "NEW"]
    BY <1>1, <1>2, <1>3 DEF Row, NoRow, PaymentStatusEnum
  <1>5. TxTypes' /\ tx'[t] = Idle /\ \A u \in Txs : u # t => tx'[u] = tx[u]
    BY <1>2, TxSet DEF IInv
  <1>6. \A q \in PaymentIds, e \in Money : emitted'[q][e] = emitted[q][e]
    <2>1. "PaymentCreated" \in EventTypes \ Money
      BY MoneyTypes DEF Money
    <2> QED
      BY <1>1, <1>2, <2>1, OtherEvents
  <1>7. TableTypes'
    <2>1. emitted' \in [PaymentIds -> [EventTypes -> Nat]]
      BY <1>1, <1>2, MoneyTypes, EmitAdds DEF IInv
    <2> QED
      BY <1>1, <1>2, <1>4, <2>1 DEF IInv, TableTypes
  <1>8. ASSUME NEW q \in PaymentIds PROVE RowInv(q)'
    <2>1. RowInv(q) /\ \A e \in Money : emitted'[q][e] = emitted[q][e]
      BY <1>6 DEF IInv
    <2>2. CASE q # p
      BY <1>2, <1>4, <2>1, <2>2 DEF RowInv, Justified, EventsInOrder, Coherent, Counted, Money
    <2>3. CASE q = p
      <3>1. /\ ~row'[p].authorized /\ ~row'[p].captured /\ ~row'[p].refunded
            /\ row'[p].status = "NEW"
        BY <1>4 DEF NoRow
      <3>2. /\ ~row[p].captured /\ ~row[p].refunded
        BY <1>3 DEF NoRow
      <3>3. Justified(q, row[q])' /\ EventsInOrder(q)'
        BY <2>1, <2>3, <3>1 DEF RowInv, Justified, EventsInOrder, Money
      <3>4. Coherent(row[q])'
        BY <2>3, <3>1 DEF Coherent
      <3>5. q \notin raced => Counted(q)'
        BY <2>1, <2>3, <3>1, <3>2 DEF RowInv, Counted, Money
      <3> QED
        BY <1>2, <3>3, <3>4, <3>5 DEF RowInv
    <2> QED
      BY <2>2, <2>3
  <1>9. ASSUME NEW u \in Txs PROVE TxInv(u)'
    <2>1. CASE u = t
      BY <1>5, <2>1 DEF TxInv, Claim, Knows, Fresh, Transitory
    <2>2. CASE u # t
      <3>1. tx'[u] = tx[u] /\ TxInv(u)
        BY <1>5, <2>2 DEF IInv
      <3>2. CASE tx[u].stage = "idle"
        BY <3>1, <3>2 DEF TxInv, Claim, Knows, Fresh, Transitory
      <3>3. CASE tx[u].stage # "idle"
        <4>1. tx[u].payment \in PaymentIds /\ tx[u].payment # p
          <5>1. tx[u].payment \in PaymentIds
                /\ tx[u].stage \in {"creating", "read", "saving", "announcing"}
            BY <3>3, TxFields DEF IInv
          <5>2. CASE tx[u].stage = "creating"
            BY <1>1, <2>2, <3>1, <5>1, <5>2 DEF TxInv, Claim
          <5>3. CASE tx[u].stage \in {"read", "saving", "announcing"}
            BY <1>3, <3>1, <5>1, <5>3 DEF TxInv, Claim, NoRow
          <5> QED
            BY <5>1, <5>2, <5>3
        <4>2. row'[tx[u].payment] = row[tx[u].payment]
              /\ \A e \in Money : emitted'[tx[u].payment][e] = emitted[tx[u].payment][e]
          BY <1>4, <1>6, <4>1
        <4>3. Claim(u)'
          BY <1>5, <3>1, <4>2 DEF TxInv, Claim
        <4>4. Knows(u)'
          BY <3>1, <4>2 DEF TxInv, Knows, Transitory, Justified, Money
        <4>5. Fresh(u)'
          <5>1. raced' = raced /\ row'[tx[u].payment] = row[tx[u].payment]
            BY <1>2, <4>2
          <5>2. Fresh(u) /\ tx'[u] = tx[u]
            BY <3>1 DEF TxInv
          <5> QED
            BY <5>1, <5>2 DEF Fresh, Transitory
        <4> QED
          BY <4>3, <4>4, <4>5 DEF TxInv
      <3> QED
        BY <3>2, <3>3
    <2> QED
      BY <2>1, <2>2
  <1> QED
    BY <1>5, <1>7, <1>8, <1>9 DEF IInv

LEMMA AnnounceIInv ==
    ASSUME IInv, NEW t \in Txs, Announce(t)
    PROVE  IInv'
  <1> DEFINE p == tx[t].payment
             ev == Event[tx[t].action]
  <1>1. p \in PaymentIds /\ tx[t].action \in Calls
    BY TxFields DEF Announce, IInv
  <1>2. /\ Emit(p, ev)
        /\ tx' = [tx EXCEPT ![t] = Idle]
        /\ UNCHANGED <<row, paymentKey, usedKeys, calls, raced>>
    BY DEF Announce, End
  <1>3. ev \in EventTypes \ Money
    BY <1>1, MoneyTypes
  <1>4. \A q \in PaymentIds, e \in Money : emitted'[q][e] = emitted[q][e]
    BY <1>1, <1>2, <1>3, OtherEvents
  <1>5. TxTypes' /\ tx'[t] = Idle /\ \A u \in Txs : u # t => tx'[u] = tx[u]
    BY <1>2, TxSet DEF IInv
  <1>6. TableTypes'
    <2>1. emitted' \in [PaymentIds -> [EventTypes -> Nat]]
      BY <1>1, <1>2, <1>3, EmitAdds DEF IInv
    <2> QED
      BY <1>2, <2>1 DEF IInv, TableTypes
  <1>7. ASSUME NEW q \in PaymentIds PROVE RowInv(q)'
    <2>1. RowInv(q) /\ \A e \in Money : emitted'[q][e] = emitted[q][e]
      BY <1>4 DEF IInv
    <2> QED
      BY <1>2, <2>1 DEF RowInv, Justified, EventsInOrder, Coherent, Counted, Money
  <1>8. ASSUME NEW u \in Txs PROVE TxInv(u)'
    <2>1. CASE u = t
      BY <1>5, <2>1 DEF TxInv, Claim, Knows, Fresh, Transitory
    <2>2. CASE u # t
      <3>1. tx'[u] = tx[u] /\ TxInv(u)
        BY <1>5, <2>2 DEF IInv
      <3>2. Claim(u)'
        BY <1>2, <1>5, <3>1 DEF TxInv, Claim
      <3>3. Fresh(u)'
        BY <1>2, <3>1 DEF TxInv, Fresh, Transitory
      <3>4. Knows(u)'
        <4>1. Transitory(u) =>
                \A e \in Money : emitted'[tx[u].payment][e] = emitted[tx[u].payment][e]
          BY <1>4, TxFields DEF IInv, Transitory
        <4> QED
          BY <3>1, <4>1 DEF TxInv, Knows, Transitory, Justified, Money
      <3> QED
        BY <3>2, <3>3, <3>4 DEF TxInv
    <2> QED
      BY <2>1, <2>2
  <1> QED
    BY <1>5, <1>6, <1>7, <1>8 DEF IInv

-----------------------------------------------------------------------------
(* save.                                                                   *)

\* A column of the row comes from what was there or from what was decided.
LEMMA SavedColumns ==
    ASSUME IInv, NEW t \in Txs, tx[t].stage = "saving", Saved(t)
    PROVE  LET p == tx[t].payment
           IN  /\ row' \in [PaymentIds -> Row]
               /\ \A q \in PaymentIds : q # p => row'[q] = row[q]
               /\ row'[p] = [c \in Columns |-> IF c \in tx[t].dirty
                                               THEN tx[t].next[c] ELSE row[p][c]]
               /\ row'[p].status = (IF "status" \in tx[t].dirty
                                    THEN tx[t].next.status ELSE row[p].status)
               /\ row'[p].authorized = (IF "authorized" \in tx[t].dirty
                                        THEN tx[t].next.authorized ELSE row[p].authorized)
               /\ row'[p].captured = (IF "captured" \in tx[t].dirty
                                      THEN tx[t].next.captured ELSE row[p].captured)
               /\ row'[p].refunded = (IF "refunded" \in tx[t].dirty
                                      THEN tx[t].next.refunded ELSE row[p].refunded)
  <1> DEFINE p == tx[t].payment
             new == [c \in Columns |-> IF c \in tx[t].dirty THEN tx[t].next[c] ELSE row[p][c]]
  <1>1. p \in PaymentIds /\ tx[t].next \in Row
    BY TxFields DEF IInv, Transitory
  <1>2. row \in [PaymentIds -> Row] /\ row[p] \in Row
    BY <1>1 DEF IInv, TableTypes
  <1>3. new \in Row
    BY <1>1, <1>2 DEF Row, Columns
  <1>4. row' = [row EXCEPT ![p] = new]
    BY DEF Saved
  <1>5. row' \in [PaymentIds -> Row] /\ row'[p] = new
        /\ \A q \in PaymentIds : q # p => row'[q] = row[q]
    BY <1>1, <1>2, <1>3, <1>4
  <1>6. "status" \in Columns /\ "authorized" \in Columns /\ "captured" \in Columns
        /\ "refunded" \in Columns
    BY DEF Columns
  <1> QED
    BY <1>5, <1>6

\* What the money events of a step by call t, with action a on payment p, are.
Moves(p, a) ==
    \A q \in PaymentIds :
        /\ emitted'[q]["PaymentAUTHORIZE"] = emitted[q]["PaymentAUTHORIZE"]
             + IF q = p /\ a = "AUTHORIZE" THEN 1 ELSE 0
        /\ emitted'[q]["PaymentCAPTURE"] = emitted[q]["PaymentCAPTURE"]
             + IF q = p /\ a = "CAPTURE" THEN 1 ELSE 0
        /\ emitted'[q]["PaymentREFUND"] = emitted[q]["PaymentREFUND"]
             + IF q = p /\ a = "REFUND" THEN 1 ELSE 0

LEMMA CountsAreNat ==
    ASSUME IInv, NEW q \in PaymentIds
    PROVE  /\ emitted[q]["PaymentAUTHORIZE"] \in Nat
           /\ emitted[q]["PaymentCAPTURE"] \in Nat
           /\ emitted[q]["PaymentREFUND"] \in Nat
  BY MoneyTypes DEF IInv, TableTypes, Money

\* No count falls, and the action's own count is positive.
LEMMA MovesGrow ==
    ASSUME IInv, NEW p \in PaymentIds, NEW a, Moves(p, a), NEW q \in PaymentIds
    PROVE  /\ emitted[q]["PaymentAUTHORIZE"] > 0 => emitted'[q]["PaymentAUTHORIZE"] > 0
           /\ emitted[q]["PaymentCAPTURE"] > 0 => emitted'[q]["PaymentCAPTURE"] > 0
           /\ emitted[q]["PaymentREFUND"] > 0 => emitted'[q]["PaymentREFUND"] > 0
           /\ q = p /\ a = "AUTHORIZE" => emitted'[q]["PaymentAUTHORIZE"] > 0
           /\ q = p /\ a = "CAPTURE" => emitted'[q]["PaymentCAPTURE"] > 0
           /\ q = p /\ a = "REFUND" => emitted'[q]["PaymentREFUND"] > 0
           /\ ~(q = p /\ a = "CAPTURE") =>
                emitted'[q]["PaymentCAPTURE"] = emitted[q]["PaymentCAPTURE"]
           /\ ~(q = p /\ a = "REFUND") =>
                emitted'[q]["PaymentREFUND"] = emitted[q]["PaymentREFUND"]
  BY CountsAreNat, SMT DEF Moves

\* What a call knows of its statuses.
LEMMA Decided ==
    ASSUME IInv, NEW t \in Txs, Transitory(t)
    PROVE  LET a == tx[t].action
               seen == tx[t].seen
               next == tx[t].next
           IN  /\ a = "AUTHORIZE" => seen.status = "NEW"
               /\ a = "CAPTURE" => seen.status = "AUTHORIZED"
               /\ a = "REFUND" => seen.status = "CAPTURED"
               /\ seen.status # "NONE" /\ seen.status \in PaymentStatusEnum
               /\ seen.status = "CAPTURED" => a = "REFUND"
               /\ next.status = Target[a]
               /\ next.authorized = (seen.authorized \/ a = "AUTHORIZE")
               /\ next.captured = (seen.captured \/ a = "CAPTURE")
               /\ next.refunded = (seen.refunded \/ a = "REFUND")
  <1>1. tx[t].action \in Actions \cup Calls /\ tx[t].seen \in Row
    BY TxFields DEF IInv, Transitory
  <1>2. /\ tx[t].seen.status \in Sources[tx[t].action]
        /\ tx[t].next = Changed(tx[t].seen, tx[t].action)
    BY DEF IInv, TxInv, Knows
  <1>3. /\ tx[t].next.status = Target[tx[t].action]
        /\ tx[t].next.authorized = (tx[t].seen.authorized \/ tx[t].action = "AUTHORIZE")
        /\ tx[t].next.captured = (tx[t].seen.captured \/ tx[t].action = "CAPTURE")
        /\ tx[t].next.refunded = (tx[t].seen.refunded \/ tx[t].action = "REFUND")
    BY <1>2 DEF Changed
  <1>4. /\ tx[t].action = "AUTHORIZE" => tx[t].seen.status = "NEW"
        /\ tx[t].action = "CAPTURE" => tx[t].seen.status = "AUTHORIZED"
        /\ tx[t].action = "REFUND" => tx[t].seen.status = "CAPTURED"
        /\ tx[t].seen.status # "NONE" /\ tx[t].seen.status \in PaymentStatusEnum
        /\ tx[t].seen.status = "CAPTURED" => tx[t].action = "REFUND"
    BY <1>1, <1>2, SMT DEF Sources, Capturable, Voidable, PaymentStatusEnum, isTerminal
  <1> QED
    BY <1>3, <1>4

\* The events stay in order and behind every row and call.
LEMMA SavedJustified ==
    ASSUME IInv, NEW t \in Txs, tx[t].stage = "saving", Saved(t),
           Moves(tx[t].payment, tx[t].action)
    PROVE  /\ \A q \in PaymentIds : Justified(q, row[q])' /\ EventsInOrder(q)'
           /\ \A u \in Txs : Transitory(u) =>
                /\ tx[u].seen.authorized \/ tx[u].seen.status = "AUTHORIZED"
                     => emitted'[tx[u].payment]["PaymentAUTHORIZE"] > 0
                /\ tx[u].seen.captured \/ tx[u].seen.status = "CAPTURED"
                     => emitted'[tx[u].payment]["PaymentCAPTURE"] > 0
                /\ tx[u].seen.refunded => emitted'[tx[u].payment]["PaymentREFUND"] > 0
  <1> DEFINE p == tx[t].payment
             a == tx[t].action
  <1>1. p \in PaymentIds /\ Transitory(t) /\ a \in Actions \cup Calls
    BY TxFields DEF IInv, Transitory
  <1>2. ASSUME NEW u \in Txs, Transitory(u)
        PROVE  /\ tx[u].seen.authorized \/ tx[u].seen.status = "AUTHORIZED"
                    => emitted'[tx[u].payment]["PaymentAUTHORIZE"] > 0
               /\ tx[u].seen.captured \/ tx[u].seen.status = "CAPTURED"
                    => emitted'[tx[u].payment]["PaymentCAPTURE"] > 0
               /\ tx[u].seen.refunded => emitted'[tx[u].payment]["PaymentREFUND"] > 0
    <2>1. tx[u].payment \in PaymentIds /\ Justified(tx[u].payment, tx[u].seen)
      BY <1>2, TxFields DEF IInv, TxInv, Knows, Transitory
    <2> QED
      BY <1>1, <2>1, MovesGrow DEF Justified
  <1>3. ASSUME NEW q \in PaymentIds PROVE Justified(q, row[q])' /\ EventsInOrder(q)'
    <2>1. Justified(q, row[q]) /\ EventsInOrder(q)
      BY DEF IInv, RowInv
    <2>2. CASE q # p
      <3>1. row'[q] = row[q]
        BY <2>2, SavedColumns
      <3>2. Justified(q, row[q])'
        BY <1>1, <2>1, <3>1, MovesGrow DEF Justified
      <3>3. EventsInOrder(q)'
        BY <1>1, <2>1, <2>2, MovesGrow DEF EventsInOrder
      <3> QED
        BY <3>2, <3>3
    <2>3. CASE q = p
      <3>1. /\ tx[t].next.authorized \/ tx[t].next.status = "AUTHORIZED"
                 => emitted'[p]["PaymentAUTHORIZE"] > 0
            /\ tx[t].next.captured \/ tx[t].next.status = "CAPTURED"
                 => emitted'[p]["PaymentCAPTURE"] > 0
            /\ tx[t].next.refunded => emitted'[p]["PaymentREFUND"] > 0
        <4>1. /\ a = "AUTHORIZE" => emitted'[p]["PaymentAUTHORIZE"] > 0
              /\ a = "CAPTURE" => emitted'[p]["PaymentCAPTURE"] > 0
              /\ a = "REFUND" => emitted'[p]["PaymentREFUND"] > 0
          BY <1>1, MovesGrow
        <4>2. /\ tx[t].next.status = "AUTHORIZED" => a = "AUTHORIZE"
              /\ tx[t].next.status = "CAPTURED" => a = "CAPTURE"
          BY <1>1, Decided DEF Target
        <4> QED
          BY <1>1, <1>2, <4>1, <4>2, Decided
      <3>2. /\ row[p].authorized \/ row[p].status = "AUTHORIZED"
                 => emitted'[p]["PaymentAUTHORIZE"] > 0
            /\ row[p].captured \/ row[p].status = "CAPTURED"
                 => emitted'[p]["PaymentCAPTURE"] > 0
            /\ row[p].refunded => emitted'[p]["PaymentREFUND"] > 0
        BY <1>1, <2>1, <2>3, MovesGrow DEF Justified
      <3>3. Justified(q, row[q])'
        <4>1. /\ row'[p].status \in {tx[t].next.status, row[p].status}
              /\ row'[p].authorized \in {tx[t].next.authorized, row[p].authorized}
              /\ row'[p].captured \in {tx[t].next.captured, row[p].captured}
              /\ row'[p].refunded \in {tx[t].next.refunded, row[p].refunded}
          BY SavedColumns
        <4>2. /\ row'[p].authorized \/ row'[p].status = "AUTHORIZED"
                   => emitted'[p]["PaymentAUTHORIZE"] > 0
              /\ row'[p].captured \/ row'[p].status = "CAPTURED"
                   => emitted'[p]["PaymentCAPTURE"] > 0
              /\ row'[p].refunded => emitted'[p]["PaymentREFUND"] > 0
          BY <3>1, <3>2, <4>1
        <4> QED
          BY <2>3, <4>2 DEF Justified
      <3>4. EventsInOrder(q)'
        <4>1. a = "CAPTURE" => emitted'[p]["PaymentAUTHORIZE"] > 0
          BY <1>1, <1>2, Decided
        <4>2. a = "REFUND" => emitted'[p]["PaymentCAPTURE"] > 0
          BY <1>1, <1>2, Decided
        <4>3. emitted'[p]["PaymentCAPTURE"] > 0 => emitted'[p]["PaymentAUTHORIZE"] > 0
          BY <1>1, <2>1, <2>3, <4>1, MovesGrow DEF EventsInOrder
        <4>4. emitted'[p]["PaymentREFUND"] > 0 => emitted'[p]["PaymentCAPTURE"] > 0
          BY <1>1, <2>1, <2>3, <4>2, MovesGrow DEF EventsInOrder
        <4> QED
          BY <2>3, <4>3, <4>4 DEF EventsInOrder
      <3> QED
        BY <3>3, <3>4
    <2> QED
      BY <2>2, <2>3
  <1> QED
    BY <1>2, <1>3

\* A save that loses no update writes what its call decided, or moves a
\* payment among the statuses nothing is charged in.
LEMMA SavedUnraced ==
    ASSUME IInv, NEW t \in Txs, tx[t].stage = "saving", Saved(t),
           tx[t].payment \notin raced'
    PROVE  LET p == tx[t].payment
               a == tx[t].action
           IN  /\ p \notin raced /\ row[p] = tx[t].seen
               /\ \/ /\ row[p].status \in {"NEW", "AUTHORIZED", "CAPTURED"}
                     /\ row'[p] = tx[t].next
                  \/ /\ row[p].status \in {"PROCESSING", "VOIDED", "CANCELED"}
                     /\ row'[p].status \in {"PROCESSING", "VOIDED", "CANCELED"}
                     /\ a \notin {"AUTHORIZE", "CAPTURE", "REFUND"}
                     /\ row'[p].captured = row[p].captured
                     /\ row'[p].refunded = row[p].refunded
  <1> DEFINE p == tx[t].payment
             a == tx[t].action
  <1>1. p \in PaymentIds /\ Transitory(t) /\ a \in Actions \cup Calls
        /\ tx[t].next \in Row /\ row[p] \in Row
    BY TxFields DEF IInv, Transitory, TableTypes
  <1>2. p \notin raced /\ row[p] = tx[t].seen
    BY DEF Saved
  <1>3. CASE row[p].status \in {"NEW", "AUTHORIZED", "CAPTURED"}
    <2>1. Fresh(t)
      BY DEF IInv, TxInv
    <2>2. Rank(row[p].status) <= 3
      BY <1>3, SMT DEF Rank
    <2>3. tx[t].dirty = {c \in Columns : row[p][c] # tx[t].next[c]}
      BY <1>1, <1>2, <2>1, <2>2 DEF Fresh
    <2>4. row'[p] = [c \in Columns |-> IF c \in tx[t].dirty THEN tx[t].next[c] ELSE row[p][c]]
      BY SavedColumns
    <2>5. row'[p] = tx[t].next
      BY <1>1, <2>3, <2>4 DEF Row, Columns
    <2> QED
      BY <1>2, <1>3, <2>5
  <1>4. CASE row[p].status \notin {"NEW", "AUTHORIZED", "CAPTURED"}
    <2>1. a \notin {"AUTHORIZE", "CAPTURE", "REFUND"}
      BY <1>1, <1>2, <1>4, Decided
    <2>2. row[p].status \in {"PROCESSING", "VOIDED", "CANCELED"}
      BY <1>1, <1>2, <1>4, Decided DEF PaymentStatusEnum
    <2>3. Target[a] \in {"PROCESSING", "VOIDED", "CANCELED"}
      BY <1>1, <2>1 DEF Target
    <2>4. row'[p].status \in {"PROCESSING", "VOIDED", "CANCELED"}
      BY <1>1, <2>2, <2>3, SavedColumns, Decided
    <2>5. tx[t].next.captured = row[p].captured /\ tx[t].next.refunded = row[p].refunded
      BY <1>1, <1>2, <2>1, Decided DEF Row
    <2>6. row'[p].captured = row[p].captured /\ row'[p].refunded = row[p].refunded
      BY <2>5, SavedColumns
    <2> QED
      BY <1>2, <2>1, <2>2, <2>4, <2>6
  <1> QED
    BY <1>3, <1>4

\* The rank of a payment without a lost update rises with every save, up to
\* the last.
LEMMA SavedRises ==
    ASSUME IInv, NEW t \in Txs, tx[t].stage = "saving", Saved(t),
           tx[t].payment \notin raced'
    PROVE  LET p == tx[t].payment
           IN  /\ Rank(row'[p].status) >= Rank(row[p].status)
               /\ Rank(row'[p].status) = Rank(row[p].status) => Rank(row[p].status) = 4
  <1> DEFINE p == tx[t].payment
             a == tx[t].action
  <1>1. Transitory(t) /\ a \in Actions \cup Calls
    BY TxFields DEF IInv, Transitory
  <1>2. CASE row[p].status \in {"NEW", "AUTHORIZED", "CAPTURED"} /\ row'[p] = tx[t].next
    <2>1. row'[p].status = Target[a] /\ row[p] = tx[t].seen
      BY <1>1, <1>2, SavedUnraced, Decided
    <2>2. \/ row[p].status = "NEW" /\ Target[a] \in {"AUTHORIZED", "PROCESSING", "VOIDED", "CANCELED"}
          \/ row[p].status = "AUTHORIZED" /\ Target[a] \in {"CAPTURED", "PROCESSING", "VOIDED", "CANCELED"}
          \/ row[p].status = "CAPTURED" /\ Target[a] = "CANCELED"
      BY <1>1, <1>2, <2>1, Decided DEF Target
    <2> QED
      BY <2>1, <2>2, SMT DEF Rank
  <1>3. CASE /\ row[p].status \in {"PROCESSING", "VOIDED", "CANCELED"}
             /\ row'[p].status \in {"PROCESSING", "VOIDED", "CANCELED"}
    BY <1>3, SMT DEF Rank
  <1> QED
    BY <1>2, <1>3, SavedUnraced

\* Rows without a lost update stay coherent, and counted.
LEMMA SavedCounted ==
    ASSUME IInv, NEW t \in Txs, tx[t].stage = "saving", Saved(t),
           Moves(tx[t].payment, tx[t].action), tx[t].payment \notin raced'
    PROVE  LET p == tx[t].payment
           IN  /\ Coherent(row'[p])
               /\ emitted'[p]["PaymentCAPTURE"] = (IF row'[p].captured THEN 1 ELSE 0)
               /\ emitted'[p]["PaymentREFUND"] = (IF row'[p].refunded THEN 1 ELSE 0)
  <1> DEFINE p == tx[t].payment
             a == tx[t].action
             C == emitted[p]["PaymentCAPTURE"]
             F == emitted[p]["PaymentREFUND"]
  <1>1. p \in PaymentIds /\ Transitory(t) /\ a \in Actions \cup Calls
        /\ row[p] \in Row /\ row'[p] \in Row
    BY TxFields, SavedColumns DEF IInv, Transitory, TableTypes
  <1>2. p \notin raced /\ row[p] = tx[t].seen /\ Coherent(row[p]) /\ Counted(p)
    BY <1>1, SavedUnraced DEF IInv, RowInv
  <1>3. /\ a = "CAPTURE" => ~row[p].captured /\ ~row[p].refunded
        /\ a = "REFUND" => row[p].captured /\ ~row[p].refunded
    BY <1>1, <1>2, Decided DEF Coherent
  <1>4. /\ row'[p].captured <=> row[p].captured \/ a = "CAPTURE"
        /\ row'[p].refunded <=> row[p].refunded \/ a = "REFUND"
    BY <1>1, <1>2, SavedUnraced, Decided DEF Row
  <1>5. Coherent(row'[p])
    <2>1. CASE row[p].status \in {"NEW", "AUTHORIZED", "CAPTURED"} /\ row'[p] = tx[t].next
      <3>1. row'[p].status = Target[a]
        BY <1>1, <2>1, Decided
      <3>2. CASE a = "CAPTURE"
        BY <1>3, <1>4, <3>1, <3>2 DEF Coherent, Target
      <3>3. CASE a = "REFUND"
        BY <1>3, <1>4, <3>1, <3>3 DEF Coherent, Target
      <3>4. CASE a \notin {"CAPTURE", "REFUND"}
        <4>1. row[p].status \in {"NEW", "AUTHORIZED"}
          BY <1>1, <1>2, <2>1, <3>4, Decided
        <4>2. ~row'[p].captured /\ ~row'[p].refunded
          BY <1>2, <1>4, <3>4, <4>1 DEF Coherent
        <4>3. Target[a] # "CAPTURED"
          BY <1>1, <3>4 DEF Target
        <4> QED
          BY <3>1, <4>2, <4>3 DEF Coherent
      <3> QED
        BY <3>2, <3>3, <3>4
    <2>2. CASE /\ row[p].status \in {"PROCESSING", "VOIDED", "CANCELED"}
               /\ row'[p].status \in {"PROCESSING", "VOIDED", "CANCELED"}
               /\ row'[p].captured = row[p].captured
               /\ row'[p].refunded = row[p].refunded
      BY <1>2, <2>2 DEF Coherent
    <2> QED
      BY <2>1, <2>2, SavedUnraced
  <1>6. /\ emitted'[p]["PaymentCAPTURE"] = (IF row'[p].captured THEN 1 ELSE 0)
        /\ emitted'[p]["PaymentREFUND"] = (IF row'[p].refunded THEN 1 ELSE 0)
    <2>1. C \in Nat /\ F \in Nat
      BY <1>1, CountsAreNat
    <2>2. /\ emitted'[p]["PaymentCAPTURE"] = C + IF a = "CAPTURE" THEN 1 ELSE 0
          /\ emitted'[p]["PaymentREFUND"] = F + IF a = "REFUND" THEN 1 ELSE 0
      BY <1>1 DEF Moves
    <2>3. C = (IF row[p].captured THEN 1 ELSE 0) /\ F = (IF row[p].refunded THEN 1 ELSE 0)
      BY <1>2 DEF Counted
    <2>4. CASE a = "CAPTURE"
      BY <1>3, <1>4, <2>1, <2>2, <2>3, <2>4
    <2>5. CASE a = "REFUND"
      BY <1>3, <1>4, <2>1, <2>2, <2>3, <2>5
    <2>6. CASE a \notin {"CAPTURE", "REFUND"}
      BY <1>4, <2>1, <2>2, <2>3, <2>6
    <2> QED
      BY <2>4, <2>5, <2>6
  <1> QED
    BY <1>5, <1>6

\* What a save does to the other calls.
LEMMA SavedOthers ==
    ASSUME IInv, NEW t \in Txs, tx[t].stage = "saving", Saved(t),
           Moves(tx[t].payment, tx[t].action),
           NEW u \in Txs, u # t, tx'[u] = tx[u],
           tx'[t].stage # "creating",
           \A w \in Txs : w # t => tx'[w] = tx[w]
    PROVE  TxInv(u)'
  <1> DEFINE p == tx[t].payment
             q == tx[u].payment
  <1>1. p \in PaymentIds /\ Transitory(t) /\ TxInv(u) /\ TxInv(t)
    BY TxFields DEF IInv, Transitory
  <1>2. CASE tx[u].stage = "idle"
    BY <1>2 DEF TxInv, Claim, Knows, Fresh, Transitory
  <1>3. CASE tx[u].stage # "idle"
    <2>1. q \in PaymentIds /\ row[p].status # "NONE" /\ row'[p].status # "NONE"
      <3>1. q \in PaymentIds /\ row[p].status # "NONE"
        BY <1>1, <1>3, TxFields DEF IInv, TxInv, Claim
      <3>2. tx[t].next.status # "NONE"
        BY <1>1, Decided, TxFields DEF IInv, Target
      <3> QED
        BY <3>1, <3>2, SavedColumns
    <2>2. q # p => row'[q] = row[q]
      BY <2>1, SavedColumns
    <2>3. Claim(u)'
      <3>1. tx[u].stage = "creating" => q # p
        BY <1>1, <2>1 DEF TxInv, Claim, NoRow
      <3>2. ASSUME tx[u].stage = "creating", NEW w \in Txs, w # u
            PROVE  ~(tx'[w].stage = "creating" /\ tx'[w].payment = q)
        BY <1>1, <3>2 DEF TxInv, Claim
      <3>3. tx[u].stage \in {"read", "saving", "announcing"} => row'[q].status # "NONE"
        BY <1>1, <2>1, <2>2 DEF TxInv, Claim
      <3>4. tx[u].stage = "creating" => row'[q] = NoRow
        BY <1>1, <2>2, <3>1 DEF TxInv, Claim
      <3> QED
        BY <3>2, <3>3, <3>4 DEF Claim
    <2>4. Knows(u)'
      <3>1. Transitory(u) => Justified(tx[u].payment, tx[u].seen)'
        BY SavedJustified DEF Justified
      <3> QED
        BY <1>1, <3>1 DEF TxInv, Knows, Transitory
    <2>5. Fresh(u)'
      <3> SUFFICES ASSUME Transitory(u), q \notin raced'
                   PROVE  /\ Rank(row'[q].status) >= Rank(tx[u].seen.status)
                          /\ Rank(row'[q].status) = Rank(tx[u].seen.status)
                             /\ Rank(tx[u].seen.status) <= 3 =>
                               /\ row'[q] = tx[u].seen
                               /\ tx[u].stage = "saving" =>
                                    tx[u].dirty = {c \in Columns :
                                                     tx[u].seen[c] # tx[u].next[c]}
        BY DEF Fresh, Transitory
      <3>1. q \notin raced
        BY DEF Saved
      <3>2. /\ Rank(row[q].status) >= Rank(tx[u].seen.status)
            /\ Rank(row[q].status) = Rank(tx[u].seen.status)
               /\ Rank(tx[u].seen.status) <= 3 =>
                 /\ row[q] = tx[u].seen
                 /\ tx[u].stage = "saving" =>
                      tx[u].dirty = {c \in Columns : tx[u].seen[c] # tx[u].next[c]}
        BY <1>1, <3>1 DEF TxInv, Fresh
      <3>3. CASE q # p
        BY <2>2, <3>2, <3>3
      <3>4. CASE q = p
        <4>1. /\ Rank(row'[q].status) >= Rank(row[q].status)
              /\ Rank(row'[q].status) = Rank(row[q].status) => Rank(row[q].status) = 4
          BY <3>4, SavedRises
        <4>2. /\ Rank(row'[q].status) \in 0..4 /\ Rank(row[q].status) \in 0..4
              /\ Rank(tx[u].seen.status) \in 0..4
          BY SMT DEF Rank
        <4>3. /\ Rank(row'[q].status) >= Rank(tx[u].seen.status)
              /\ ~(Rank(row'[q].status) = Rank(tx[u].seen.status)
                   /\ Rank(tx[u].seen.status) <= 3)
          <5> DEFINE x == Rank(row'[q].status)
                     y == Rank(row[q].status)
                     z == Rank(tx[u].seen.status)
          <5>1. x \in 0..4 /\ y \in 0..4 /\ z \in 0..4 /\ x >= y /\ y >= z /\ (x = y => y = 4)
            BY <3>2, <4>1, <4>2
          <5> HIDE DEF x, y, z
          <5>2. x >= z /\ ~(x = z /\ z <= 3)
            BY <5>1, SMT
          <5> QED
            BY <5>2 DEF x, y, z
        <4> QED
          BY <4>3
      <3> QED
        BY <3>3, <3>4
    <2> QED
      BY <2>3, <2>4, <2>5 DEF TxInv
  <1> QED
    BY <1>2, <1>3

\* A save, whatever its call does next.
LEMMA SavedIInv ==
    ASSUME IInv, NEW t \in Txs, tx[t].stage = "saving", Saved(t),
           Moves(tx[t].payment, tx[t].action),
           NEW r \in OpenTx \cup {Idle}, tx' = [tx EXCEPT ![t] = r],
           r = Idle \/ (r.stage = "announcing" /\ r.payment = tx[t].payment),
           emitted' \in [PaymentIds -> [EventTypes -> Nat]],
           usedKeys' \subseteq Keys, UNCHANGED <<paymentKey, calls>>
    PROVE  IInv'
  <1> DEFINE p == tx[t].payment
  <1>1. p \in PaymentIds /\ Transitory(t) /\ TxInv(t)
    BY TxFields DEF IInv, Transitory
  <1>2. TxTypes' /\ tx'[t] = r /\ \A u \in Txs : u # t => tx'[u] = tx[u]
    BY TxSet DEF IInv
  <1>3. raced' \subseteq PaymentIds /\ raced \subseteq raced' /\ raced' \subseteq raced \cup {p}
    BY <1>1 DEF Saved, IInv, TableTypes
  <1>4. TableTypes'
    BY <1>3, SavedColumns DEF IInv, TableTypes
  <1>5. ASSUME NEW q \in PaymentIds PROVE RowInv(q)'
    <2>1. Justified(q, row[q])' /\ EventsInOrder(q)'
      BY SavedJustified
    <2>2. ASSUME q \notin raced' PROVE Coherent(row[q])' /\ Counted(q)'
      <3>1. CASE q = p
        BY <2>2, <3>1, SavedCounted DEF Coherent, Counted
      <3>2. CASE q # p
        <4>1. row'[q] = row[q] /\ Coherent(row[q]) /\ Counted(q)
          BY <1>3, <2>2, <3>2, SavedColumns DEF IInv, RowInv
        <4>2. /\ emitted'[q]["PaymentCAPTURE"] = emitted[q]["PaymentCAPTURE"]
              /\ emitted'[q]["PaymentREFUND"] = emitted[q]["PaymentREFUND"]
          BY <1>1, <3>2, MovesGrow
        <4> QED
          BY <4>1, <4>2 DEF Coherent, Counted
      <3> QED
        BY <3>1, <3>2
    <2> QED
      BY <2>1, <2>2 DEF RowInv
  <1>6. TxInv(t)'
    <2>1. row'[p].status # "NONE"
      <3>1. row[p].status # "NONE"
        BY <1>1 DEF TxInv, Claim
      <3>2. tx[t].next.status # "NONE"
        BY <1>1, Decided, TxFields DEF IInv, Target
      <3> QED
        BY <3>1, <3>2, SavedColumns
    <2> QED
      BY <1>2, <2>1 DEF TxInv, Claim, Knows, Fresh, Transitory
  <1>7. ASSUME NEW u \in Txs, u # t PROVE TxInv(u)'
    <2>1. r.stage # "creating"
      OBVIOUS
    <2> QED
      BY <1>2, <1>7, <2>1, SavedOthers
  <1> QED
    BY <1>2, <1>4, <1>5, <1>6, <1>7 DEF IInv

LEMMA TransitionCommitIInv ==
    ASSUME IInv, NEW t \in Txs, TransitionCommit(t)
    PROVE  IInv'
  <1> DEFINE p == tx[t].payment
             a == tx[t].action
  <1>1. /\ tx[t].stage = "saving" /\ a \in Actions /\ Saved(t)
        /\ usedKeys' = usedKeys \cup {tx[t].key}
        /\ Emit(p, Event[a]) /\ tx' = [tx EXCEPT ![t] = Idle]
        /\ UNCHANGED <<paymentKey, calls>>
    BY DEF TransitionCommit, End
  <1>2. p \in PaymentIds /\ tx[t].key \in Keys /\ Event[a] \in EventTypes
    BY <1>1, TxFields, MoneyTypes DEF IInv, TxInv, Knows, Transitory
  <1>3. /\ emitted' \in [PaymentIds -> [EventTypes -> Nat]]
        /\ \A q \in PaymentIds, e \in EventTypes :
             emitted'[q][e] = emitted[q][e] + IF q = p /\ e = Event[a] THEN 1 ELSE 0
    BY <1>1, <1>2, EmitAdds DEF IInv
  <1>4. Moves(p, a)
    <2>1. /\ "PaymentAUTHORIZE" = Event[a] <=> a = "AUTHORIZE"
          /\ "PaymentCAPTURE" = Event[a] <=> a = "CAPTURE"
          /\ "PaymentREFUND" = Event[a] <=> a = "REFUND"
      BY <1>1 DEF Event
    <2>2. Money \subseteq EventTypes
      BY MoneyTypes
    <2> QED
      BY <1>3, <2>1, <2>2 DEF Moves, Money
  <1>5. usedKeys' \subseteq Keys
    BY <1>1, <1>2 DEF IInv, TableTypes
  <1> DEFINE r == Idle
  <1>6. r \in OpenTx \cup {Idle} /\ r = Idle /\ tx' = [tx EXCEPT ![t] = r]
    BY <1>1
  <1> HIDE DEF r, Idle
  <1>7. emitted' \in [PaymentIds -> [EventTypes -> Nat]]
    BY <1>3
  <1>8. Moves(tx[t].payment, tx[t].action)
    BY <1>4
  <1>9. tx[t].stage = "saving" /\ Saved(t) /\ UNCHANGED <<paymentKey, calls>>
    BY <1>1
  <1>10. r = Idle \/ (r.stage = "announcing" /\ r.payment = tx[t].payment)
    BY <1>6
  <1> HIDE DEF p, a
  <1> QED
    BY <1>5, <1>6, <1>7, <1>8, <1>9, <1>10, SavedIInv

LEMMA SaveCommitIInv ==
    ASSUME IInv, NEW t \in Txs, SaveCommit(t)
    PROVE  IInv'
  <1> DEFINE p == tx[t].payment
             a == tx[t].action
             r == [stage |-> "announcing", payment |-> p, action |-> a]
  <1>1. /\ tx[t].stage = "saving" /\ a \in Calls /\ Saved(t)
        /\ tx' = [tx EXCEPT ![t] = r]
        /\ UNCHANGED <<paymentKey, usedKeys, emitted, calls>>
    BY DEF SaveCommit
  <1>2. p \in PaymentIds
    BY <1>1, TxFields DEF IInv
  <1>3. r \in OpenTx
    BY <1>1, <1>2 DEF OpenTx
  <1>4. Moves(p, a)
    <2>1. a \notin {"AUTHORIZE", "CAPTURE", "REFUND"}
      BY <1>1
    <2> QED
      BY <1>1, <2>1, CountsAreNat, SMT DEF Moves
  <1>5. emitted' \in [PaymentIds -> [EventTypes -> Nat]] /\ usedKeys' \subseteq Keys
    BY <1>1 DEF IInv, TableTypes
  <1> QED
    BY <1>1, <1>3, <1>4, <1>5, SavedIInv

-----------------------------------------------------------------------------
(* The inductive invariant holds.                                          *)

LEMMA InitIInv == Init => IInv
  <1> SUFFICES ASSUME Init PROVE IInv
    OBVIOUS
  <1>1. TableTypes
    BY BoundsAssumption DEF Init, TableTypes, Row, NoRow
  <1>2. TxTypes
    BY DEF Init, TxTypes
  <1>3. ASSUME NEW p \in PaymentIds PROVE RowInv(p)
    <2>1. \A e \in Money : emitted[p][e] = 0
      BY MoneyTypes DEF Init
    <2>2. row[p] = NoRow
      BY DEF Init
    <2> QED
      BY <2>1, <2>2 DEF RowInv, Justified, EventsInOrder, Coherent, Counted, NoRow, Money
  <1>4. ASSUME NEW t \in Txs PROVE TxInv(t)
    <2>1. tx[t] = Idle
      BY DEF Init
    <2> QED
      BY <2>1 DEF TxInv, Claim, Knows, Fresh, Transitory
  <1> QED
    BY <1>1, <1>2, <1>3, <1>4 DEF IInv

LEMMA NextIInv == IInv /\ [Next]_vars => IInv'
  <1> SUFFICES ASSUME IInv, [Next]_vars PROVE IInv'
    OBVIOUS
  <1>1. ASSUME NEW t \in Txs, NEW p \in PaymentIds, NEW k \in Keys, CreateRead(t, p, k)
        PROVE  IInv'
    BY <1>1, CreateReadIInv
  <1>2. ASSUME NEW t \in Txs, NEW p \in PaymentIds, NEW a \in Actions \cup Calls,
               NEW k \in Keys \cup {NoKey}, Read(t, p, a, k)
        PROVE  IInv'
    BY <1>2, ReadIInv
  <1>3. ASSUME NEW t \in Txs,
               \/ CreateCommit(t) \/ Reload(t) \/ TransitionCommit(t)
               \/ SaveCommit(t) \/ Announce(t) \/ Fail(t)
        PROVE  IInv'
    BY <1>3, CreateCommitIInv, ReloadIInv, TransitionCommitIInv, SaveCommitIInv,
       AnnounceIInv, FailIInv
  <1>4. CASE UNCHANGED vars
    <2>1. TableTypes' /\ TxTypes'
      BY <1>4 DEF vars, IInv, TableTypes, TxTypes
    <2>2. \A p \in PaymentIds : RowInv(p)'
      BY <1>4 DEF vars, IInv, RowInv, Justified, EventsInOrder, Coherent, Counted
    <2>3. \A t \in Txs : TxInv(t)'
      BY <1>4 DEF vars, IInv, TxInv, Claim, Knows, Fresh, Transitory, Justified
    <2> QED
      BY <2>1, <2>2, <2>3 DEF IInv
  <1> QED
    BY <1>1, <1>2, <1>3, <1>4 DEF Next

\* The inductive invariant holds in every state.
LEMMA PaymentsInvariant == Spec => []IInv
  BY InitIInv, NextIInv, PTL DEF Spec

-----------------------------------------------------------------------------
(* Keys and the events they stand for.                                     *)

Keyed == PaymentIds \X KeyedEvents

KeyedCounts == [c \in Keyed |-> emitted[c[1]][c[2]]]

KeysInv == IsFiniteSet(usedKeys) /\ AppliedOncePerKey

LEMMA KeyedIsFinite == IsFiniteSet(Keyed)
  <1>1. IsFiniteSet(KeyedEvents)
    <2>1. IsFiniteSet({"PaymentCreated"})
      BY FS_Singleton
    <2>2. IsFiniteSet({"PaymentCreated"} \cup {"PaymentAUTHORIZE"})
      BY <2>1, FS_AddElement
    <2>3. IsFiniteSet({"PaymentCreated", "PaymentAUTHORIZE"} \cup {"PaymentCANCEL"})
      BY <2>2, FS_AddElement
    <2>4. IsFiniteSet({"PaymentCreated", "PaymentAUTHORIZE", "PaymentCANCEL"}
                        \cup {"PaymentCAPTURE"})
      BY <2>3, FS_AddElement
    <2>5. IsFiniteSet({"PaymentCreated", "PaymentAUTHORIZE", "PaymentCANCEL", "PaymentCAPTURE"}
                        \cup {"PaymentREFUND"})
      BY <2>4, FS_AddElement
    <2> QED
      BY <2>5 DEF KeyedEvents, Event
  <1> QED
    BY <1>1, FS_Product, FiniteAssumption DEF Keyed

LEMMA KeyedSum ==
    /\ AppliedOncePerKey <=> Cardinality(usedKeys) = SumFunctionOnSet(KeyedCounts, Keyed)
    /\ AppliedOncePerKey' <=> Cardinality(usedKeys') = SumFunctionOnSet(KeyedCounts', Keyed)
  BY DEF AppliedOncePerKey, SumFunction, KeyedCounts, Keyed

\* A committed write takes a key and inserts one keyed event.
LEMMA KeyTakenOnce ==
    ASSUME IInv, KeysInv, NEW p \in PaymentIds, NEW ev \in KeyedEvents, Emit(p, ev),
           NEW k, k \notin usedKeys, usedKeys' = usedKeys \cup {k}
    PROVE  KeysInv'
  <1>1. PICK f, g : f = KeyedCounts /\ g = KeyedCounts'
    OBVIOUS
  <1>2. PICK y : y = <<p, ev>>
    OBVIOUS
  <1>3. y \in Keyed /\ TableTypes /\ KeyedEvents \subseteq EventTypes
    BY <1>2 DEF Keyed, IInv, EventTypes
  <1>4. ASSUME NEW c \in Keyed
        PROVE  f[c] \in Nat /\ g[c] = IF c = y THEN f[c] + 1 ELSE f[c]
    <2>1. c[1] \in PaymentIds /\ c[2] \in EventTypes /\ ev \in EventTypes /\ c = <<c[1], c[2]>>
      BY <1>3 DEF Keyed
    <2>2. emitted[c[1]][c[2]] \in Nat
      BY <1>3, <2>1 DEF TableTypes
    <2>3. emitted'[c[1]][c[2]]
            = emitted[c[1]][c[2]] + IF c[1] = p /\ c[2] = ev THEN 1 ELSE 0
      BY <1>3, <2>1, EmitAdds
    <2>4. c = y <=> c[1] = p /\ c[2] = ev
      BY <1>2, <2>1
    <2>5. f[c] = emitted[c[1]][c[2]] /\ g[c] = emitted'[c[1]][c[2]]
      BY <1>1 DEF KeyedCounts
    <2> QED
      BY <2>2, <2>3, <2>4, <2>5
  <1>5. SumFunctionOnSet(g, Keyed) = SumFunctionOnSet(f, Keyed) + 1
    <2>1. 1 \in Nat
      OBVIOUS
    <2> QED
      BY <1>3, <1>4, <2>1, KeyedIsFinite, SumGrows
  <1>6. IsFiniteSet(usedKeys') /\ Cardinality(usedKeys') = Cardinality(usedKeys) + 1
    BY FS_AddElement DEF KeysInv
  <1> QED
    BY <1>1, <1>5, <1>6, KeyedSum DEF KeysInv

\* A step that takes no key and inserts no keyed event.
LEMMA NoKeyTaken ==
    ASSUME KeysInv, UNCHANGED usedKeys,
           \A p \in PaymentIds, e \in KeyedEvents : emitted'[p][e] = emitted[p][e]
    PROVE  KeysInv'
  <1>1. KeyedCounts' = KeyedCounts
    BY DEF KeyedCounts, Keyed
  <1> QED
    BY <1>1, KeyedSum DEF KeysInv

LEMMA NextKeys == IInv /\ KeysInv /\ [Next]_vars => KeysInv'
  <1> SUFFICES ASSUME IInv, KeysInv, [Next]_vars PROVE KeysInv'
    OBVIOUS
  <1>0. TxTypes /\ TableTypes
    BY DEF IInv
  <1>1. CASE UNCHANGED <<usedKeys, emitted>>
    BY <1>1, NoKeyTaken
  <1>2. ASSUME NEW t \in Txs, CreateCommit(t) PROVE KeysInv'
    <2>1. PICK p, k : p = tx[t].payment /\ k = tx[t].key
      OBVIOUS
    <2>2. p \in PaymentIds /\ "PaymentCreated" \in KeyedEvents
      BY <1>0, <1>2, <2>1, TxFields DEF CreateCommit, KeyedEvents
    <2> QED
      BY <1>2, <2>1, <2>2, KeyTakenOnce DEF CreateCommit
  <1>3. ASSUME NEW t \in Txs, TransitionCommit(t) PROVE KeysInv'
    <2>1. PICK p, k, ev : p = tx[t].payment /\ k = tx[t].key /\ ev = Event[tx[t].action]
      OBVIOUS
    <2>2. p \in PaymentIds /\ ev \in KeyedEvents
      BY <1>0, <1>3, <2>1, TxFields DEF TransitionCommit, KeyedEvents
    <2> QED
      BY <1>3, <2>1, <2>2, KeyTakenOnce DEF TransitionCommit
  <1>4. ASSUME NEW t \in Txs, Announce(t) PROVE KeysInv'
    <2>1. PICK p, ev : p = tx[t].payment /\ ev = Event[tx[t].action]
      OBVIOUS
    <2>2. p \in PaymentIds /\ tx[t].action \in Calls
      BY <1>0, <1>4, <2>1, TxFields DEF Announce
    <2>3. ev \in EventTypes \ KeyedEvents /\ KeyedEvents \subseteq EventTypes
      BY <2>1, <2>2 DEF EventTypes, KeyedEvents, Event
    <2>4. ASSUME NEW q \in PaymentIds, NEW e \in KeyedEvents
          PROVE  emitted'[q][e] = emitted[q][e]
      <3>1. e \in EventTypes /\ e # ev /\ ev \in EventTypes
        BY <2>3
      <3>2. emitted'[q][e] = emitted[q][e] + 0
        BY <1>0, <1>4, <2>1, <2>2, <3>1, EmitAdds DEF Announce
      <3>3. emitted[q][e] \in Nat
        BY <1>0, <3>1 DEF TableTypes
      <3> QED
        BY <3>2, <3>3
    <2> QED
      BY <1>4, <2>4, NoKeyTaken DEF Announce
  <1>5. ASSUME NEW t \in Txs,
               \/ \E p \in PaymentIds, k \in Keys : CreateRead(t, p, k)
               \/ \E p \in PaymentIds, a \in Actions \cup Calls, k \in Keys \cup {NoKey} :
                    Read(t, p, a, k)
               \/ Reload(t) \/ SaveCommit(t) \/ Fail(t)
        PROVE  KeysInv'
    BY <1>1, <1>5 DEF CreateRead, Read, Reload, SaveCommit, Fail
  <1>6. CASE UNCHANGED vars
    BY <1>1, <1>6 DEF vars
  <1> QED
    BY <1>2, <1>3, <1>4, <1>5, <1>6 DEF Next

LEMMA InitKeys == Init => KeysInv
  <1> SUFFICES ASSUME Init PROVE KeysInv
    OBVIOUS
  <1>1. \A c \in Keyed : KeyedCounts[c] = 0
    BY DEF Init, KeyedCounts, Keyed, EventTypes
  <1>2. SumFunctionOnSet(KeyedCounts, Keyed) = 0
    BY <1>1, KeyedIsFinite, SumZero
  <1>3. IsFiniteSet(usedKeys) /\ Cardinality(usedKeys) = 0
    BY FS_EmptySet DEF Init
  <1> QED
    BY <1>2, <1>3, KeyedSum DEF KeysInv

-----------------------------------------------------------------------------
(* The theorems.                                                           *)

\* Over create and the transitions of all payments, whatever is retried,
\* overlaps or fails, the keys taken are as many as the events written under
\* one: no Idempotency-Key takes effect twice, none takes effect for nothing
\* (create and transition insert key, row and event in one transaction).
THEOREM PaymentsAppliedOncePerKey == Spec => []AppliedOncePerKey
  <1>1. KeysInv => AppliedOncePerKey
    BY DEF KeysInv
  <1> QED
    BY <1>1, PaymentsInvariant, InitKeys, NextKeys, PTL DEF Spec

\* The variables of payments-svc keep their types.
THEOREM PaymentsTypeCorrect == Spec => []TypeOK
  <1>1. IInv => TypeOK
    BY TypeParts DEF IInv
  <1> QED
    BY <1>1, PaymentsInvariant, PTL

\* Whatever calls overlap and overwrite each other's columns, a capture has
\* its authorization before it, a refund its capture, and an amount in the
\* row its event (transition, and TypeORM's save).
THEOREM PaymentsMoneyInOrder == Spec => []MoneyInOrder
  <1>1. IInv => MoneyInOrder
    BY DEF IInv, RowInv, Justified, EventsInOrder, MoneyInOrder
  <1> QED
    BY <1>1, PaymentsInvariant, PTL

\* A payment without a lost update is captured and refunded at most once,
\* and its row says so.
THEOREM PaymentsChargedOnce == Spec => []ChargedOnce
  <1>1. IInv => ChargedOnce
    BY DEF IInv, RowInv, Counted, ChargedOnce
  <1> QED
    BY <1>1, PaymentsInvariant, PTL

\* A payment without a lost update leaves CAPTURED only by its refund
\* (isTerminal, and the check for CAPTURED of void and CANCEL).
THEOREM PaymentsCaptureIsKept == Spec => []CaptureIsKept
  <1>1. ASSUME IInv, NEW p \in PaymentIds, p \notin raced
        PROVE  row[p].captured /\ ~row[p].refunded <=> row[p].status = "CAPTURED"
    <2>1. row[p] \in Row /\ Coherent(row[p])
      BY <1>1 DEF IInv, TableTypes, RowInv
    <2>2. row[p].status \in PaymentStatusEnum \cup {"NONE"}
      BY <2>1 DEF Row
    <2> QED
      BY <2>1, <2>2 DEF Coherent, PaymentStatusEnum
  <1>2. IInv => CaptureIsKept
    BY <1>1 DEF CaptureIsKept
  <1> QED
    BY <1>2, PaymentsInvariant, PTL
=============================================================================
