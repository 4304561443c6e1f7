------------------------------ MODULE Payments ------------------------------
(***************************************************************************)
(* payments-svc: create, transition, retry and void (PaymentsService).     *)
(*                                                                         *)
(* A call reads the payment without locking it, decides, and saves.        *)
(* TypeORM's save reads the row again, compares it with the entity, and    *)
(* updates the columns that differ; so a call overwrites what others       *)
(* committed before the second read, and leaves alone what they commit     *)
(* after it in columns that did not differ.  create and transition write   *)
(* their event in the same transaction; retry and void write theirs with   *)
(* addPaymentEvent, after the save has committed.                          *)
(***************************************************************************)
EXTENDS Integers, FiniteSets, Functions

CONSTANTS
    PaymentIds, \* ids the database may give to new payments
    Keys,       \* Idempotency-Key values of clients
    Txs,        \* bound: calls served at a time
    MaxCalls,   \* bound: calls of retry and void, which carry no key
    Failures,   \* whether a statement or the process may fail at any point
    NoKey

ASSUME FiniteAssumption == IsFiniteSet(PaymentIds)
ASSUME BoundsAssumption ==
    MaxCalls \in Nat /\ Failures \in BOOLEAN /\ NoKey \notin Keys

VARIABLES
    row,        \* [PaymentIds -> Row], status "NONE" before the payment exists
    paymentKey, \* [PaymentIds -> Keys], payments.idempotency_key
    usedKeys,   \* outbox.idempotency_key values taken (unique)
    emitted,    \* [PaymentIds -> [EventTypes -> Nat]], outbox rows inserted
    calls,      \* calls of retry and void made
    tx,         \* [Txs -> the call being served]
    raced       \* history: payments saved over a row that had changed since
                \* the call read it

vars == <<row, paymentKey, usedKeys, emitted, calls, tx, raced>>

PaymentStatusEnum == {"NEW", "AUTHORIZED", "CAPTURED", "VOIDED", "CANCELED", "PROCESSING"}

\* The columns a call writes; of an amount, whether it is set.
Row == [ status : PaymentStatusEnum \cup {"NONE"},
         authorized : BOOLEAN, captured : BOOLEAN, refunded : BOOLEAN ]
Columns == {"status", "authorized", "captured", "refunded"}

Actions == {"AUTHORIZE", "CANCEL", "CAPTURE", "REFUND"}   \* of transition
Calls   == {"RETRY", "VOID"}

\* The event each writes.
Event == [ AUTHORIZE |-> "PaymentAUTHORIZE", CANCEL |-> "PaymentCANCEL",
           CAPTURE |-> "PaymentCAPTURE", REFUND |-> "PaymentREFUND",
           RETRY |-> "PaymentRetry", VOID |-> "PaymentVoided" ]
KeyedEvents == {"PaymentCreated"} \cup {Event[a] : a \in Actions}
EventTypes  == KeyedEvents \cup {Event[a] : a \in Calls}

Idle == [stage |-> "idle"]
OpenTx ==
    [stage : {"creating"}, payment : PaymentIds, key : Keys]
    \cup [stage : {"read", "saving"}, payment : PaymentIds, action : Actions \cup Calls,
          key : Keys \cup {NoKey}, seen : Row, next : Row, dirty : SUBSET Columns]
    \cup [stage : {"announcing"}, payment : PaymentIds, action : Calls]

TypeOK ==
    /\ row \in [PaymentIds -> Row]
    /\ paymentKey \in [PaymentIds -> Keys \cup {NoKey}]
    /\ usedKeys \subseteq Keys
    /\ emitted \in [PaymentIds -> [EventTypes -> Nat]]
    /\ calls \in 0..MaxCalls
    /\ tx \in [Txs -> OpenTx \cup {Idle}]
    /\ raced \subseteq PaymentIds

NoRow == [status |-> "NONE", authorized |-> FALSE, captured |-> FALSE, refunded |-> FALSE]

Init ==
    /\ row = [p \in PaymentIds |-> NoRow]
    /\ paymentKey = [p \in PaymentIds |-> NoKey]
    /\ usedKeys = {}
    /\ emitted = [p \in PaymentIds |-> [e \in EventTypes |-> 0]]
    /\ calls = 0
    /\ tx = [t \in Txs |-> Idle]
    /\ raced = {}

-----------------------------------------------------------------------------
(* create                                                                  *)

End(t) == tx' = [tx EXCEPT ![t] = Idle]

Emit(p, e) == emitted' = [emitted EXCEPT ![p][e] = @ + 1]

\* A fresh id; PaymentIds bounds the creates that are open or done.
IsFresh(p) ==
    /\ row[p] = NoRow
    /\ \A u \in Txs : ~(tx[u].stage = "creating" /\ tx[u].payment = p)

\* A payment with the key is returned as it is; otherwise a transaction opens.
CreateRead(t, p, k) ==
    /\ tx[t] = Idle
    /\ \A q \in PaymentIds : paymentKey[q] # k
    /\ IsFresh(p)
    /\ tx' = [tx EXCEPT ![t] = [stage |-> "creating", payment |-> p, key |-> k]]
    /\ UNCHANGED <<row, paymentKey, usedKeys, emitted, calls, raced>>

\* uq_payments_idempotency_key and the outbox's unique key admit the payment.
CreateCommit(t) ==
    LET p == tx[t].payment
        k == tx[t].key
    IN  /\ tx[t].stage = "creating"
        /\ k \notin usedKeys /\ \A q \in PaymentIds : paymentKey[q] # k
        /\ row' = [row EXCEPT ![p].status = "NEW"]
        /\ paymentKey' = [paymentKey EXCEPT ![p] = k]
        /\ usedKeys' = usedKeys \cup {k}
        /\ Emit(p, "PaymentCreated")
        /\ End(t)
        /\ UNCHANGED <<calls, raced>>

-----------------------------------------------------------------------------
(* transition, retry, void                                                 *)

\* Mutants of Capturable: before the authorization, and repeatedly.
CapturableEarly   == {"NEW", "AUTHORIZED"}
CapturableAnyTime == {"AUTHORIZED", "CAPTURED"}

Capturable == {"AUTHORIZED"}

\* Mutant of Voidable: the check for CAPTURED is dropped.
VoidableAlways == PaymentStatusEnum

\* void and CANCEL refuse CAPTURED and nothing else.
Voidable == PaymentStatusEnum \ {"CAPTURED"}

isTerminal == {"CAPTURED", "VOIDED", "CANCELED"}

\* The statuses each may leave.
Sources ==
    [ AUTHORIZE |-> {"NEW"}, CAPTURE |-> Capturable, REFUND |-> {"CAPTURED"},
      CANCEL |-> Voidable, VOID |-> Voidable,
      RETRY |-> PaymentStatusEnum \ isTerminal ]

\* Mutant of Target: a status of the DTO that the entity does not have.
TargetRefunded ==
    [ AUTHORIZE |-> "AUTHORIZED", CAPTURE |-> "CAPTURED", REFUND |-> "REFUNDED",
      CANCEL |-> "CANCELED", VOID |-> "VOIDED", RETRY |-> "PROCESSING" ]

Target ==
    [ AUTHORIZE |-> "AUTHORIZED", CAPTURE |-> "CAPTURED", REFUND |-> "CANCELED",
      CANCEL |-> "CANCELED", VOID |-> "VOIDED", RETRY |-> "PROCESSING" ]

\* The entity after the assignments of the call.
Changed(r, a) ==
    [ status     |-> Target[a],
      authorized |-> r.authorized \/ a = "AUTHORIZE",
      captured   |-> r.captured \/ a = "CAPTURE",
      refunded   |-> r.refunded \/ a = "REFUND" ]

\* findOne and the checks; a refused call changes nothing.
Read(t, p, a, k) ==
    /\ tx[t] = Idle
    /\ row[p].status \in Sources[a]
    /\ IF a \in Actions
       THEN k # NoKey /\ UNCHANGED calls
       ELSE k = NoKey /\ calls < MaxCalls /\ calls' = calls + 1
    /\ tx' = [tx EXCEPT ![t] =
                [stage |-> "read", payment |-> p, action |-> a, key |-> k,
                 seen |-> row[p], next |-> Changed(row[p], a), dirty |-> {}]]
    /\ UNCHANGED <<row, paymentKey, usedKeys, emitted, raced>>

\* save: the second read, and which columns the UPDATE will set.
Reload(t) ==
    /\ tx[t].stage = "read"
    /\ tx' = [tx EXCEPT ![t].stage = "saving",
                        ![t].dirty = {c \in Columns : row[tx[t].payment][c] # tx[t].next[c]}]
    /\ UNCHANGED <<row, paymentKey, usedKeys, emitted, calls, raced>>

\* The UPDATE of save.
Saved(t) ==
    LET p == tx[t].payment
    IN  /\ row' = [row EXCEPT ![p] =
                     [c \in Columns |-> IF c \in tx[t].dirty THEN tx[t].next[c] ELSE row[p][c]]]
        /\ raced' = IF row[p] # tx[t].seen THEN raced \cup {p} ELSE raced

\* Mutant of TransitionCommit: the outbox row has no key.
TransitionCommitUnkeyed(t) ==
    /\ tx[t].stage = "saving" /\ tx[t].action \in Actions
    /\ Saved(t)
    /\ usedKeys' = usedKeys \cup {tx[t].key}
    /\ Emit(tx[t].payment, Event[tx[t].action])
    /\ End(t)
    /\ UNCHANGED <<paymentKey, calls>>

\* transition: save, enqueue and COMMIT; the unique outbox key admits it.
TransitionCommit(t) ==
    /\ tx[t].stage = "saving" /\ tx[t].action \in Actions
    /\ tx[t].key \notin usedKeys
    /\ Saved(t)
    /\ usedKeys' = usedKeys \cup {tx[t].key}
    /\ Emit(tx[t].payment, Event[tx[t].action])
    /\ End(t)
    /\ UNCHANGED <<paymentKey, calls>>

\* retry, void: save commits by itself ...
SaveCommit(t) ==
    /\ tx[t].stage = "saving" /\ tx[t].action \in Calls
    /\ Saved(t)
    /\ tx' = [tx EXCEPT ![t] = [stage |-> "announcing", payment |-> tx[t].payment,
                                action |-> tx[t].action]]
    /\ UNCHANGED <<paymentKey, usedKeys, emitted, calls>>

\* ... and addPaymentEvent follows.
Announce(t) ==
    /\ tx[t].stage = "announcing"
    /\ Emit(tx[t].payment, Event[tx[t].action])
    /\ End(t)
    /\ UNCHANGED <<row, paymentKey, usedKeys, calls, raced>>

\* A unique index rejects the key, or a statement or the process fails: what
\* was not committed is rolled back, and nothing takes up the rest.
KeyTaken(t) ==
    /\ tx[t].stage \in {"creating", "saving"}
    /\ \/ tx[t].key \in usedKeys
       \/ tx[t].stage = "creating" /\ \E q \in PaymentIds : paymentKey[q] = tx[t].key

Fail(t) ==
    /\ tx[t] # Idle
    /\ Failures \/ KeyTaken(t)
    /\ End(t)
    /\ UNCHANGED <<row, paymentKey, usedKeys, emitted, calls, raced>>

-----------------------------------------------------------------------------

Next ==
    \E t \in Txs :
        \/ \E p \in PaymentIds, k \in Keys : CreateRead(t, p, k)
        \/ \E p \in PaymentIds, a \in Actions \cup Calls, k \in Keys \cup {NoKey} :
             Read(t, p, a, k)
        \/ CreateCommit(t) \/ Reload(t) \/ TransitionCommit(t)
        \/ SaveCommit(t) \/ Announce(t) \/ Fail(t)

Spec == Init /\ [][Next]_vars

-----------------------------------------------------------------------------
(* Properties that hold for every interleaving.                            *)

\* An Idempotency-Key takes effect once, over create and all transitions of
\* all payments: each used key stands for exactly one event, and so for one
\* committed write.
AppliedOncePerKey ==
    Cardinality(usedKeys) =
        SumFunction([c \in PaymentIds \X KeyedEvents |-> emitted[c[1]][c[2]]])

\* Money moves in order, however calls overwrite each other: a capture has
\* its authorization before it and a refund its capture, and no amount is
\* recorded without its event.
MoneyInOrder ==
    \A p \in PaymentIds :
        /\ emitted[p]["PaymentCAPTURE"] > 0 => emitted[p]["PaymentAUTHORIZE"] > 0
        /\ emitted[p]["PaymentREFUND"] > 0 => emitted[p]["PaymentCAPTURE"] > 0
        /\ row[p].authorized => emitted[p]["PaymentAUTHORIZE"] > 0
        /\ row[p].captured => emitted[p]["PaymentCAPTURE"] > 0
        /\ row[p].refunded => emitted[p]["PaymentREFUND"] > 0

-----------------------------------------------------------------------------
(* Properties of payments whose saves all met the row their call had read: *)
(* it is only a lost update that can break them.                           *)

\* The customer is charged once and refunded once, and the row says so.
ChargedOnce ==
    \A p \in PaymentIds \ raced :
        /\ emitted[p]["PaymentCAPTURE"] = (IF row[p].captured THEN 1 ELSE 0)
        /\ emitted[p]["PaymentREFUND"] = (IF row[p].refunded THEN 1 ELSE 0)

\* A captured payment is left only by a refund: no cancel, void or retry
\* makes a charge disappear.
CaptureIsKept ==
    \A p \in PaymentIds \ raced :
        row[p].captured /\ ~row[p].refunded <=> row[p].status = "CAPTURED"
=============================================================================
