--------------------------- MODULE InventoryProofs ---------------------------
(***************************************************************************)
(* Theorems about Inventory, for any locations, stock, requests, handlers  *)
(* and faults: the types, that stock is never oversold, and that the       *)
(* history accounts for the stock.                                         *)
(***************************************************************************)
EXTENDS Inventory, TLAPS

USE DEF LedgerTypes, Idle

Ops == {"RESERVE", "COMMIT", "RELEASE", "ADJUST", "MOVE"}

\* What a request of each kind carries.
LEMMA RequestFields ==
    ASSUME NEW q \in Requests
    PROVE  /\ q.op \in Ops
           /\ q.loc \in Locations
           /\ q.qty \in Int
           /\ q.op # "ADJUST" => q.qty > 0
           /\ q.op = "ADJUST" => q.reservedQty \in Int
           /\ q.op = "MOVE" => q.to \in Locations
  <1>1. CASE q \in StockRequests
    BY <1>1, SMT DEF StockRequests, Ops
  <1>2. CASE q \in AdjustRequests
    BY <1>2, SMT DEF AdjustRequests, Ops
  <1>3. CASE q \in MoveRequests
    BY <1>3, SMT DEF MoveRequests, Ops
  <1> QED
    BY <1>1, <1>2, <1>3, RequestsAssumption

-----------------------------------------------------------------------------
(* What one request does to one row.                                       *)

\* A request changes quantities and event sums by integers.
LEMMA DeltaTypes ==
    ASSUME NEW q \in Requests, NEW l \in Locations
    PROVE  /\ AvailableDelta(q, l) \in Int
           /\ ReservedDelta(q, l) \in Int
           /\ \A e \in LedgerTypes : LedgerDelta(q, l, e) \in Int
  <1> USE RequestFields DEF Ops
  <1>1. CASE q.op = "RESERVE"
    BY <1>1, SMT DEF AvailableDelta, ReservedDelta, LedgerDelta
  <1>2. CASE q.op = "COMMIT"
    BY <1>2, SMT DEF AvailableDelta, ReservedDelta, LedgerDelta
  <1>3. CASE q.op = "RELEASE"
    BY <1>3, SMT DEF AvailableDelta, ReservedDelta, LedgerDelta
  <1>4. CASE q.op = "ADJUST"
    BY <1>4, SMT DEF AvailableDelta, ReservedDelta, LedgerDelta
  <1>5. CASE q.op = "MOVE"
    BY <1>5, SMT DEF AvailableDelta, ReservedDelta, LedgerDelta
  <1> QED
    BY <1>1, <1>2, <1>3, <1>4, <1>5

\* The events a request writes account for what it does to a row.
LEMMA EventsBalance ==
    ASSUME NEW q \in Requests, NEW l \in Locations,
           q.op = "MOVE" => q.to # q.loc
    PROVE  /\ AvailableDelta(q, l) + ReservedDelta(q, l)
                = LedgerDelta(q, l, "ADJUST") + LedgerDelta(q, l, "MOVE_IN")
                  - LedgerDelta(q, l, "MOVE_OUT") - LedgerDelta(q, l, "COMMIT")
           /\ q.op # "ADJUST" =>
                ReservedDelta(q, l) = LedgerDelta(q, l, "RESERVE")
                  - LedgerDelta(q, l, "COMMIT") - LedgerDelta(q, l, "RELEASE")
  <1> USE RequestFields DEF Ops
  <1>1. CASE q.op = "RESERVE"
    BY <1>1, SMT DEF AvailableDelta, ReservedDelta, LedgerDelta
  <1>2. CASE q.op = "COMMIT"
    BY <1>2, SMT DEF AvailableDelta, ReservedDelta, LedgerDelta
  <1>3. CASE q.op = "RELEASE"
    BY <1>3, SMT DEF AvailableDelta, ReservedDelta, LedgerDelta
  <1>4. CASE q.op = "ADJUST"
    BY <1>4, SMT DEF AvailableDelta, ReservedDelta, LedgerDelta
  <1>5. CASE q.op = "MOVE"
    BY <1>5, SMT DEF AvailableDelta, ReservedDelta, LedgerDelta
  <1> QED
    BY <1>1, <1>2, <1>3, <1>4, <1>5

\* Away from its own row a request takes nothing, and on its own row no more
\* than its check found there.
LEMMA TakesWhatIsThere ==
    ASSUME NEW q \in Requests, NEW l \in Locations,
           available[l] \in Int, reserved[l] \in Int,
           available[l] >= 0, reserved[l] >= 0,
           NoNegativeAdjust, Enough(q)
    PROVE  /\ available[l] + AvailableDelta(q, l) >= 0
           /\ reserved[l] + ReservedDelta(q, l) >= 0
  <1> USE RequestFields DEF Ops
  <1>1. CASE q.op = "RESERVE"
    BY <1>1, SMT DEF AvailableDelta, ReservedDelta, Enough
  <1>2. CASE q.op = "COMMIT"
    BY <1>2, SMT DEF AvailableDelta, ReservedDelta, Enough
  <1>3. CASE q.op = "RELEASE"
    BY <1>3, SMT DEF AvailableDelta, ReservedDelta, Enough
  <1>4. CASE q.op = "ADJUST"
    BY <1>4, SMT DEF AvailableDelta, ReservedDelta, NoNegativeAdjust
  <1>5. CASE q.op = "MOVE"
    BY <1>5, SMT DEF AvailableDelta, ReservedDelta, Enough
  <1> QED
    BY <1>1, <1>2, <1>3, <1>4, <1>5

\* On every other row a request only adds.
LEMMA OnlyAddsElsewhere ==
    ASSUME NEW q \in Requests, NEW l \in Locations, l # q.loc
    PROVE  AvailableDelta(q, l) >= 0 /\ ReservedDelta(q, l) = 0
  <1> USE RequestFields DEF Ops
  <1>1. CASE q.op = "MOVE"
    BY <1>1, SMT DEF AvailableDelta, ReservedDelta
  <1>2. CASE q.op # "MOVE"
    BY <1>2, SMT DEF AvailableDelta, ReservedDelta
  <1> QED
    BY <1>1, <1>2

-----------------------------------------------------------------------------
(* The inductive invariant.                                                *)

\* A handler past its check holds the row, and the check still holds.
RowHeld(h) ==
    /\ lock[handler[h].req.loc] = h
    /\ Enough(handler[h].req)
    /\ handler[h].req.op = "MOVE" => handler[h].req.to # handler[h].req.loc
    /\ handler[h].pc = "moving" => handler[h].req.op = "MOVE"

LockedIsChecked ==
    \A h \in Handlers : handler[h].pc \in {"moving", "writing"} => RowHeld(h)

OutboxRows ==
    {[key |-> q.key, op |-> q.op] : q \in Requests} \cup [key : SharedKeys, op : {"OTHER"}]

\* TypeOK for the stock, the outbox and the counts of executions.
StockTypes ==
    /\ exists \in [Locations -> BOOLEAN]
    /\ available \in [Locations -> Int]
    /\ reserved \in [Locations -> Int]
    /\ ledger \in [Locations -> [LedgerTypes -> Int]]
    /\ outbox \subseteq OutboxRows
    /\ applied \in [Requests -> Nat]

\* TypeOK for Redis and the requests in the process.
ProcessTypes ==
    /\ cache \subseteq [req : Requests, answer : Answers]
    /\ arrivals \in [Requests -> Nat]
    /\ lock \in [Locations -> Handlers \cup {NoHandler}]
    /\ handler \in [Handlers -> HandlerStates]

IInv == StockTypes /\ ProcessTypes /\ LockedIsChecked
           /\ NeverOversold /\ HistoryExplainsStock

\* The type invariant in the two halves the proofs use.
LEMMA TypeParts == TypeOK <=> StockTypes /\ ProcessTypes
  BY DEF TypeOK, StockTypes, OutboxRows, ProcessTypes

\* A handler that is not idle works on a request.
LEMMA HandlerFields ==
    ASSUME ProcessTypes, NEW h \in Handlers, handler[h].pc # "idle"
    PROVE  /\ handler[h].req \in Requests
           /\ handler[h] # Idle
           /\ handler[h].pc \in {"checked", "moving", "writing", "responding", "replaying"}
           /\ handler[h].pc \in {"responding", "replaying"} => handler[h].answer \in Answers
  BY DEF ProcessTypes, HandlerStates

\* Where a handler stands after a step that moves only it.
LEMMA OneMoves ==
    ASSUME ProcessTypes, NEW h \in Handlers, NEW s, handler' = [handler EXCEPT ![h] = s]
    PROVE  handler'[h] = s /\ \A g \in Handlers \ {h} : handler'[g] = handler[g]
  BY DEF ProcessTypes

\* At the start no row is held and no event is written.
LEMMA InitIInv == Init => IInv
  <1> SUFFICES ASSUME Init PROVE IInv
    OBVIOUS
  <1>1. StockTypes
    BY StockAssumption, SMT DEF Init, StockTypes
  <1>2. ProcessTypes
    BY BoundsAssumption, SMT DEF Init, ProcessTypes, HandlerStates
  <1>3. LockedIsChecked
    BY SMT DEF Init, LockedIsChecked
  <1>4. \A l \in Locations : /\ available[l] = Initially(l) /\ Initially(l) \in Nat
                              /\ reserved[l] = InitialReserved[l] /\ InitialReserved[l] \in Nat
    BY StockAssumption DEF Init, Initially
  <1>5. NeverOversold
    <2> SUFFICES ASSUME NEW l \in Locations PROVE available[l] >= 0 /\ reserved[l] >= 0
      BY DEF NeverOversold
    <2>1. available[l] \in Nat /\ reserved[l] \in Nat
      BY <1>4
    <2> QED
      BY ONLY <2>1, SMT
  <1>6. \A l \in Locations, e \in LedgerTypes : ledger[l][e] = 0
    BY DEF Init
  <1>7. HistoryExplainsStock
    <2> SUFFICES ASSUME NEW l \in Locations
                 PROVE  /\ available[l] + reserved[l] = Initially(l) + InitialReserved[l]
                             + ledger[l]["ADJUST"] + ledger[l]["MOVE_IN"]
                             - ledger[l]["MOVE_OUT"] - ledger[l]["COMMIT"]
                        /\ reserved[l] = InitialReserved[l] + ledger[l]["RESERVE"]
                             - ledger[l]["COMMIT"] - ledger[l]["RELEASE"]
      BY DEF HistoryExplainsStock
    <2>1. /\ available[l] = Initially(l) /\ Initially(l) \in Nat
          /\ reserved[l] = InitialReserved[l] /\ InitialReserved[l] \in Nat
      BY <1>4
    <2>2. \A e \in LedgerTypes : ledger[l][e] = 0
      BY <1>6
    <2> QED
      BY ONLY <2>1, <2>2, SMT DEF LedgerTypes
  <1> QED
    BY <1>1, <1>2, <1>3, <1>5, <1>7 DEF IInv

\* Without a change of the stock only the locks and handlers matter.
LEMMA StockKept ==
    ASSUME IInv, UNCHANGED stock, ProcessTypes', LockedIsChecked'
    PROVE  IInv'
  BY DEF IInv, stock, StockTypes, NeverOversold, HistoryExplainsStock,
         NoNegativeAdjust, Initially

\* A handler that does not move keeps its row while nobody takes the lock.
LEMMA HeldStays ==
    ASSUME NEW g \in Handlers, RowHeld(g), handler'[g] = handler[g], UNCHANGED stock,
           lock'[handler[g].req.loc] = lock[handler[g].req.loc]
    PROVE  RowHeld(g)'
  BY DEF RowHeld, Enough, stock

\* One lemma per action: it preserves the inductive invariant.
LEMMA ArriveIInv ==
    ASSUME IInv, NEW h \in Handlers, NEW q \in Requests, Arrive(h, q)
    PROVE  IInv'
  <1> DEFINE checked == [pc |-> "checked", req |-> q]
             replayed(e) == [pc |-> "replaying", req |-> q, answer |-> e.answer]
  <1>0. PICK s \in HandlerStates : /\ handler' = [handler EXCEPT ![h] = s]
                                  /\ s.pc \notin {"moving", "writing"}
    <2>1. ASSUME Goto(h, "checked", q)
          PROVE  /\ handler' = [handler EXCEPT ![h] = checked]
                 /\ checked \in HandlerStates /\ checked.pc = "checked"
      BY <2>1 DEF Goto, HandlerStates
    <2>2. ASSUME NEW e \in cache, Reply(h, "replaying", q, e.answer)
          PROVE  /\ handler' = [handler EXCEPT ![h] = replayed(e)]
                 /\ replayed(e) \in HandlerStates /\ replayed(e).pc = "replaying"
      BY <2>2 DEF Reply, HandlerStates, IInv, ProcessTypes
    <2>3. ASSUME UNCHANGED handler
          PROVE  /\ handler' = [handler EXCEPT ![h] = Idle]
                 /\ Idle \in HandlerStates /\ Idle.pc = "idle"
      BY <2>3 DEF Arrive, IInv, ProcessTypes, HandlerStates
    <2> HIDE DEF checked, replayed
    <2> QED
      BY <2>1, <2>2, <2>3, Zenon DEF Arrive
  <1>1. ProcessTypes'
    <2>1. arrivals[q] - 1 \in Nat
      BY SMT DEF IInv, ProcessTypes, Arrive
    <2> QED
      BY <2>1, <1>0 DEF IInv, Arrive, ProcessTypes
  <1>2. ASSUME NEW g \in Handlers, handler'[g].pc \in {"moving", "writing"}
        PROVE  RowHeld(g)'
    <2>1. handler'[g] = handler[g]
      BY <1>0, <1>2 DEF IInv, ProcessTypes
    <2> QED
      BY <1>2, <2>1, HeldStays DEF IInv, LockedIsChecked, Arrive
  <1>3. LockedIsChecked'
    BY <1>2 DEF LockedIsChecked
  <1> QED
    BY <1>1, <1>3, StockKept DEF Arrive

LEMMA ExpireIInv ==
    ASSUME IInv, NEW c \in cache, Expire(c)
    PROVE  IInv'
  <1>1. ProcessTypes'
    BY DEF IInv, Expire, ProcessTypes
  <1>2. LockedIsChecked'
    BY DEF IInv, Expire, LockedIsChecked, RowHeld, Enough, stock
  <1> QED
    BY <1>1, <1>2, StockKept DEF Expire

LEMMA CrashIInv ==
    ASSUME IInv, Crash
    PROVE  IInv'
  <1>1. ProcessTypes'
    BY DEF IInv, Crash, ProcessTypes, HandlerStates
  <1>2. LockedIsChecked'
    BY DEF Crash, LockedIsChecked
  <1> QED
    BY <1>1, <1>2, StockKept DEF Crash

\* Handlers that end, or stay out of the write section: h gives up what it
\* had locked, and nobody else notices.
LEMMA LeaveIInv ==
    ASSUME IInv, NEW h \in Handlers, handler[h].pc # "idle", UNCHANGED <<stock, arrivals>>,
           cache' \subseteq [req : Requests, answer : Answers],
           lock' \in {lock, Unlocked(h)},
           Done(h) \/ \E a \in Answers : Reply(h, "responding", handler[h].req, a)
    PROVE  IInv'
  <1> USE NoHandlerAssumption
  <1> DEFINE s == handler'[h]
  <1>0. ProcessTypes /\ handler[h].req \in Requests
    BY HandlerFields DEF IInv
  <1>1. /\ handler' = [handler EXCEPT ![h] = s]
        /\ s \in HandlerStates /\ s.pc \notin {"moving", "writing"}
    BY <1>0 DEF Done, Reply, HandlerStates, ProcessTypes
  <1>2. ProcessTypes'
    <2>1. Unlocked(h) \in [Locations -> Handlers \cup {NoHandler}]
      BY <1>0 DEF Unlocked, ProcessTypes
    <2> QED
      BY <2>1, <1>0, <1>1 DEF ProcessTypes
  <1>3. ASSUME NEW g \in Handlers, handler'[g].pc \in {"moving", "writing"}
        PROVE  RowHeld(g)'
    <2>1. g # h /\ handler'[g] = handler[g]
      BY <1>0, <1>1, <1>3 DEF ProcessTypes
    <2>2. handler[g].req.loc \in Locations
      BY <2>1, <1>0, <1>3, HandlerFields, RequestFields
    <2>3. RowHeld(g)
      BY <2>1, <1>3 DEF IInv, LockedIsChecked
    <2>4. lock'[handler[g].req.loc] = lock[handler[g].req.loc]
      BY <2>1, <2>2, <2>3 DEF Unlocked, RowHeld
    <2> QED
      BY <2>1, <2>3, <2>4, HeldStays
  <1>4. LockedIsChecked'
    BY <1>3 DEF LockedIsChecked
  <1> QED
    BY <1>2, <1>4, StockKept

LEMMA NotFoundIInv ==
    ASSUME IInv, NEW h \in Handlers, NotFound(h)
    PROVE  IInv'
  BY LeaveIInv DEF IInv, ProcessTypes, NotFound

LEMMA RefuseIInv ==
    ASSUME IInv, NEW h \in Handlers, Refuse(h)
    PROVE  IInv'
  BY LeaveIInv DEF IInv, ProcessTypes, Refuse, Answers

LEMMA DeadlockAbortIInv ==
    ASSUME IInv, NEW h \in Handlers, DeadlockAbort(h)
    PROVE  IInv'
  <1>1. handler[h].pc = "moving"
    BY DEF DeadlockAbort, Deadlocked
  <1> QED
    BY <1>1, LeaveIInv DEF IInv, ProcessTypes, DeadlockAbort

LEMMA RollbackIInv ==
    ASSUME IInv, NEW h \in Handlers, Rollback(h)
    PROVE  IInv'
  BY LeaveIInv DEF IInv, ProcessTypes, Rollback

LEMMA RespondIInv ==
    ASSUME IInv, NEW h \in Handlers, Respond(h)
    PROVE  IInv'
  <1>1. handler[h].req \in Requests /\ handler[h].answer \in Answers
    BY HandlerFields DEF IInv, Respond
  <1>2. cache' \subseteq [req : Requests, answer : Answers]
    BY <1>1 DEF IInv, ProcessTypes, Respond
  <1> QED
    BY <1>2, LeaveIInv DEF Respond

LEMMA ReplayIInv ==
    ASSUME IInv, NEW h \in Handlers, Replay(h)
    PROVE  IInv'
  BY LeaveIInv DEF IInv, ProcessTypes, Replay

\* The row h asks for was free, so no other handler holds it.
LEMMA LockIInv ==
    ASSUME IInv, NEW h \in Handlers, Lock(h)
    PROVE  IInv'
  <1> USE NoHandlerAssumption
  <1>0. ProcessTypes /\ handler[h].req \in Requests
    BY HandlerFields DEF IInv, Lock
  <1>r. handler[h].req.loc \in Locations /\ handler[h].req.op \in Ops
    BY <1>0, RequestFields
  <1> DEFINE pc == IF handler[h].req.op = "MOVE" THEN "moving" ELSE "writing"
  <1>1. /\ handler' = [handler EXCEPT ![h] = [pc |-> pc, req |-> handler[h].req]]
        /\ lock' = [lock EXCEPT ![handler[h].req.loc] = h]
    BY DEF Lock, Goto
  <1>2. ProcessTypes'
    BY <1>0, <1>1, <1>r DEF Lock, ProcessTypes, HandlerStates
  <1>3. ASSUME NEW g \in Handlers, handler'[g].pc \in {"moving", "writing"}
        PROVE  RowHeld(g)'
    <2>1. CASE g = h
      <3>1. handler'[h].req = handler[h].req /\ handler'[h].pc = pc
        BY <1>0, <1>1 DEF ProcessTypes
      <3>2. lock'[handler[h].req.loc] = h
        BY <1>0, <1>1, <1>r DEF ProcessTypes
      <3> QED
        BY <2>1, <3>1, <3>2 DEF Lock, RowHeld, Enough, stock
    <2>2. CASE g # h
      <3>1. handler'[g] = handler[g]
        BY <2>2, <1>0, <1>1 DEF ProcessTypes
      <3>2. RowHeld(g) /\ handler[g].req.loc \in Locations
        BY <3>1, <1>0, <1>3, HandlerFields, RequestFields DEF IInv, LockedIsChecked
      <3>3. handler[g].req.loc # handler[h].req.loc
        BY <3>2 DEF RowHeld, Lock
      <3>4. lock'[handler[g].req.loc] = lock[handler[g].req.loc]
        BY <3>2, <3>3, <1>0, <1>1 DEF ProcessTypes
      <3> QED
        BY <3>1, <3>2, <3>4, HeldStays DEF Lock
    <2> QED
      BY <2>1, <2>2
  <1>4. LockedIsChecked'
    BY <1>3 DEF LockedIsChecked
  <1> QED
    BY <1>2, <1>4, StockKept DEF Lock

\* The second lock of a move takes none that is held either.
LEMMA LockDestinationIInv ==
    ASSUME IInv, NEW h \in Handlers, LockDestination(h)
    PROVE  IInv'
  <1> USE NoHandlerAssumption
  <1>0. ProcessTypes /\ handler[h].req \in Requests /\ RowHeld(h)
    BY HandlerFields DEF IInv, LockDestination, LockedIsChecked
  <1>r. handler[h].req.loc \in Locations /\ handler[h].req.to \in Locations
    BY <1>0, RequestFields DEF RowHeld, LockDestination
  <1>1. /\ handler' = [handler EXCEPT ![h] = [pc |-> "writing", req |-> handler[h].req]]
        /\ lock' = [lock EXCEPT ![handler[h].req.to] = h]
    BY DEF LockDestination, Goto
  <1>2. ProcessTypes'
    BY <1>0, <1>1, <1>r DEF LockDestination, ProcessTypes, HandlerStates
  <1>3. ASSUME NEW g \in Handlers, handler'[g].pc \in {"moving", "writing"}
        PROVE  RowHeld(g)'
    <2>1. RowHeld(g) /\ handler[g].req.loc \in Locations
      BY <1>0, <1>1, <1>3, <1>r, HandlerFields, RequestFields
      DEF IInv, LockedIsChecked, ProcessTypes
    <2>2. lock'[handler[g].req.loc] = lock[handler[g].req.loc]
      BY <2>1, <1>0, <1>1, <1>r DEF ProcessTypes, RowHeld, LockDestination
    <2>3. CASE g = h
      <3>1. handler'[h].req = handler[h].req /\ handler'[h].pc = "writing"
        BY <1>0, <1>1 DEF ProcessTypes
      <3> QED
        BY <2>1, <2>2, <2>3, <3>1 DEF LockDestination, RowHeld, Enough, stock
    <2>4. CASE g # h
      <3>1. handler'[g] = handler[g]
        BY <2>4, <1>0, <1>1 DEF ProcessTypes
      <3> QED
        BY <2>1, <2>2, <3>1, HeldStays DEF LockDestination
    <2> QED
      BY <2>3, <2>4
  <1>4. LockedIsChecked'
    BY <1>3 DEF LockedIsChecked
  <1> QED
    BY <1>2, <1>4, StockKept DEF LockDestination

\* The writes, row by row.
LEMMA CommitRow ==
    ASSUME StockTypes, NEW h \in Handlers, Commit(h), NEW l \in Locations
    PROVE  /\ available'[l] = available[l] + AvailableDelta(handler[h].req, l)
           /\ reserved'[l] = reserved[l] + ReservedDelta(handler[h].req, l)
           /\ \A e \in LedgerTypes :
                 ledger'[l][e] = ledger[l][e] + LedgerDelta(handler[h].req, l, e)
  BY DEF Commit, StockTypes

\* The writes keep the types of what they change.
LEMMA CommitStockTypes ==
    ASSUME StockTypes, ProcessTypes, NEW h \in Handlers, Commit(h), LockedIsChecked
    PROVE  StockTypes'
  <1> DEFINE q == handler[h].req
  <1>1. q \in Requests /\ (q.op = "MOVE" => q.to \in Locations)
    BY HandlerFields, RequestFields DEF Commit
  <1>2. exists' \in [Locations -> BOOLEAN]
    BY <1>1 DEF StockTypes, Commit
  <1>3. \A l \in Locations : available[l] + AvailableDelta(q, l) \in Int
    <2> TAKE l \in Locations
    <2>1. available[l] \in Int /\ AvailableDelta(q, l) \in Int
      BY <1>1, DeltaTypes DEF StockTypes
    <2> QED
      BY ONLY <2>1, SMT
  <1>4. \A l \in Locations : reserved[l] + ReservedDelta(q, l) \in Int
    <2> TAKE l \in Locations
    <2>1. reserved[l] \in Int /\ ReservedDelta(q, l) \in Int
      BY <1>1, DeltaTypes DEF StockTypes
    <2> QED
      BY ONLY <2>1, SMT
  <1>5. \A l \in Locations, e \in LedgerTypes : ledger[l][e] + LedgerDelta(q, l, e) \in Int
    <2> TAKE l \in Locations, e \in LedgerTypes
    <2>1. ledger[l][e] \in Int /\ LedgerDelta(q, l, e) \in Int
      BY <1>1, DeltaTypes DEF StockTypes
    <2> QED
      BY ONLY <2>1, SMT
  <1>6. outbox' \subseteq OutboxRows
    BY <1>1 DEF StockTypes, Commit, OutboxWith, OutboxRows
  <1>7. applied' \in [Requests -> Nat]
    <2>1. applied[q] + 1 \in Nat
      BY <1>1, SMT DEF StockTypes
    <2> QED
      BY <1>1, <2>1 DEF StockTypes, Commit
  <1>8. /\ available' \in [Locations -> Int]
        /\ reserved' \in [Locations -> Int]
        /\ ledger' \in [Locations -> [LedgerTypes -> Int]]
    BY <1>3, <1>4, <1>5 DEF Commit
  <1> QED
    BY <1>2, <1>6, <1>7, <1>8 DEF StockTypes

\* The row lock at work: h owns the row it takes from, so what the others
\* checked on their own rows can only have grown.
LEMMA CommitKeepsOthers ==
    ASSUME IInv, NEW h \in Handlers, Commit(h), NEW g \in Handlers \ {h},
           handler[g].pc \in {"moving", "writing"}
    PROVE  RowHeld(g)'
  <1> USE NoHandlerAssumption
  <1> DEFINE q == handler[h].req
             r == handler[g].req
  <1>1. /\ q \in Requests /\ RowHeld(h)
        /\ r \in Requests /\ RowHeld(g) /\ r.loc \in Locations /\ r.qty \in Int
    BY HandlerFields, RequestFields DEF IInv, Commit, LockedIsChecked
  <1>2. r.loc # q.loc
    BY <1>1 DEF RowHeld
  <1>3. /\ handler'[g] = handler[g]
        /\ lock'[r.loc] = g
    BY <1>1 DEF IInv, ProcessTypes, Commit, Reply, Unlocked, RowHeld
  <1>4. /\ available[r.loc] \in Int /\ reserved[r.loc] \in Int
        /\ available'[r.loc] = available[r.loc] + AvailableDelta(q, r.loc)
        /\ reserved'[r.loc] = reserved[r.loc] + ReservedDelta(q, r.loc)
        /\ AvailableDelta(q, r.loc) \in Int /\ AvailableDelta(q, r.loc) >= 0
        /\ ReservedDelta(q, r.loc) = 0
    BY <1>1, <1>2, CommitRow, OnlyAddsElsewhere, DeltaTypes DEF IInv, StockTypes
  <1>5. available'[r.loc] >= available[r.loc] /\ reserved'[r.loc] = reserved[r.loc]
        /\ available'[r.loc] \in Int
    BY ONLY <1>4, SMT
  <1>6. /\ available[r.loc] >= r.qty => available'[r.loc] >= r.qty
        /\ reserved[r.loc] >= r.qty => reserved'[r.loc] >= r.qty
    BY ONLY <1>1, <1>4, <1>5, SMT
  <1> QED
    BY <1>1, <1>3, <1>6 DEF RowHeld, Enough

\* A commit: the events account for it, and the checked row can bear it.
LEMMA CommitIInv ==
    ASSUME IInv, NEW h \in Handlers, Commit(h)
    PROVE  IInv'
  <1> DEFINE q == handler[h].req
  <1>0. /\ StockTypes /\ ProcessTypes /\ LockedIsChecked
        /\ q \in Requests /\ RowHeld(h)
    BY HandlerFields DEF IInv, Commit, LockedIsChecked
  <1>1. StockTypes'
    BY <1>0, CommitStockTypes
  <1>2. ProcessTypes'
    <2>1. Unlocked(h) \in [Locations -> Handlers \cup {NoHandler}]
      BY <1>0 DEF Unlocked, ProcessTypes
    <2> QED
      BY <1>0, <2>1 DEF ProcessTypes, HandlerStates, Commit, Reply, Answers
  <1>3. LockedIsChecked'
    <2>1. ASSUME NEW g \in Handlers, handler'[g].pc \in {"moving", "writing"}
          PROVE  RowHeld(g)'
      <3>1. g # h /\ handler'[g] = handler[g]
        BY <1>0, <2>1 DEF ProcessTypes, Commit, Reply
      <3> QED
        BY <2>1, <3>1, CommitKeepsOthers
    <2> QED
      BY <2>1 DEF LockedIsChecked
  <1>4. NeverOversold'
    <2> SUFFICES ASSUME NoNegativeAdjust, NEW l \in Locations
                 PROVE  available'[l] >= 0 /\ reserved'[l] >= 0
      BY DEF NeverOversold, NoNegativeAdjust
    <2>1. available[l] \in Int /\ reserved[l] \in Int /\ available[l] >= 0 /\ reserved[l] >= 0
      BY <1>0 DEF IInv, NeverOversold, StockTypes
    <2>2. available[l] + AvailableDelta(q, l) >= 0 /\ reserved[l] + ReservedDelta(q, l) >= 0
      BY <1>0, <2>1, TakesWhatIsThere DEF RowHeld
    <2> QED
      BY <1>0, <2>2, CommitRow
  <1>5. HistoryExplainsStock'
    <2> SUFFICES ASSUME NEW l \in Locations
                 PROVE  /\ available'[l] + reserved'[l] = Initially(l) + InitialReserved[l]
                             + ledger'[l]["ADJUST"] + ledger'[l]["MOVE_IN"]
                             - ledger'[l]["MOVE_OUT"] - ledger'[l]["COMMIT"]
                        /\ (\A p \in Requests : p.op # "ADJUST") =>
                             reserved'[l] = InitialReserved[l] + ledger'[l]["RESERVE"]
                               - ledger'[l]["COMMIT"] - ledger'[l]["RELEASE"]
      BY DEF HistoryExplainsStock, Initially
    <2> DEFINE a == AvailableDelta(q, l)
               r == ReservedDelta(q, l)
               d(e) == LedgerDelta(q, l, e)
               s(e) == ledger[l][e]
               start == Initially(l)
               startReserved == InitialReserved[l]
    <2>1. /\ start \in Int /\ startReserved \in Int
          /\ available[l] \in Int /\ reserved[l] \in Int /\ a \in Int /\ r \in Int
          /\ \A e \in LedgerTypes : d(e) \in Int /\ s(e) \in Int
      BY <1>0, DeltaTypes, StockAssumption DEF StockTypes, Initially
    <2>2. /\ available'[l] = available[l] + a
          /\ reserved'[l] = reserved[l] + r
          /\ \A e \in LedgerTypes : ledger'[l][e] = s(e) + d(e)
      BY <1>0, CommitRow
    <2>3. a + r = d("ADJUST") + d("MOVE_IN") - d("MOVE_OUT") - d("COMMIT")
      BY <1>0, EventsBalance DEF RowHeld
    <2>4. available[l] + reserved[l]
            = start + startReserved + s("ADJUST") + s("MOVE_IN") - s("MOVE_OUT") - s("COMMIT")
      BY DEF IInv, HistoryExplainsStock
    <2>5. ASSUME \A p \in Requests : p.op # "ADJUST"
          PROVE  /\ r = d("RESERVE") - d("COMMIT") - d("RELEASE")
                 /\ reserved[l] = startReserved + s("RESERVE") - s("COMMIT") - s("RELEASE")
      BY <1>0, <2>5, EventsBalance DEF IInv, HistoryExplainsStock, RowHeld
    <2> HIDE DEF a, r, d, s, start, startReserved
    <2>6. available'[l] + reserved'[l] = start + startReserved
             + ledger'[l]["ADJUST"] + ledger'[l]["MOVE_IN"]
             - ledger'[l]["MOVE_OUT"] - ledger'[l]["COMMIT"]
      BY ONLY <2>1, <2>2, <2>3, <2>4, SMT DEF LedgerTypes
    <2>7. ASSUME \A p \in Requests : p.op # "ADJUST"
          PROVE  reserved'[l] = startReserved + ledger'[l]["RESERVE"]
                     - ledger'[l]["COMMIT"] - ledger'[l]["RELEASE"]
      <3>1. /\ r = d("RESERVE") - d("COMMIT") - d("RELEASE")
            /\ reserved[l] = startReserved + s("RESERVE") - s("COMMIT") - s("RELEASE")
        BY <2>5, <2>7
      <3> QED
        BY ONLY <2>1, <2>2, <3>1, SMT DEF LedgerTypes
    <2> QED
      BY <2>6, <2>7 DEF start, startReserved
  <1> QED
    BY <1>1, <1>2, <1>3, <1>4, <1>5 DEF IInv

\* A row of another service.
LEMMA ElsewhereIInv ==
    ASSUME IInv, NEW k \in SharedKeys, Elsewhere(k)
    PROVE  IInv'
  <1>1. outbox' \subseteq OutboxRows
    BY DEF Elsewhere, IInv, StockTypes, OutboxRows
  <1> QED
    BY <1>1 DEF Elsewhere, IInv, StockTypes, ProcessTypes, LockedIsChecked, RowHeld, Enough,
                NeverOversold, HistoryExplainsStock

-----------------------------------------------------------------------------
(* The outbox.                                                             *)

LEMMA InitAnnounced == Init => EveryChangeAnnounced
  BY SMT DEF Init, EveryChangeAnnounced

\* A commit leaves a row under its key, and adds no other.
LEMMA CommitAnnounced ==
    ASSUME IInv, EveryChangeAnnounced, NEW h \in Handlers, Commit(h)
    PROVE  EveryChangeAnnounced'
  <1> DEFINE c == handler[h].req
             row == [key |-> c.key, op |-> c.op]
  <1>1. c \in Requests
    BY HandlerFields DEF IInv, Commit
  <1>2. /\ applied'[c] > 0
        /\ \A q \in Requests \ {c} : applied'[q] = applied[q]
        /\ applied[c] \in Nat
    BY <1>1 DEF IInv, StockTypes, Commit
  <1>3. row.key = c.key /\ row.op = c.op
    OBVIOUS
  <1> HIDE DEF c, row
  <1>4. /\ outbox \subseteq outbox' /\ outbox' \subseteq outbox \cup {row}
        /\ \E r \in outbox' : r.key = c.key
    <2>1. outbox' = OutboxWith(c)
      BY DEF Commit, c
    <2>2. CASE \E r \in outbox : r.key = c.key
      BY <2>1, <2>2 DEF OutboxWith
    <2>3. CASE ~\E r \in outbox : r.key = c.key
      BY <1>3, <2>1, <2>3 DEF OutboxWith, row
    <2> QED
      BY <2>2, <2>3
  <1>5. ASSUME NEW q \in Requests, applied'[q] > 0
        PROVE  \E r \in outbox' : r.key = q.key
    BY <1>2, <1>4, <1>5 DEF EveryChangeAnnounced
  <1>6. ASSUME NEW r \in outbox', r.op # "OTHER"
        PROVE  \E q \in Requests : q.key = r.key /\ q.op = r.op /\ applied'[q] > 0
    <2>1. CASE r = row
      BY <1>1, <1>2, <1>3, <2>1
    <2>2. CASE r \in outbox
      <3>1. PICK q \in Requests : q.key = r.key /\ q.op = r.op /\ applied[q] > 0
        BY <1>6, <2>2 DEF EveryChangeAnnounced
      <3>2. applied'[q] > 0
        BY <1>2, <3>1
      <3> QED
        BY <3>1, <3>2
    <2> QED
      BY <1>4, <1>6, <2>1, <2>2
  <1> QED
    BY <1>5, <1>6 DEF EveryChangeAnnounced

\* Only a commit counts an execution or inserts inventory-svc's events.
LEMMA NextAnnounced ==
    ASSUME IInv, EveryChangeAnnounced, [Next]_vars
    PROVE  EveryChangeAnnounced'
  <1>1. CASE UNCHANGED <<applied, outbox>>
    BY <1>1 DEF EveryChangeAnnounced
  <1>2. ASSUME NEW k \in SharedKeys, Elsewhere(k) PROVE EveryChangeAnnounced'
    BY <1>2 DEF Elsewhere, EveryChangeAnnounced
  <1>3. ASSUME NEW h \in Handlers, Serve(h) PROVE UNCHANGED <<applied, outbox>> \/ Commit(h)
    BY <1>3 DEF Serve, Proceed, NotFound, Refuse, Lock, LockDestination, DeadlockAbort,
                Respond, Replay, Rollback, stock
  <1>4. ASSUME NEW h \in Handlers, NEW q \in Requests, Arrive(h, q)
        PROVE  UNCHANGED <<applied, outbox>>
    BY <1>4 DEF Arrive, stock
  <1>5. ASSUME NEW c \in cache, Expire(c) PROVE UNCHANGED <<applied, outbox>>
    BY <1>5 DEF Expire, stock
  <1>6. CASE Crash
    BY <1>1, <1>6 DEF Crash, stock
  <1>7. CASE UNCHANGED vars
    BY <1>1, <1>7 DEF vars
  <1> QED
    BY <1>1, <1>2, <1>3, <1>4, <1>5, <1>6, <1>7, CommitAnnounced DEF Next

-----------------------------------------------------------------------------
(* The theorems.                                                           *)

\* No step breaks the inductive invariant.
LEMMA NextIInv == IInv /\ [Next]_vars => IInv'
  <1> SUFFICES ASSUME IInv, [Next]_vars PROVE IInv'
    OBVIOUS
  <1>1. ASSUME NEW h \in Handlers, NEW q \in Requests, Arrive(h, q) PROVE IInv'
    BY <1>1, ArriveIInv
  <1>2. ASSUME NEW h \in Handlers, Serve(h) PROVE IInv'
    BY <1>2, NotFoundIInv, RefuseIInv, LockIInv, LockDestinationIInv,
       DeadlockAbortIInv, CommitIInv, RollbackIInv, RespondIInv, ReplayIInv DEF Serve, Proceed
  <1>3. ASSUME NEW c \in cache, Expire(c) PROVE IInv'
    BY <1>3, ExpireIInv
  <1>4. CASE Crash
    BY <1>4, CrashIInv
  <1>e. ASSUME NEW k \in SharedKeys, Elsewhere(k) PROVE IInv'
    BY <1>e, ElsewhereIInv
  <1>5. CASE UNCHANGED vars
    <2>1. UNCHANGED stock /\ ProcessTypes' /\ LockedIsChecked'
      BY <1>5 DEF vars, stock, IInv, ProcessTypes, LockedIsChecked, RowHeld, Enough
    <2> QED
      BY <2>1, StockKept
  <1> QED
    BY <1>1, <1>2, <1>3, <1>4, <1>e, <1>5 DEF Next

\* The inductive invariant holds in every state.
LEMMA InventoryInvariant == Spec => []IInv
  BY InitIInv, NextIInv, PTL DEF Spec

\* The variables of inventory-svc keep their types.
THEOREM InventoryTypeCorrect == Spec => []TypeOK
  <1>1. IInv => TypeOK
    BY TypeParts DEF IInv
  <1> QED
    BY <1>1, InventoryInvariant, PTL

\* No interleaving of reserves, commits, releases and moves, with any number
\* of handlers, retries, crashes and failing statements, makes a quantity of
\* a row negative (setQuantitiesById after lockById).
THEOREM InventoryNeverOversold == Spec => []NeverOversold
  <1>1. IInv => NeverOversold
    BY DEF IInv
  <1> QED
    BY <1>1, InventoryInvariant, PTL

\* The rows of inventory_events always account for both quantities of every
\* row of inventory (addEvent in each transaction of inventory.service.js).
THEOREM InventoryHistoryExplainsStock == Spec => []HistoryExplainsStock
  <1>1. IInv => HistoryExplainsStock
    BY DEF IInv
  <1> QED
    BY <1>1, InventoryInvariant, PTL

\* Every committed stock change has an event under its key in the outbox, and
\* every event of inventory-svc there is of a committed change (the INSERT of
\* addOutboxEvent in the transaction of the change).
THEOREM InventoryEveryChangeAnnounced == Spec => []EveryChangeAnnounced
  <1>1. IInv /\ EveryChangeAnnounced /\ [Next]_vars => EveryChangeAnnounced'
    BY NextAnnounced
  <1> QED
    BY <1>1, InitAnnounced, InventoryInvariant, PTL DEF Spec
=============================================================================
