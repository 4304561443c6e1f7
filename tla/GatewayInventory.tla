--------------------------- MODULE GatewayInventory ---------------------------
(***************************************************************************)
(* The gateway in front of inventory-svc: routes/inventory.controller.ts   *)
(* passes a reserved call on by HTTP, with the client's key, and waits for *)
(* the answer at most as long as HttpModule's timeout.  Two Redis records  *)
(* guard one request, the gateway's and the middleware's.                  *)
(*                                                                         *)
(* Each step is one of Gateway, one of Inventory, or one of both at the    *)
(* two ends of the HTTP exchange.                                          *)
(***************************************************************************)
EXTENDS Gateway

CONSTANTS Locations, InitialStock, InitialReserved, Handlers, SharedKeys,
          IndexIsPartial, Faults, NoRow, NoHandler, NoCall

VARIABLES exists, available, reserved, ledger, outbox, applied,
          cache, arrivals, lock, handler,
          link      \* [Handlers -> Calls \cup {NoCall}], who waits for a handler

Inv == INSTANCE Inventory

\* The gateway's record and the middleware's are for the same requests, and
\* the one success of inventory-svc is { success: true }; a 409 is an error.
ASSUME SlotAssumption ==
    \A q, r \in Requests : Slot[q] = Slot[r] <=> Inv!SameSlot(q, r)
ASSUME AnswersAssumption == Responses = {"done"}
ASSUME NoCallAssumption == NoCall \notin Calls
ASSUME InventoryAssumption ==
    /\ Inv!RequestsAssumption /\ Inv!StockAssumption
    /\ Inv!BoundsAssumption /\ Inv!SharedAssumption /\ Inv!NoHandlerAssumption

inventoryVars == <<exists, available, reserved, ledger, outbox, applied,
                   cache, arrivals, lock, handler>>
systemVars    == <<gatewayVars, inventoryVars, link>>

SystemTypeOK ==
    /\ TypeOK
    /\ Inv!TypeOK
    /\ link \in [Handlers -> Calls \cup {NoCall}]

SystemInit ==
    /\ Init
    /\ Inv!Init
    /\ link = [h \in Handlers |-> NoCall]

Unlink(H) == link' = [h \in Handlers |-> IF h \in H THEN NoCall ELSE link[h]]

\* A step of the gateway alone.
GatewayStep ==
    /\ \/ \E c \in Calls, q \in Requests : Ask(c, q)
       \/ \E c \in Calls : Reserve(c) \/ Finalize(c)
       \/ \E s \in Slots : Expire(s)
    /\ UNCHANGED <<inventoryVars, link>>

\* http.post: the request arrives; a 409 of the middleware needs no handler,
\* and the call has only its failure ahead.
Post(c, h) ==
    /\ Forward(c)
    /\ Inv!Arrive(h, call[c].req)
    /\ IF handler'[h] = Inv!Idle THEN UNCHANGED link ELSE link' = [link EXCEPT ![h] = c]

\* Mutant of Handle: axios throws for no status (validateStatus).
HandleLenient(h) ==
    /\ Inv!Serve(h)
    /\ IF handler'[h] # Inv!Idle
       THEN UNCHANGED <<gatewayVars, link>>
       ELSE /\ Unlink({h})
            /\ IF link[h] = NoCall
               THEN UNCHANGED gatewayVars
               ELSE Answer(link[h], "done")

\* A handler goes on.  When it ends, the response reaches the call that
\* waits for it: a success as the answer, anything else, the 409 of a refused
\* request included, as an error that axios throws.
Handle(h) ==
    /\ Inv!Serve(h)
    /\ IF handler'[h] # Inv!Idle
       THEN UNCHANGED <<gatewayVars, link>>
       ELSE /\ Unlink({h})
            /\ IF link[h] = NoCall
               THEN UNCHANGED gatewayVars
               ELSE IF handler[h].pc \in {"responding", "replaying"} /\ handler[h].answer = "done"
                    THEN Answer(link[h], handler[h].answer)
                    ELSE Fail(link[h])

\* Mutant of GiveUp: the gateway frees the key of a call that failed.
GiveUpFreeing(c) ==
    /\ call[c] # Free
    /\ Release(c)
    /\ record' = [record EXCEPT ![Slot[call[c].req]] = NoRecord]
    /\ Unlink({h \in Handlers : link[h] = c})
    /\ UNCHANGED <<sends, told, forwards, expired, inventoryVars>>

\* The timeout, or the gateway dies; the handler goes on for nobody.
GiveUp(c) ==
    /\ Fail(c)
    /\ Unlink({h \in Handlers : link[h] = c})
    /\ UNCHANGED inventoryVars

\* inventory-svc dies, a response it stored runs out, or another service
\* takes a key in the outbox.
InventoryAlone ==
    /\ \/ Inv!Crash /\ Unlink(Handlers)
       \/ \E k \in SharedKeys : Inv!Elsewhere(k) /\ UNCHANGED link
       \/ \E e \in cache : Inv!Expire(e) /\ UNCHANGED link
    /\ UNCHANGED gatewayVars

SystemNext ==
    \/ GatewayStep
    \/ \E c \in Calls, h \in Handlers : Post(c, h)
    \/ \E h \in Handlers : Handle(h)
    \/ \E c \in Calls : GiveUp(c)
    \/ InventoryAlone

\* Redis removes every record in the end.
SystemSpec ==
    /\ SystemInit
    /\ [][SystemNext]_systemVars
    /\ \A s \in Slots : WF_systemVars(Expire(s) /\ UNCHANGED <<inventoryVars, link>>)

-----------------------------------------------------------------------------
(* Properties.                                                             *)

\* What a client asked for under one key happens to the stock once, or not
\* at all: timeouts after which the handler commits, a crash before the
\* response is stored and retries included.
AppliedOnce ==
    \A q, r \in Requests :
        Slot[q] = Slot[r] /\ Slot[q] \notin expired /\ applied[q] > 0
            => applied[q] = 1 /\ (q # r => applied[r] = 0)

\* A client that reads a success had its own request committed, be the
\* response fresh, replayed by the middleware or replayed by the gateway.
SuccessIsApplied == \A q \in Requests : <<q, "done">> \in told => applied[q] > 0

Keyed == INSTANCE KeyedService

\* Clients see what KeyedService promises: two records, each read and written
\* apart from the transaction between them, behave as one effect and one
\* answer per key, in that order, whatever dies, times out or comes late.
ImplementsKeyedService == Keyed!Spec
=============================================================================
