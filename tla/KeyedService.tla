---------------------------- MODULE KeyedService ----------------------------
(***************************************************************************)
(* What an Idempotency-Key promises a client of the gateway: requests of   *)
(* one slot (method, route and key) take effect once and have one answer,  *)
(* the answer comes after the effect, and all of it only until the slot    *)
(* is forgotten.  How the services bring that about is left open.          *)
(***************************************************************************)
EXTENDS Naturals

CONSTANTS Requests, Slots, Slot, Responses

VARIABLES
    applied,    \* [Requests -> Nat], how often a request took effect
    told,       \* set of <<request, response>>, the successes told to clients
    expired     \* slots that have been forgotten

keyedVars == <<applied, told, expired>>

Init ==
    /\ applied = [q \in Requests |-> 0]
    /\ told = {}
    /\ expired = {}

Remembered(q) == Slot[q] \notin expired

\* The first request of its slot takes effect.
Apply(q) ==
    /\ Remembered(q) => \A r \in Requests : Slot[r] = Slot[q] => applied[r] = 0
    /\ applied' = [applied EXCEPT ![q] = @ + 1]
    /\ UNCHANGED <<told, expired>>

\* A client is told of an effect, in the words of every earlier answer.
Tell(q, a) ==
    /\ applied[q] > 0
    /\ Remembered(q) => \A t \in told : Slot[t[1]] = Slot[q] => t = <<q, a>>
    /\ told' = told \cup {<<q, a>>}
    /\ UNCHANGED <<applied, expired>>

Forget(s) ==
    /\ expired' = expired \cup {s}
    /\ UNCHANGED <<applied, told>>

Next ==
    \/ \E q \in Requests : Apply(q) \/ \E a \in Responses : Tell(q, a)
    \/ \E s \in Slots : Forget(s)

Spec == Init /\ [][Next]_keyedVars
=============================================================================
