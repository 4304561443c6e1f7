---------------------------- MODULE MCFulfilment ----------------------------
(* A small instance of Fulfilment for TLC.                                 *)
EXTENDS Fulfilment, TLC

CONSTANTS o1, k1, h1, t1, t2

Create   == [op |-> "create", order |-> o1, key |-> "a"]
Ship     == [op |-> "ship", shipment |-> 1, key |-> "b"]
Cancel   == [op |-> "cancel", shipment |-> 1, key |-> "c"]

RequestsAll == {Create, Ship, Cancel}
Once == [q \in Requests |-> 1]

OrderRequestsAll == {"create", "cancel"} \X {k1}

NoLines == [o \in OrderIds |-> << >>]
=============================================================================
