----------------------------- MODULE MCShipping -----------------------------
(* A small instance of Shipping for TLC.                                   *)
EXTENDS Shipping, TLC

CONSTANTS o1, o2, h1, h2

\* Two creates share a key, and the shipment is shipped and canceled.
Create  == [op |-> "create", order |-> o1, key |-> "a"]
Another == [op |-> "create", order |-> o2, key |-> "a"]
Ship    == [op |-> "ship", shipment |-> 1, key |-> "b"]
Cancel  == [op |-> "cancel", shipment |-> 1, key |-> "c"]

RequestsAll == {Create, Another, Ship, Cancel}
CopiesAll   == (Create :> 2) @@ (Another :> 1) @@ (Ship :> 2) @@ (Cancel :> 1)
=============================================================================
