------------------------------ MODULE MCOrders ------------------------------
(* Small instances of Orders for TLC.                                      *)
EXTENDS Orders, TLC

CONSTANTS o1, o2, skuA, skuB, k1, k2, t1, t2

Line(s, q) == [sku |-> s, qty |-> q]

\* o1 has a line that takes two commits and one that takes one; o2 lists a
\* SKU twice, which neither approve nor release can announce.
LinesBoth ==
    [o \in OrderIds |-> IF o = o1 THEN << Line(skuA, 2), Line(skuB, 1) >>
                        ELSE << Line(skuA, 1), Line(skuA, 1) >>]

Captured == [type |-> "PaymentCaptured", order |-> o1, id |-> 1]
Shipped  == [type |-> "ShipmentShipped", order |-> o1, id |-> 2]
Committed(s, q, i) ==
    [type |-> "InventoryCommitted", order |-> o1, id |-> i, sku |-> s, qty |-> q]

MessagesPayShip == {Captured, Shipped}
\* One of the two units of skuA, and skuB.
MessagesCommits == {Committed(skuA, 1, 3), Committed(skuB, 1, 5)}
MessagesAll     == MessagesPayShip \cup MessagesCommits

\* Redelivery of every event, of all but the shipment's and skuB's, of none.
Twice == [m \in Messages |-> 2]
Some  == [m \in Messages |-> IF m.id \in {1, 3} THEN 2 ELSE 1]
Once  == [m \in Messages |-> 1]

\* The client requests: creates that share a key, and two keys for the rest.
RequestsAll    == {<<"create", k1>>} \cup ({"approve", "cancel"} \X Keys)
RequestsCreate == {<<"create", k1>>}

TxSymmetry == Permutations(Txs)
=============================================================================
