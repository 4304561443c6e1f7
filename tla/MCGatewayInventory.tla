------------------------- MODULE MCGatewayInventory --------------------------
(* A small instance of GatewayInventory for TLC.                           *)
EXTENDS GatewayInventory

CONSTANTS MAIN, c1, c2, h1, h2

TwoAvailable == [l \in Locations |-> 2]
NoneReserved == [l \in Locations |-> 0]

\* One key used for two bodies.
OneKey ==
    { [op |-> "RESERVE", loc |-> MAIN, qty |-> 1, key |-> "k1"],
      [op |-> "RESERVE", loc |-> MAIN, qty |-> 2, key |-> "k1"] }

SlotOf(q)   == <<q.op, q.key>>
TheSlots    == {SlotOf(q) : q \in Requests}
SlotsOfKeys == [q \in Requests |-> SlotOf(q)]
=============================================================================
