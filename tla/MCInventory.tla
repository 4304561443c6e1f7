---------------------------- MODULE MCInventory -----------------------------
(* Small instances of Inventory for TLC.                                   *)
EXTENDS Inventory

CONSTANTS MAIN, B02, h1, h2

Stock(op, l, n, k)   == [op |-> op, loc |-> l, qty |-> n, key |-> k]
Move(from, to, n, k) == [op |-> "MOVE", loc |-> from, to |-> to, qty |-> n, key |-> k]

\* MAIN has 2 available and 1 reserved; B02 has no row yet.
OneRow   == [l \in Locations |-> IF l = MAIN THEN 2 ELSE NoRow]
Reserved == [l \in Locations |-> IF l = MAIN THEN 1 ELSE 0]

\* A reserve of all there is, sent twice or expired and sent again, competes
\* with itself, with a commit and with moves in both directions, which may
\* lock crosswise; the move to B02 may have to make its row.
Competing ==
    { Stock("RESERVE", MAIN, 2, "k1"), Stock("COMMIT", MAIN, 2, "k2"),
      Move(MAIN, B02, 1, "k3"), Move(B02, MAIN, 1, "k4") }

OneReserve == { Stock("RESERVE", MAIN, 1, "k1") }
=============================================================================
