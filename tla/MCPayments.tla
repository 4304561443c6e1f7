----------------------------- MODULE MCPayments -----------------------------
(* Small instances of Payments for TLC.                                    *)
EXTENDS Payments, TLC

CONSTANTS p1, p2, k1, k2, k3, k4, t1, t2

Symmetry == Permutations(PaymentIds) \cup Permutations(Keys) \cup Permutations(Txs)
=============================================================================
