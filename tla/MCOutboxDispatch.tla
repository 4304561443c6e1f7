-------------------------- MODULE MCOutboxDispatch --------------------------
(* Small instances of OutboxDispatch for TLC.                              *)
EXTENDS OutboxDispatch

CONSTANTS w1, w2, s1, s2
=============================================================================
