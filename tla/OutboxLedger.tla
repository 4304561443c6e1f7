---------------------------- MODULE OutboxLedger ----------------------------
(***************************************************************************)
(* What an outbox promises its producers, without claims, locks, workers   *)
(* or batches: every recorded event goes through delivery attempts one at  *)
(* a time, each attempt publishes it at most once, and the event ends      *)
(* "done" only after a publication and "dead" only after MaxAttempts       *)
(* failed attempts.  OutboxDispatch is shown to implement this module.     *)
(***************************************************************************)
EXTENDS Naturals

CONSTANTS
    Rows,         \* the outbox events
    MaxAttempts   \* OUTBOX_MAX_ATTEMPTS: failed attempts that kill an event

VARIABLES
    phase,        \* [Rows -> Phases]
    tries,        \* [Rows -> Nat], the failed attempts so far
    pubs          \* [Rows -> Nat], how often the event was published

lvars == <<phase, tries, pubs>>

Phases == {"absent", "queued", "held", "done", "dead"}

Init ==
    /\ phase = [r \in Rows |-> "absent"]
    /\ tries = [r \in Rows |-> 0]
    /\ pubs  = [r \in Rows |-> 0]

\* A producer records a new event.
Record(r) ==
    /\ phase[r] = "absent"
    /\ phase' = [phase EXCEPT ![r] = "queued"]
    /\ UNCHANGED <<tries, pubs>>

\* An attempt is started for every event of R.
Take(R) ==
    /\ \A r \in R : phase[r] = "queued"
    /\ phase' = [r \in Rows |-> IF r \in R THEN "held" ELSE phase[r]]
    /\ UNCHANGED <<tries, pubs>>

\* The event is published; never more often than it was attempted.
Send(r) ==
    /\ phase[r] = "held"
    /\ pubs[r] <= tries[r]
    /\ pubs' = [pubs EXCEPT ![r] = @ + 1]
    /\ UNCHANGED <<phase, tries>>

\* The attempts for the events of R succeeded.
Complete(R) ==
    /\ \A r \in R : phase[r] = "held" /\ pubs[r] > 0
    /\ phase' = [r \in Rows |-> IF r \in R THEN "done" ELSE phase[r]]
    /\ UNCHANGED <<tries, pubs>>

\* The attempt failed: back to the queue, or dead when attempts run out.
GiveBack(r) ==
    /\ phase[r] = "held"
    /\ tries' = [tries EXCEPT ![r] = @ + 1]
    /\ phase' = [phase EXCEPT ![r] = IF tries[r] + 1 >= MaxAttempts
                                     THEN "dead" ELSE "queued"]
    /\ UNCHANGED pubs

Next ==
    \/ \E r \in Rows : Record(r) \/ Send(r) \/ GiveBack(r)
    \/ \E R \in SUBSET Rows : Take(R) \/ Complete(R)

Spec == Init /\ [][Next]_lvars
=============================================================================
