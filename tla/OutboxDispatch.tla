--------------------------- MODULE OutboxDispatch ---------------------------
(***************************************************************************)
(* The transactional outbox of supply-chain-saga: the table `outbox`, the  *)
(* domain transactions that insert into it, and the workers that claim     *)
(* batches with FOR UPDATE SKIP LOCKED, publish them to core NATS outside  *)
(* the transaction and mark each row afterwards.  All four services run    *)
(* the same algorithm (outbox.service.ts in orders-svc and payments-svc,   *)
(* outbox.worker.js in inventory-svc and shipping-svc).                    *)
(*                                                                         *)
(* A worker starts a dispatch at every setInterval tick without awaiting   *)
(* the previous one, so one worker runs several dispatches at once; a      *)
(* "runner" is one such invocation of dispatchOnce.                        *)
(***************************************************************************)
EXTENDS Integers, FiniteSets

CONSTANTS
    Rows,         \* outbox rows; a row is its created_at rank
    Workers,      \* outbox worker processes on the table, one per service
    Slots,        \* bound: dispatches of one worker in flight together
    BatchSize,    \* OUTBOX_BATCH_SIZE
    MaxAttempts,  \* OUTBOX_MAX_ATTEMPTS
    Faults        \* the faults the environment may inject, of FaultKinds

FaultKinds ==
    { "publish",  \* nc.publish throws (connection closed or draining)
      "db",       \* a statement fails and is not applied
      "lostAck",  \* an UPDATE or COMMIT is applied but its reply is lost
      "crash" }   \* a worker process dies and is restarted

ASSUME RowsAssumption   == Rows \subseteq Nat
ASSUME LimitAssumption  == BatchSize \in Nat \ {0} /\ MaxAttempts \in Nat \ {0}
ASSUME FaultsAssumption == Faults \subseteq FaultKinds

Runners == Workers \X Slots

NothingSeen == [r \in Rows |-> 0]

VARIABLES
    status,     \* [Rows -> Statuses], column status ("ABSENT": no such row)
    attempts,   \* [Rows -> Nat], column attempts
    due,        \* [Rows -> BOOLEAN], next_attempt_at <= NOW()
    pc,         \* [Runners -> Stages], where the dispatch is
    batch,      \* [Runners -> SUBSET Rows], toProcess, what is left of it
    seen,       \* [Runners -> [Rows -> Nat]], ev.attempts as claimed
    sent,       \* [Rows -> Nat], calls of nc.publish that were accepted
    pending,    \* [Workers -> SUBSET Rows], in the NATS client's buffer
    delivered   \* set of <<row, worker>>: on the wire as <worker>.events.v1

rowVars  == <<status, attempts, due>>
runVars  == <<pc, batch, seen>>
natsVars == <<sent, pending, delivered>>
vars     == <<status, attempts, due, pc, batch, seen, sent, pending, delivered>>

Statuses == {"ABSENT", "PENDING", "PROCESSING", "PUBLISHED", "FAILED"}
Stages   == {"idle", "claiming", "publishing", "marking", "failing"}

TypeOK ==
    /\ status \in [Rows -> Statuses]
    /\ attempts \in [Rows -> Nat]
    /\ due \in [Rows -> BOOLEAN]
    /\ pc \in [Runners -> Stages]
    /\ batch \in [Runners -> SUBSET Rows]
    /\ seen \in [Runners -> [Rows -> Nat]]
    /\ sent \in [Rows -> Nat]
    /\ pending \in [Workers -> SUBSET Rows]
    /\ delivered \subseteq Rows \X Workers

Init ==
    /\ status = [r \in Rows |-> "ABSENT"]
    /\ attempts = [r \in Rows |-> 0]
    /\ due = [r \in Rows |-> FALSE]
    /\ pc = [d \in Runners |-> "idle"]
    /\ batch = [d \in Runners |-> {}]
    /\ seen = [d \in Runners |-> NothingSeen]
    /\ sent = [r \in Rows |-> 0]
    /\ pending = [w \in Workers |-> {}]
    /\ delivered = {}

-----------------------------------------------------------------------------
(* The producers.                                                          *)


\* Mutant of Enqueue: a status the dispatcher does not know.
EnqueueUnknownStatus(r) ==
    /\ status[r] = "ABSENT"
    /\ status' = [status EXCEPT ![r] = "NEW"]
    /\ due' = [due EXCEPT ![r] = TRUE]
    /\ UNCHANGED <<attempts, runVars, natsVars>>

\* A domain transaction that called enqueue commits.  created_at is the
\* start of that transaction, so rows may appear in another order.
Enqueue(r) ==
    /\ status[r] = "ABSENT"
    /\ status' = [status EXCEPT ![r] = "PENDING"]
    /\ due' = [due EXCEPT ![r] = TRUE]
    /\ UNCHANGED <<attempts, runVars, natsVars>>

-----------------------------------------------------------------------------
(* The claim: SELECT ... FOR UPDATE SKIP LOCKED, UPDATE, COMMIT.           *)

\* Rows a claim transaction has locked and not yet committed.
Locked == UNION {batch[d] : d \in {e \in Runners : pc[e] = "claiming"}}


\* Mutant of Claimable: a plain SELECT, without FOR UPDATE SKIP LOCKED.
ClaimableUnlocked == {r \in Rows : status[r] = "PENDING" /\ due[r]}

Claimable == {r \in Rows \ Locked : status[r] = "PENDING" /\ due[r]}

\* ORDER BY created_at LIMIT BatchSize
Earliest(S) == {r \in S : Cardinality({q \in S : q < r}) < BatchSize}

ClaimSelect(d) ==
    /\ pc[d] = "idle"
    /\ pc' = [pc EXCEPT ![d] = "claiming"]
    /\ batch' = [batch EXCEPT ![d] = Earliest(Claimable)]
    /\ seen' = [seen EXCEPT ![d] =
                   [r \in Rows |-> IF r \in Earliest(Claimable) THEN attempts[r] ELSE 0]]
    /\ UNCHANGED <<rowVars, natsVars>>

\* The outer catch: return 0, whatever is left of the batch is forgotten.
Abandon(d) ==
    /\ pc' = [pc EXCEPT ![d] = "idle"]
    /\ batch' = [batch EXCEPT ![d] = {}]
    /\ seen' = [seen EXCEPT ![d] = NothingSeen]


\* Mutant of ClaimCommit: rows are locked but not marked PROCESSING.
ClaimCommitUnmarked(d) ==
    /\ pc[d] = "claiming"
    /\ pc' = [pc EXCEPT ![d] = IF batch[d] = {} THEN "idle" ELSE "publishing"]
    /\ UNCHANGED <<rowVars, batch, seen, natsVars>>

\* What the claim's UPDATE leaves in the table.
StatusClaimed(d) ==
    [r \in Rows |-> IF r \in batch[d] THEN "PROCESSING" ELSE status[r]]

ClaimCommit(d) ==
    /\ pc[d] = "claiming"
    /\ status' = StatusClaimed(d)
    /\ pc' = [pc EXCEPT ![d] = IF batch[d] = {} THEN "idle" ELSE "publishing"]
    /\ UNCHANGED <<attempts, due, batch, seen, natsVars>>

\* The UPDATE or the COMMIT fails: rollback, return 0.  When only the reply
\* to the COMMIT is lost, the ROLLBACK comes too late.
ClaimAbort(d) ==
    /\ pc[d] = "claiming"
    /\ \/ "db" \in Faults /\ UNCHANGED status
       \/ "lostAck" \in Faults /\ status' = StatusClaimed(d)
    /\ Abandon(d)
    /\ UNCHANGED <<attempts, due, natsVars>>

-----------------------------------------------------------------------------
(* The loop over toProcess, outside any transaction.                       *)

\* r is the event `ev` of the current iteration.
Current(d, r) == r \in batch[d] /\ \A q \in batch[d] : r <= q

\* The iteration for r ends, and the dispatch with the last one.
Advance(d, r) ==
    /\ batch' = [batch EXCEPT ![d] = @ \ {r}]
    /\ pc' = [pc EXCEPT ![d] = IF batch[d] = {r} THEN "idle" ELSE "publishing"]
    /\ seen' = [seen EXCEPT ![d][r] = 0]

Goto(d, stage) ==
    /\ pc' = [pc EXCEPT ![d] = stage]
    /\ UNCHANGED <<batch, seen>>

Publish(d, r) ==
    /\ pc[d] = "publishing"
    /\ sent' = [sent EXCEPT ![r] = @ + 1]
    /\ pending' = [pending EXCEPT ![d[1]] = @ \cup {r}]
    /\ Goto(d, "marking")
    /\ UNCHANGED <<rowVars, delivered>>


\* Mutant of PublishFails: the publisher swallows the error.
PublishFailsSwallowed(d, r) ==
    /\ "publish" \in Faults
    /\ pc[d] = "publishing"
    /\ Goto(d, "marking")
    /\ UNCHANGED <<rowVars, natsVars>>

PublishFails(d, r) ==
    /\ "publish" \in Faults
    /\ pc[d] = "publishing"
    /\ Goto(d, "failing")
    /\ UNCHANGED <<rowVars, natsVars>>

MarkPublished(d, r) ==
    /\ pc[d] = "marking"
    /\ status' = [status EXCEPT ![r] = "PUBLISHED"]
    /\ Advance(d, r)
    /\ UNCHANGED <<attempts, due, natsVars>>

\* markPublished throws, with its UPDATE applied or not: the inner catch
\* goes on to markFailed for an event that is already published.
MarkPublishedFails(d, r) ==
    /\ pc[d] = "marking"
    /\ \/ "db" \in Faults /\ UNCHANGED status
       \/ "lostAck" \in Faults /\ status' = [status EXCEPT ![r] = "PUBLISHED"]
    /\ Goto(d, "failing")
    /\ UNCHANGED <<attempts, due, natsVars>>


\* Mutants of RecordFailure: one attempt too many, and none counted.
RecordFailureLate(d, r) ==
    /\ attempts' = [attempts EXCEPT ![r] = @ + 1]
    /\ status' = [status EXCEPT ![r] = IF seen[d][r] + 1 > MaxAttempts
                                       THEN "FAILED" ELSE "PENDING"]
    /\ due' = [due EXCEPT ![r] = FALSE]

RecordFailureUncounted(d, r) ==
    /\ status' = [status EXCEPT ![r] = IF seen[d][r] + 1 >= MaxAttempts
                                       THEN "FAILED" ELSE "PENDING"]
    /\ due' = [due EXCEPT ![r] = FALSE]
    /\ UNCHANGED attempts

\* The UPDATE of markFailed: `attempts` counts in the database, the choice
\* of FAILED is made from the value the claim read.
RecordFailure(d, r) ==
    /\ attempts' = [attempts EXCEPT ![r] = @ + 1]
    /\ status' = [status EXCEPT ![r] = IF seen[d][r] + 1 >= MaxAttempts
                                       THEN "FAILED" ELSE "PENDING"]
    /\ due' = [due EXCEPT ![r] = FALSE]


\* Mutant of MarkFailed: the first failure ends the loop.
MarkFailedBreaks(d, r) ==
    /\ pc[d] = "failing"
    /\ RecordFailure(d, r)
    /\ Abandon(d)
    /\ UNCHANGED natsVars

MarkFailed(d, r) ==
    /\ pc[d] = "failing"
    /\ RecordFailure(d, r)
    /\ Advance(d, r)
    /\ UNCHANGED natsVars

\* markFailed throws out of the inner catch, its UPDATE applied or not.
MarkFailedFails(d, r) ==
    /\ pc[d] = "failing"
    /\ \/ "db" \in Faults /\ UNCHANGED rowVars
       \/ "lostAck" \in Faults /\ RecordFailure(d, r)
    /\ Abandon(d)
    /\ UNCHANGED natsVars

-----------------------------------------------------------------------------
(* Time, the NATS client and the process.                                  *)

\* next_attempt_at of a row passes.
BackoffElapses(r) ==
    /\ status[r] = "PENDING" /\ ~due[r]
    /\ due' = [due EXCEPT ![r] = TRUE]
    /\ UNCHANGED <<status, attempts, runVars, natsVars>>

\* The client writes its buffer to the server.
Flush(w) ==
    /\ pending[w] # {}
    /\ delivered' = delivered \cup (pending[w] \X {w})
    /\ pending' = [pending EXCEPT ![w] = {}]
    /\ UNCHANGED <<rowVars, runVars, sent>>

\* The process dies with its dispatches and its unsent messages; Postgres
\* rolls its open claims back; setInterval starts afresh after a restart.
Crash(w) ==
    /\ "crash" \in Faults
    /\ pc' = [d \in Runners |-> IF d[1] = w THEN "idle" ELSE pc[d]]
    /\ batch' = [d \in Runners |-> IF d[1] = w THEN {} ELSE batch[d]]
    /\ seen' = [d \in Runners |-> IF d[1] = w THEN NothingSeen ELSE seen[d]]
    /\ pending' = [pending EXCEPT ![w] = {}]
    /\ UNCHANGED <<rowVars, sent, delivered>>

-----------------------------------------------------------------------------

\* One iteration step of the loop for the current event r of d.
EventStep(d, r) ==
    /\ Current(d, r)
    /\ \/ Publish(d, r) \/ PublishFails(d, r)
       \/ MarkPublished(d, r) \/ MarkPublishedFails(d, r)
       \/ MarkFailed(d, r) \/ MarkFailedFails(d, r)

RunnerStep(d) ==
    \/ ClaimSelect(d) \/ ClaimCommit(d) \/ ClaimAbort(d)
    \/ \E r \in Rows : EventStep(d, r)

Next ==
    \/ \E r \in Rows : Enqueue(r) \/ BackoffElapses(r)
    \/ \E d \in Runners : RunnerStep(d)
    \/ \E w \in Workers : Flush(w) \/ Crash(w)

Spec == Init /\ [][Next]_vars

\* setInterval keeps ticking and an awaited call returns or throws
\* (RunnerStep), clocks advance, and a connected client flushes.  This is the
\* TypeORM workers', which release the claim's connection before they
\* publish.  runOnce of the JS workers keeps it while markPublished and
\* markFailed ask the pool for another, so enough overlapping ticks may wait
\* on each other for ever: their pool is not modelled.
Fairness ==
    /\ \A d \in Runners : WF_vars(RunnerStep(d))
    /\ \A r \in Rows : WF_vars(BackoffElapses(r))
    /\ \A w \in Workers : WF_vars(Flush(w))

FairSpec == Spec /\ Fairness

-----------------------------------------------------------------------------
(* Properties.                                                             *)

\* No row is in the hands of two dispatches at once, however many ticks and
\* workers overlap: what FOR UPDATE SKIP LOCKED and the PROCESSING status of
\* dispatchOnce are for.  A row claimed twice is published twice.
NoDoubleClaim ==
    \A d, e \in Runners : d # e => batch[d] \cap batch[e] = {}

\* Duplicates are bounded: an event is published at most once per attempt,
\* a lost acknowledgement or a crash included, and so never more often than
\* MaxAttempts (the catch around publish and markPublished in dispatchOnce).
PublishBound ==
    \A r \in Rows : sent[r] <= attempts[r] + 1 /\ sent[r] <= MaxAttempts

\* markFailed decides FAILED from the attempts read at the claim but counts
\* in the database; the two never drift apart: a row is FAILED exactly when
\* its counter has reached MaxAttempts.
FailedAtCap ==
    \A r \in Rows : /\ attempts[r] <= MaxAttempts
                    /\ status[r] = "FAILED" <=> attempts[r] = MaxAttempts

\* A row marked PUBLISHED has its message on the wire or in the buffer of a
\* live client (publish before markPublished in dispatchOnce).
PublishedNotLost ==
    \A r \in Rows : status[r] = "PUBLISHED" =>
        \E w \in Workers : r \in pending[w] \/ <<r, w>> \in delivered

\* The dispatcher implements OutboxLedger: any number of overlapping
\* dispatches over the shared table act on each row like a single one.
Phase(r) ==
    CASE status[r] = "ABSENT"     -> "absent"
      [] status[r] = "PENDING"    -> "queued"
      [] status[r] = "PROCESSING" -> "held"
      [] status[r] = "FAILED"     -> "dead"
      [] status[r] = "PUBLISHED"  -> IF \E d \in Runners : r \in batch[d]
                                     THEN "held" ELSE "done"

Ledger == INSTANCE OutboxLedger WITH
    phase <- [r \in Rows |-> Phase(r)], tries <- attempts, pubs <- sent

ImplementsLedger == Ledger!Spec

\* Every recorded event is published or given up on in the end: no dispatch
\* schedule, backoff or failing publish leaves it waiting for ever.
EveryEventSettles ==
    \A r \in Rows : status[r] = "PENDING" ~> status[r] \in {"PUBLISHED", "FAILED"}
=============================================================================
