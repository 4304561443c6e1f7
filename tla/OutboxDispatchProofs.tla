------------------------ MODULE OutboxDispatchProofs ------------------------
(***************************************************************************)
(* Proofs about OutboxDispatch for any rows, workers, number of concurrent *)
(* dispatches, batch size, attempt limit and faults: the invariants of its *)
(* runs, from one inductive invariant.                                     *)
(***************************************************************************)
EXTENDS OutboxDispatch, TLAPS

\* What each stage of a dispatch knows about the rows in its hands.
BatchMatchesStage ==
    \A d \in Runners :
        /\ pc[d] = "idle" => batch[d] = {}
        /\ pc[d] = "claiming" => \A r \in batch[d] : status[r] = "PENDING"
        /\ pc[d] \in {"publishing", "marking"} =>
             \A r \in batch[d] : status[r] = "PROCESSING"
        /\ pc[d] = "failing" =>
             \A r \in batch[d] : \/ status[r] = "PROCESSING"
                                 \/ status[r] = "PUBLISHED" /\ Current(d, r)

\* The attempts a claim read are still those of the database.
SeenIsCurrent ==
    \A d \in Runners : \A r \in batch[d] : seen[d][r] = attempts[r]

\* Attempts and publications allowed by the status of a row.
CountsMatchStatus ==
    \A r \in Rows :
        /\ status[r] = "FAILED" => attempts[r] = MaxAttempts
        /\ status[r] # "FAILED" => attempts[r] < MaxAttempts
        /\ sent[r] <= attempts[r] + 1
        /\ status[r] \in {"ABSENT", "PENDING", "FAILED"} => sent[r] <= attempts[r]
        /\ status[r] = "PUBLISHED" => sent[r] > 0

\* A row in hand was sent at most once per counted attempt until its turn.
SendsInHand ==
    \A d \in Runners : \A r \in batch[d] :
        /\ pc[d] = "publishing" \/ ~Current(d, r) => sent[r] <= attempts[r]
        /\ pc[d] = "marking" /\ Current(d, r) => sent[r] > 0

IInv ==
    /\ TypeOK
    /\ NoDoubleClaim
    /\ BatchMatchesStage
    /\ SeenIsCurrent
    /\ CountsMatchStatus
    /\ SendsInHand

LEMMA EnqueuePreserves ==
    ASSUME IInv, NEW r \in Rows, Enqueue(r)
    PROVE  IInv'
<1> USE RowsAssumption, LimitAssumption DEF IInv, TypeOK, Statuses, Stages, rowVars, runVars, natsVars, Enqueue
<1>1. TypeOK'
    BY DEF Runners
<1>2. NoDoubleClaim'
    BY DEF NoDoubleClaim
<1>3. BatchMatchesStage'
    BY DEF NoDoubleClaim, BatchMatchesStage, Current
<1>4. SeenIsCurrent'
    BY DEF NoDoubleClaim, SeenIsCurrent, BatchMatchesStage
<1>5. CountsMatchStatus'
    BY DEF CountsMatchStatus, BatchMatchesStage, SeenIsCurrent, SendsInHand, Current
<1>6. SendsInHand'
    BY DEF NoDoubleClaim, SendsInHand, BatchMatchesStage, CountsMatchStatus, Current
<1> QED BY <1>1, <1>2, <1>3, <1>4, <1>5, <1>6

LEMMA BackoffElapsesPreserves ==
    ASSUME IInv, NEW r \in Rows, BackoffElapses(r)
    PROVE  IInv'
<1> USE RowsAssumption, LimitAssumption DEF IInv, TypeOK, Statuses, Stages, rowVars, runVars, natsVars, BackoffElapses
<1>1. TypeOK'
    BY DEF Runners
<1>2. NoDoubleClaim'
    BY DEF NoDoubleClaim
<1>3. BatchMatchesStage'
    BY DEF NoDoubleClaim, BatchMatchesStage, Current
<1>4. SeenIsCurrent'
    BY DEF NoDoubleClaim, SeenIsCurrent, BatchMatchesStage
<1>5. CountsMatchStatus'
    BY DEF CountsMatchStatus, BatchMatchesStage, SeenIsCurrent, SendsInHand, Current
<1>6. SendsInHand'
    BY DEF NoDoubleClaim, SendsInHand, BatchMatchesStage, CountsMatchStatus, Current
<1> QED BY <1>1, <1>2, <1>3, <1>4, <1>5, <1>6

LEMMA ClaimSelectPreserves ==
    ASSUME IInv, NEW d \in Runners, ClaimSelect(d)
    PROVE  IInv'
<1> USE RowsAssumption, LimitAssumption DEF IInv, TypeOK, Statuses, Stages, rowVars, runVars, natsVars, ClaimSelect, Earliest, Claimable, Locked
<1>1. TypeOK'
    BY DEF Runners
<1>2. NoDoubleClaim'
  <2> SUFFICES ASSUME NEW e \in Runners, e # d
               PROVE  batch'[d] \cap batch[e] = {}
    BY DEF NoDoubleClaim
  <2>1. \A r \in batch'[d] : status[r] = "PENDING" /\ r \notin Locked
    OBVIOUS
  <2>2. pc[e] # "claiming" => \A r \in batch[e] : status[r] # "PENDING"
    BY DEF BatchMatchesStage
  <2>3. pc[e] = "claiming" => batch[e] \subseteq Locked
    OBVIOUS
  <2> QED BY <2>1, <2>2, <2>3
<1>3. BatchMatchesStage'
    BY DEF NoDoubleClaim, BatchMatchesStage, Current
<1>4. SeenIsCurrent'
    BY DEF NoDoubleClaim, SeenIsCurrent, BatchMatchesStage
<1>5. CountsMatchStatus'
    BY DEF CountsMatchStatus, BatchMatchesStage, SeenIsCurrent, SendsInHand, Current
<1>6. SendsInHand'
  <2> SUFFICES ASSUME NEW e \in Runners, NEW r \in batch'[e]
               PROVE  /\ pc'[e] = "publishing" \/ ~Current(e, r)' => sent[r] <= attempts[r]
                      /\ pc'[e] = "marking" /\ Current(e, r)' => sent[r] > 0
    BY DEF SendsInHand
  <2>1. CASE e = d
    <3>1. pc'[e] = "claiming" /\ r \in Rows /\ status[r] = "PENDING"
      BY <2>1
    <3> QED BY <3>1 DEF CountsMatchStatus
  <2>2. CASE e # d
    <3>1. pc'[e] = pc[e] /\ batch'[e] = batch[e]
      BY <2>2
    <3> QED BY <3>1 DEF SendsInHand, Current
  <2> QED BY <2>1, <2>2
<1> QED BY <1>1, <1>2, <1>3, <1>4, <1>5, <1>6

LEMMA ClaimCommitPreserves ==
    ASSUME IInv, NEW d \in Runners, ClaimCommit(d)
    PROVE  IInv'
<1> USE RowsAssumption, LimitAssumption DEF IInv, TypeOK, Statuses, Stages, rowVars, runVars, natsVars, ClaimCommit, StatusClaimed
<1>1. TypeOK'
    BY DEF Runners
<1>2. NoDoubleClaim'
    BY DEF NoDoubleClaim
<1>3. BatchMatchesStage'
    BY DEF NoDoubleClaim, BatchMatchesStage, Current
<1>4. SeenIsCurrent'
    BY DEF NoDoubleClaim, SeenIsCurrent, BatchMatchesStage
<1>5. CountsMatchStatus'
    BY DEF CountsMatchStatus, BatchMatchesStage, SeenIsCurrent, SendsInHand, Current
<1>6. SendsInHand'
    BY DEF NoDoubleClaim, SendsInHand, BatchMatchesStage, CountsMatchStatus, Current
<1> QED BY <1>1, <1>2, <1>3, <1>4, <1>5, <1>6

LEMMA ClaimAbortPreserves ==
    ASSUME IInv, NEW d \in Runners, ClaimAbort(d)
    PROVE  IInv'
<1> USE RowsAssumption, LimitAssumption DEF IInv, TypeOK, Statuses, Stages, rowVars, runVars, natsVars, ClaimAbort, Abandon, NothingSeen, StatusClaimed
<1>1. TypeOK'
    BY DEF Runners
<1>2. NoDoubleClaim'
    BY DEF NoDoubleClaim
<1>3. BatchMatchesStage'
    BY DEF NoDoubleClaim, BatchMatchesStage, Current
<1>4. SeenIsCurrent'
    BY DEF NoDoubleClaim, SeenIsCurrent, BatchMatchesStage
<1>5. CountsMatchStatus'
    BY DEF CountsMatchStatus, BatchMatchesStage, SeenIsCurrent, SendsInHand, Current
<1>6. SendsInHand'
    BY DEF NoDoubleClaim, SendsInHand, BatchMatchesStage, CountsMatchStatus, Current
<1> QED BY <1>1, <1>2, <1>3, <1>4, <1>5, <1>6

LEMMA PublishPreserves ==
    ASSUME IInv, NEW d \in Runners, NEW r \in Rows, Current(d, r), Publish(d, r)
    PROVE  IInv'
<1> USE RowsAssumption, LimitAssumption DEF IInv, TypeOK, Statuses, Stages, rowVars, runVars, natsVars, Publish, Goto
<1>1. TypeOK'
    BY DEF Runners
<1>2. NoDoubleClaim'
    BY DEF NoDoubleClaim
<1>3. BatchMatchesStage'
    BY DEF NoDoubleClaim, BatchMatchesStage, Current
<1>4. SeenIsCurrent'
    BY DEF NoDoubleClaim, SeenIsCurrent, BatchMatchesStage
<1>5. CountsMatchStatus'
    BY DEF CountsMatchStatus, BatchMatchesStage, SeenIsCurrent, SendsInHand, Current
<1>6. SendsInHand'
    BY DEF NoDoubleClaim, SendsInHand, BatchMatchesStage, CountsMatchStatus, Current
<1> QED BY <1>1, <1>2, <1>3, <1>4, <1>5, <1>6

LEMMA PublishFailsPreserves ==
    ASSUME IInv, NEW d \in Runners, NEW r \in Rows, Current(d, r), PublishFails(d, r)
    PROVE  IInv'
<1> USE RowsAssumption, LimitAssumption DEF IInv, TypeOK, Statuses, Stages, rowVars, runVars, natsVars, PublishFails, Goto
<1>1. TypeOK'
    BY DEF Runners
<1>2. NoDoubleClaim'
    BY DEF NoDoubleClaim
<1>3. BatchMatchesStage'
    BY DEF NoDoubleClaim, BatchMatchesStage, Current
<1>4. SeenIsCurrent'
    BY DEF NoDoubleClaim, SeenIsCurrent, BatchMatchesStage
<1>5. CountsMatchStatus'
    BY DEF CountsMatchStatus, BatchMatchesStage, SeenIsCurrent, SendsInHand, Current
<1>6. SendsInHand'
    BY DEF NoDoubleClaim, SendsInHand, BatchMatchesStage, CountsMatchStatus, Current
<1> QED BY <1>1, <1>2, <1>3, <1>4, <1>5, <1>6

LEMMA MarkPublishedPreserves ==
    ASSUME IInv, NEW d \in Runners, NEW r \in Rows, Current(d, r), MarkPublished(d, r)
    PROVE  IInv'
<1> USE RowsAssumption, LimitAssumption DEF IInv, TypeOK, Statuses, Stages, rowVars, runVars, natsVars, MarkPublished, Advance
<1>1. TypeOK'
    BY DEF Runners
<1>2. NoDoubleClaim'
    BY DEF NoDoubleClaim
<1>3. BatchMatchesStage'
    BY DEF NoDoubleClaim, BatchMatchesStage, Current
<1>4. SeenIsCurrent'
    BY DEF NoDoubleClaim, SeenIsCurrent, BatchMatchesStage
<1>5. CountsMatchStatus'
    BY DEF CountsMatchStatus, BatchMatchesStage, SeenIsCurrent, SendsInHand, Current
<1>6. SendsInHand'
    BY DEF NoDoubleClaim, SendsInHand, BatchMatchesStage, CountsMatchStatus, Current
<1> QED BY <1>1, <1>2, <1>3, <1>4, <1>5, <1>6

LEMMA MarkPublishedFailsPreserves ==
    ASSUME IInv, NEW d \in Runners, NEW r \in Rows, Current(d, r), MarkPublishedFails(d, r)
    PROVE  IInv'
<1> USE RowsAssumption, LimitAssumption DEF IInv, TypeOK, Statuses, Stages, rowVars, runVars, natsVars, MarkPublishedFails, Goto
<1>1. TypeOK'
  <2>1. status' \in [Rows -> Statuses]
    <3>1. CASE UNCHANGED status
      BY <3>1
    <3>2. CASE status' = [status EXCEPT ![r] = "PUBLISHED"]
      BY <3>2
    <3> QED BY <3>1, <3>2
  <2> QED BY <2>1 DEF Runners
<1>2. NoDoubleClaim'
    BY DEF NoDoubleClaim
<1>3. BatchMatchesStage'
    BY DEF NoDoubleClaim, BatchMatchesStage, Current
<1>4. SeenIsCurrent'
    BY DEF NoDoubleClaim, SeenIsCurrent, BatchMatchesStage
<1>5. CountsMatchStatus'
    BY DEF CountsMatchStatus, BatchMatchesStage, SeenIsCurrent, SendsInHand, Current
<1>6. SendsInHand'
    BY DEF NoDoubleClaim, SendsInHand, BatchMatchesStage, CountsMatchStatus, Current
<1> QED BY <1>1, <1>2, <1>3, <1>4, <1>5, <1>6

LEMMA MarkFailedPreserves ==
    ASSUME IInv, NEW d \in Runners, NEW r \in Rows, Current(d, r), MarkFailed(d, r)
    PROVE  IInv'
<1> USE RowsAssumption, LimitAssumption DEF IInv, TypeOK, Statuses, Stages, rowVars, runVars, natsVars, MarkFailed, RecordFailure, Advance
<1>1. TypeOK'
    BY DEF Runners
<1>2. NoDoubleClaim'
    BY DEF NoDoubleClaim
<1>3. BatchMatchesStage'
    BY DEF NoDoubleClaim, BatchMatchesStage, Current
<1>4. SeenIsCurrent'
  <2> SUFFICES ASSUME NEW e \in Runners, NEW q \in batch'[e]
               PROVE  seen'[e][q] = attempts'[q]
    BY DEF SeenIsCurrent
  <2>1. r \in batch[d] /\ q \in batch[e] /\ q \in Rows
    BY DEF Current
  <2>2. q # r
    <3>1. CASE e = d
      BY <3>1
    <3>2. CASE e # d
      BY <3>2, <2>1 DEF NoDoubleClaim
    <3> QED BY <3>1, <3>2
  <2>3. seen'[e][q] = seen[e][q] /\ attempts'[q] = attempts[q]
    BY <2>1, <2>2
  <2> QED BY <2>1, <2>3 DEF SeenIsCurrent
<1>5. CountsMatchStatus'
  <2>1. /\ r \in batch[d] /\ status[r] \in {"PROCESSING", "PUBLISHED"}
        /\ seen[d][r] = attempts[r]
    BY DEF Current, BatchMatchesStage, SeenIsCurrent
  <2>2. attempts[r] < MaxAttempts /\ sent[r] <= attempts[r] + 1
    BY <2>1 DEF CountsMatchStatus
  <2> SUFFICES ASSUME NEW q \in Rows PROVE
           /\ status'[q] = "FAILED" => attempts'[q] = MaxAttempts
           /\ status'[q] # "FAILED" => attempts'[q] < MaxAttempts
           /\ sent'[q] <= attempts'[q] + 1
           /\ status'[q] \in {"ABSENT", "PENDING", "FAILED"} => sent'[q] <= attempts'[q]
           /\ status'[q] = "PUBLISHED" => sent'[q] > 0
    BY DEF CountsMatchStatus
  <2>3. CASE q = r
    <3>1. attempts'[q] = attempts[r] + 1 /\ sent'[q] = sent[r]
      BY <2>3
    <3>2. status'[q] = IF attempts[r] + 1 >= MaxAttempts THEN "FAILED" ELSE "PENDING"
      BY <2>3, <2>1
    <3>3. attempts[r] \in Nat /\ sent[r] \in Nat /\ MaxAttempts \in Nat
      OBVIOUS
    <3> QED BY ONLY <3>1, <3>2, <3>3, <2>2, SMT
  <2>4. CASE q # r
    <3>1. attempts'[q] = attempts[q] /\ sent'[q] = sent[q] /\ status'[q] = status[q]
      BY <2>4
    <3> QED BY <3>1 DEF CountsMatchStatus
  <2> QED BY <2>3, <2>4
<1>6. SendsInHand'
    BY DEF NoDoubleClaim, SendsInHand, BatchMatchesStage, CountsMatchStatus, Current
<1> QED BY <1>1, <1>2, <1>3, <1>4, <1>5, <1>6

LEMMA MarkFailedFailsPreserves ==
    ASSUME IInv, NEW d \in Runners, NEW r \in Rows, Current(d, r), MarkFailedFails(d, r)
    PROVE  IInv'
<1> USE RowsAssumption, LimitAssumption DEF IInv, TypeOK, Statuses, Stages, rowVars, runVars, natsVars, MarkFailedFails, RecordFailure, Abandon, NothingSeen
<1>1. TypeOK'
  <2>1. CASE UNCHANGED rowVars
    BY <2>1 DEF Runners
  <2>2. CASE RecordFailure(d, r)
    BY <2>2 DEF Runners
  <2> QED BY <2>1, <2>2
<1>2. NoDoubleClaim'
    BY DEF NoDoubleClaim
<1>3. BatchMatchesStage'
    BY DEF NoDoubleClaim, BatchMatchesStage, Current
<1>4. SeenIsCurrent'
  <2> SUFFICES ASSUME NEW e \in Runners, NEW q \in batch'[e]
               PROVE  seen'[e][q] = attempts'[q]
    BY DEF SeenIsCurrent
  <2>1. e # d /\ q \in batch[e] /\ q \in Rows /\ r \in batch[d]
    BY DEF Current
  <2>2. q # r
    BY <2>1 DEF NoDoubleClaim
  <2>3. seen'[e][q] = seen[e][q] /\ attempts'[q] = attempts[q]
    BY <2>1, <2>2
  <2> QED BY <2>1, <2>3 DEF SeenIsCurrent
<1>5. CountsMatchStatus'
  <2>1. CASE UNCHANGED rowVars
    BY <2>1 DEF CountsMatchStatus
  <2>2. CASE RecordFailure(d, r)
    <3> USE <2>2
    <3>1. /\ r \in batch[d] /\ status[r] \in {"PROCESSING", "PUBLISHED"}
          /\ seen[d][r] = attempts[r]
      BY DEF Current, BatchMatchesStage, SeenIsCurrent
    <3>2. attempts[r] < MaxAttempts /\ sent[r] <= attempts[r] + 1
      BY <3>1 DEF CountsMatchStatus
    <3> SUFFICES ASSUME NEW q \in Rows PROVE
           /\ status'[q] = "FAILED" => attempts'[q] = MaxAttempts
           /\ status'[q] # "FAILED" => attempts'[q] < MaxAttempts
           /\ sent'[q] <= attempts'[q] + 1
           /\ status'[q] \in {"ABSENT", "PENDING", "FAILED"} => sent'[q] <= attempts'[q]
           /\ status'[q] = "PUBLISHED" => sent'[q] > 0
      BY DEF CountsMatchStatus
    <3>3. CASE q = r
      <4>1. attempts'[q] = attempts[r] + 1 /\ sent'[q] = sent[r]
        BY <3>3
      <4>2. status'[q] = IF attempts[r] + 1 >= MaxAttempts THEN "FAILED" ELSE "PENDING"
        BY <3>3, <3>1
      <4>3. attempts[r] \in Nat /\ sent[r] \in Nat /\ MaxAttempts \in Nat
        OBVIOUS
      <4> QED BY ONLY <4>1, <4>2, <4>3, <3>2, SMT
    <3>4. CASE q # r
      <4>1. attempts'[q] = attempts[q] /\ sent'[q] = sent[q] /\ status'[q] = status[q]
        BY <3>4
      <4> QED BY <4>1 DEF CountsMatchStatus
    <3> QED BY <3>3, <3>4
  <2> QED BY <2>1, <2>2
<1>6. SendsInHand'
    BY DEF NoDoubleClaim, SendsInHand, BatchMatchesStage, CountsMatchStatus, Current
<1> QED BY <1>1, <1>2, <1>3, <1>4, <1>5, <1>6

LEMMA FlushPreserves ==
    ASSUME IInv, NEW w \in Workers, Flush(w)
    PROVE  IInv'
<1> USE RowsAssumption, LimitAssumption DEF IInv, TypeOK, Statuses, Stages, rowVars, runVars, natsVars, Flush
<1>1. TypeOK'
    BY DEF Runners
<1>2. NoDoubleClaim'
    BY DEF NoDoubleClaim
<1>3. BatchMatchesStage'
    BY DEF NoDoubleClaim, BatchMatchesStage, Current
<1>4. SeenIsCurrent'
    BY DEF NoDoubleClaim, SeenIsCurrent, BatchMatchesStage
<1>5. CountsMatchStatus'
    BY DEF CountsMatchStatus, BatchMatchesStage, SeenIsCurrent, SendsInHand, Current
<1>6. SendsInHand'
    BY DEF NoDoubleClaim, SendsInHand, BatchMatchesStage, CountsMatchStatus, Current
<1> QED BY <1>1, <1>2, <1>3, <1>4, <1>5, <1>6

LEMMA CrashPreserves ==
    ASSUME IInv, NEW w \in Workers, Crash(w)
    PROVE  IInv'
<1> USE RowsAssumption, LimitAssumption DEF IInv, TypeOK, Statuses, Stages, rowVars, runVars, natsVars, Crash, NothingSeen
<1>1. TypeOK'
    BY DEF Runners
<1>2. NoDoubleClaim'
    BY DEF NoDoubleClaim
<1>3. BatchMatchesStage'
    BY DEF NoDoubleClaim, BatchMatchesStage, Current
<1>4. SeenIsCurrent'
  <2> SUFFICES ASSUME NEW e \in Runners, NEW q \in batch'[e]
               PROVE  seen'[e][q] = attempts'[q]
    BY DEF SeenIsCurrent
  <2>1. e[1] # w
    OBVIOUS
  <2>2. seen'[e] = seen[e] /\ batch'[e] = batch[e]
    BY <2>1
  <2> QED BY <2>2 DEF SeenIsCurrent
<1>5. CountsMatchStatus'
    BY DEF CountsMatchStatus, BatchMatchesStage, SeenIsCurrent, SendsInHand, Current
<1>6. SendsInHand'
    BY DEF NoDoubleClaim, SendsInHand, BatchMatchesStage, CountsMatchStatus, Current
<1> QED BY <1>1, <1>2, <1>3, <1>4, <1>5, <1>6

-----------------------------------------------------------------------------
(* The inductive invariant holds of every reachable state.                 *)

LEMMA InitEstablishesIInv == Init => IInv
<1> SUFFICES ASSUME Init PROVE IInv
  OBVIOUS
<1> USE LimitAssumption DEF Init, NothingSeen
<1>1. TypeOK
  BY DEF TypeOK, Statuses, Stages, Runners
<1>2. NoDoubleClaim /\ BatchMatchesStage /\ SeenIsCurrent /\ SendsInHand
  BY DEF NoDoubleClaim, BatchMatchesStage, SeenIsCurrent, SendsInHand
<1>3. CountsMatchStatus
  BY DEF CountsMatchStatus
<1> QED BY <1>1, <1>2, <1>3 DEF IInv

LEMMA NextPreservesIInv == IInv /\ [Next]_vars => IInv'
<1> SUFFICES ASSUME IInv, [Next]_vars PROVE IInv'
  OBVIOUS
<1>1. ASSUME NEW r \in Rows, Enqueue(r) \/ BackoffElapses(r) PROVE IInv'
  BY <1>1, EnqueuePreserves, BackoffElapsesPreserves
<1>2. ASSUME NEW d \in Runners, RunnerStep(d) PROVE IInv'
  <2>1. ASSUME NEW r \in Rows, EventStep(d, r) PROVE IInv'
    BY <2>1, PublishPreserves, PublishFailsPreserves, MarkPublishedPreserves,
       MarkPublishedFailsPreserves, MarkFailedPreserves, MarkFailedFailsPreserves
       DEF EventStep
  <2> QED BY <1>2, <2>1, ClaimSelectPreserves, ClaimCommitPreserves, ClaimAbortPreserves
       DEF RunnerStep
<1>3. ASSUME NEW w \in Workers, Flush(w) \/ Crash(w) PROVE IInv'
  BY <1>3, FlushPreserves, CrashPreserves
<1>4. CASE UNCHANGED vars
  BY <1>4 DEF vars, IInv, TypeOK, NoDoubleClaim, BatchMatchesStage, SeenIsCurrent,
     CountsMatchStatus, SendsInHand, Current
<1> QED BY <1>1, <1>2, <1>3, <1>4 DEF Next

\* The inductive invariant of the dispatcher holds in every reachable state.
THEOREM OutboxInvariant == Spec => []IInv
<1> QED BY InitEstablishesIInv, NextPreservesIInv, PTL DEF Spec

\* Every variable keeps its type: no dispatch, fault or crash leaves a row
\* with a status outside the four of outbox_status_ck.
THEOREM OutboxTypeCorrect == Spec => []TypeOK
<1>1. IInv => TypeOK
  BY DEF IInv
<1> QED BY <1>1, OutboxInvariant, PTL

\* However many ticks and workers overlap, no row is dispatched twice at once.
THEOREM OutboxNoDoubleClaim == Spec => []NoDoubleClaim
<1>1. IInv => NoDoubleClaim
  BY DEF IInv
<1> QED BY <1>1, OutboxInvariant, PTL

\* An event is published at most once per attempt and at most MaxAttempts
\* times, whatever crashes, failed statements or lost replies happen.
THEOREM OutboxPublishBound == Spec => []PublishBound
<1>1. IInv => PublishBound
  <2> SUFFICES ASSUME IInv, NEW r \in Rows
               PROVE  sent[r] <= attempts[r] + 1 /\ sent[r] <= MaxAttempts
    BY DEF PublishBound
  <2>1. sent[r] \in Nat /\ attempts[r] \in Nat /\ MaxAttempts \in Nat
    BY LimitAssumption DEF IInv, TypeOK
  <2> QED BY <2>1 DEF IInv, CountsMatchStatus
<1> QED BY <1>1, OutboxInvariant, PTL

\* A row is FAILED exactly when its attempts are used up.
THEOREM OutboxFailedAtCap == Spec => []FailedAtCap
<1>1. IInv => FailedAtCap
  <2> SUFFICES ASSUME IInv, NEW r \in Rows
               PROVE  /\ attempts[r] <= MaxAttempts
                      /\ status[r] = "FAILED" <=> attempts[r] = MaxAttempts
    BY DEF FailedAtCap
  <2>1. attempts[r] \in Nat /\ MaxAttempts \in Nat
    BY LimitAssumption DEF IInv, TypeOK
  <2> QED BY <2>1 DEF IInv, CountsMatchStatus
<1> QED BY <1>1, OutboxInvariant, PTL

-----------------------------------------------------------------------------
(* While no worker dies, a message handed to the NATS client goes out.     *)

Out(r) == \E w \in Workers : r \in pending[w] \/ <<r, w>> \in delivered

\* The row a dispatch is about to mark, and every marked row, is out.
MarkedIsOut ==
    /\ \A d \in Runners : \A r \in batch[d] :
         pc[d] = "marking" /\ Current(d, r) => Out(r)
    /\ PublishedNotLost

\* Without a crash the client loses nothing.
LEMMA OutStays ==
    ASSUME TypeOK, "crash" \notin Faults, [Next]_vars, NEW r \in Rows, Out(r)
    PROVE  Out(r)'
<1>1. CASE UNCHANGED <<pending, delivered>>
  BY <1>1 DEF Out
<1>2. ASSUME NEW w \in Workers, Flush(w) PROVE Out(r)'
  <2>1. PICK v \in Workers : r \in pending[v] \/ <<r, v>> \in delivered
    BY DEF Out
  <2> QED BY <1>2, <2>1 DEF Flush, Out, TypeOK
<1>3. ASSUME NEW d \in Runners, NEW q \in Rows, Publish(d, q) PROVE Out(r)'
  <2>1. PICK v \in Workers : r \in pending[v] \/ <<r, v>> \in delivered
    BY DEF Out
  <2>2. pending[v] \subseteq pending'[v]
    BY <1>3 DEF Publish, TypeOK
  <2> QED BY <1>3, <2>1, <2>2 DEF Publish, Out
<1>4. ASSUME NEW d \in Runners, RunnerStep(d) PROVE Out(r)'
  BY <1>1, <1>3, <1>4 DEF RunnerStep, ClaimSelect, ClaimCommit, ClaimAbort, EventStep,
     PublishFails, MarkPublished, MarkPublishedFails, MarkFailed, MarkFailedFails, natsVars
<1>5. ASSUME NEW q \in Rows, Enqueue(q) \/ BackoffElapses(q) PROVE Out(r)'
  BY <1>1, <1>5 DEF Enqueue, BackoffElapses, natsVars
<1> QED BY <1>1, <1>2, <1>4, <1>5 DEF Next, Crash, vars

\* A step that brings no dispatch to "marking" and marks only what is out.
LEMMA MarkedKept ==
    ASSUME IInv, MarkedIsOut, \A r \in Rows : Out(r) => Out(r)',
           \A d \in Runners : pc'[d] = "marking" => pc[d] = "marking" /\ batch'[d] = batch[d],
           \A r \in Rows : status'[r] = "PUBLISHED" => status[r] = "PUBLISHED" \/ Out(r)
    PROVE  MarkedIsOut'
<1>1. ASSUME NEW r \in Rows, status'[r] = "PUBLISHED" PROVE Out(r)'
  BY <1>1 DEF MarkedIsOut, PublishedNotLost, Out
<1>2. ASSUME NEW d \in Runners, NEW r \in batch'[d], pc'[d] = "marking", Current(d, r)'
      PROVE  Out(r)'
  <2>1. r \in batch[d] /\ r \in Rows /\ pc[d] = "marking" /\ Current(d, r)
    BY <1>2 DEF Current, IInv, TypeOK
  <2> QED BY <2>1 DEF MarkedIsOut
<1> QED BY <1>1, <1>2 DEF MarkedIsOut, PublishedNotLost, Out

LEMMA EventStepMarks ==
    ASSUME IInv, MarkedIsOut, \A r \in Rows : Out(r) => Out(r)',
           NEW d \in Runners, NEW r \in Rows, EventStep(d, r)
    PROVE  MarkedIsOut'
<1> USE DEF IInv, TypeOK
<1>1. CASE Publish(d, r)
  <2>1. /\ pc' = [pc EXCEPT ![d] = "marking"] /\ UNCHANGED <<batch, status>>
        /\ pending'[d[1]] = pending[d[1]] \cup {r} /\ d[1] \in Workers
    BY <1>1 DEF Publish, Goto, rowVars, Runners
  <2>2. Out(r)'
    BY <2>1 DEF Out
  <2>3. ASSUME NEW e \in Runners, NEW q \in batch'[e], pc'[e] = "marking", Current(e, q)'
        PROVE  Out(q)'
    <3>1. q \in batch[e] /\ q \in Rows /\ Current(e, q)
      BY <2>1, <2>3 DEF Current
    <3>2. CASE e = d
      <4>1. q = r
        BY <3>1, <3>2, RowsAssumption DEF EventStep, Current
      <4> QED BY <2>2, <4>1
    <3>3. CASE e # d
      <4>1. pc[e] = "marking"
        BY <2>1, <2>3, <3>3
      <4> QED BY <3>1, <4>1 DEF MarkedIsOut
    <3> QED BY <3>2, <3>3
  <2>4. \A q \in Rows : status'[q] = "PUBLISHED" => Out(q)'
    BY <2>1 DEF MarkedIsOut, PublishedNotLost, Out
  <2> QED BY <2>3, <2>4 DEF MarkedIsOut, PublishedNotLost, Out
<1>2. CASE PublishFails(d, r)
  BY <1>2, MarkedKept DEF PublishFails, Goto, rowVars
<1>3. CASE MarkPublished(d, r) \/ MarkPublishedFails(d, r)
  <2>1. Out(r)
    BY <1>3 DEF MarkPublished, MarkPublishedFails, EventStep, Current, MarkedIsOut
  <2>2. \A q \in Rows : status'[q] = "PUBLISHED" => status[q] = "PUBLISHED" \/ Out(q)
    BY <1>3, <2>1 DEF MarkPublished, MarkPublishedFails
  <2>3. \A e \in Runners : pc'[e] = "marking" => pc[e] = "marking" /\ batch'[e] = batch[e]
    BY <1>3 DEF MarkPublished, MarkPublishedFails, Advance, Goto
  <2> QED BY <2>2, <2>3, MarkedKept
<1>4. CASE MarkFailed(d, r) \/ MarkFailedFails(d, r)
  <2>1. \A q \in Rows : status'[q] = "PUBLISHED" => status[q] = "PUBLISHED"
    BY <1>4 DEF MarkFailed, MarkFailedFails, RecordFailure, rowVars
  <2>2. \A e \in Runners : pc'[e] = "marking" => pc[e] = "marking" /\ batch'[e] = batch[e]
    BY <1>4 DEF MarkFailed, MarkFailedFails, Advance, Abandon
  <2> QED BY <2>1, <2>2, MarkedKept
<1> QED BY <1>1, <1>2, <1>3, <1>4 DEF EventStep

LEMMA NextMarks ==
    "crash" \notin Faults => (IInv /\ MarkedIsOut /\ [Next]_vars => MarkedIsOut')
<1> SUFFICES ASSUME "crash" \notin Faults, IInv, MarkedIsOut, [Next]_vars
             PROVE  MarkedIsOut'
  OBVIOUS
<1>1. \A r \in Rows : Out(r) => Out(r)'
  BY OutStays DEF IInv
<1>2. ASSUME NEW d \in Runners, ClaimSelect(d) \/ ClaimCommit(d) \/ ClaimAbort(d)
      PROVE  MarkedIsOut'
  <2>1. \A r \in Rows : status'[r] = "PUBLISHED" => status[r] = "PUBLISHED"
    BY <1>2 DEF ClaimSelect, ClaimCommit, ClaimAbort, StatusClaimed, rowVars
  <2>2. \A e \in Runners : pc'[e] = "marking" => pc[e] = "marking" /\ batch'[e] = batch[e]
    BY <1>2 DEF ClaimSelect, ClaimCommit, ClaimAbort, Abandon, IInv, TypeOK
  <2> QED BY <1>1, <2>1, <2>2, MarkedKept
<1>3. ASSUME NEW r \in Rows, Enqueue(r) \/ BackoffElapses(r)
      PROVE  MarkedIsOut'
  <2>1. \A q \in Rows : status'[q] = "PUBLISHED" => status[q] = "PUBLISHED"
    BY <1>3 DEF Enqueue, BackoffElapses, IInv, TypeOK
  <2> QED BY <1>1, <1>3, <2>1, MarkedKept DEF Enqueue, BackoffElapses, runVars
<1>4. ASSUME NEW w \in Workers, Flush(w)
      PROVE  MarkedIsOut'
  BY <1>1, <1>4, MarkedKept DEF Flush, rowVars, runVars
<1>5. CASE UNCHANGED vars
  BY <1>1, <1>5, MarkedKept DEF vars
<1> QED BY <1>1, <1>2, <1>3, <1>4, <1>5, EventStepMarks DEF Next, RunnerStep, Crash

\* As long as no worker process dies, a row is never marked PUBLISHED for
\* nothing: its message is in a client's buffer or on the wire, whatever
\* publishes, statements and replies fail (dispatchOnce, markPublished).
THEOREM OutboxPublishedNotLost == "crash" \notin Faults => (Spec => []PublishedNotLost)
<1> SUFFICES ASSUME "crash" \notin Faults PROVE Spec => []PublishedNotLost
  OBVIOUS
<1>1. Init => MarkedIsOut
  BY DEF Init, MarkedIsOut, PublishedNotLost
<1>2. IInv /\ MarkedIsOut /\ [Next]_vars => MarkedIsOut'
  BY NextMarks
<1>3. MarkedIsOut => PublishedNotLost
  BY DEF MarkedIsOut
<1> QED BY <1>1, <1>2, <1>3, OutboxInvariant, PTL DEF Spec

-----------------------------------------------------------------------------
(* The dispatcher implements OutboxLedger: every step of it is a step of   *)
(* the ledger or leaves the ledger's state alone.                          *)

InHand(r) == \E d \in Runners : r \in batch[d]

\* A step that keeps status, attempts, sent and the hands that hold
\* published rows is invisible to the ledger.
LEMMA InvisibleStep ==
    ASSUME UNCHANGED <<status, attempts, sent>>,
           \A r \in Rows : status[r] = "PUBLISHED" => (InHand(r)' <=> InHand(r))
    PROVE  UNCHANGED Ledger!lvars
<1>1. ASSUME NEW r \in Rows PROVE Phase(r)' = Phase(r)
  BY <1>1 DEF Phase, InHand
<1> QED BY <1>1 DEF Ledger!lvars

\* A row with the same status, and in the same hands if it is published,
\* stays in the same phase.
LEMMA PhaseKept ==
    ASSUME NEW q \in Rows, status[q] \in Statuses, status'[q] = status[q],
           status[q] = "PUBLISHED" => (InHand(q)' <=> InHand(q))
    PROVE  Phase(q)' = Phase(q)
<1>1. CASE status[q] = "PUBLISHED"
  <2>1. Phase(q) = IF InHand(q) THEN "held" ELSE "done"
    BY <1>1 DEF Phase, InHand
  <2>2. Phase(q)' = IF InHand(q)' THEN "held" ELSE "done"
    BY <1>1 DEF Phase, InHand
  <2> QED BY <1>1, <2>1, <2>2
<1>2. CASE status[q] = "ABSENT"
  BY <1>2 DEF Phase
<1>3. CASE status[q] = "PENDING"
  BY <1>3 DEF Phase
<1>4. CASE status[q] = "PROCESSING"
  BY <1>4 DEF Phase
<1>5. CASE status[q] = "FAILED"
  BY <1>5 DEF Phase
<1> QED BY <1>1, <1>2, <1>3, <1>4, <1>5 DEF Statuses

LEMMA EnqueueRecords ==
    ASSUME IInv, NEW r \in Rows, Enqueue(r)
    PROVE  Ledger!Next
<1>1. \A q \in Rows : Phase(q)' = IF q = r THEN "queued" ELSE Phase(q)
  <2> SUFFICES ASSUME NEW q \in Rows
               PROVE  Phase(q)' = IF q = r THEN "queued" ELSE Phase(q)
    OBVIOUS
  <2>1. /\ status[q] \in Statuses
        /\ status'[q] = IF q = r THEN "PENDING" ELSE status[q]
    BY DEF IInv, TypeOK, Enqueue
  <2>2. InHand(q)' <=> InHand(q)
    BY DEF Enqueue, runVars, InHand
  <2>3. CASE q = r
    BY <2>1, <2>3 DEF Phase
  <2>4. CASE q # r
    BY <2>1, <2>2, <2>4, PhaseKept
  <2> QED BY <2>3, <2>4
<1>2. Phase(r) = "absent"
  BY DEF Enqueue, Phase
<1>3. Ledger!Record(r)
  BY <1>1, <1>2 DEF Ledger!Record, Enqueue, natsVars
<1> QED BY <1>3 DEF Ledger!Next

LEMMA ClaimSelectInvisible ==
    ASSUME IInv, NEW d \in Runners, ClaimSelect(d)
    PROVE  UNCHANGED Ledger!lvars
<1>1. \A r \in batch'[d] : status[r] = "PENDING"
  BY DEF IInv, TypeOK, ClaimSelect, Earliest, Claimable
<1>2. batch[d] = {}
  BY DEF IInv, BatchMatchesStage, ClaimSelect
<1>3. \A e \in Runners : e # d => batch'[e] = batch[e]
  BY DEF IInv, TypeOK, ClaimSelect
<1>4. \A r \in Rows : status[r] = "PUBLISHED" => (InHand(r)' <=> InHand(r))
  BY <1>1, <1>2, <1>3 DEF InHand
<1> QED BY <1>4, InvisibleStep DEF ClaimSelect, rowVars, natsVars

LEMMA ClaimCommitTakes ==
    ASSUME IInv, NEW d \in Runners, ClaimCommit(d)
    PROVE  Ledger!Next
<1>1. batch[d] \in SUBSET Rows /\ \A r \in batch[d] : status[r] = "PENDING"
  BY DEF IInv, TypeOK, BatchMatchesStage, ClaimCommit
<1>2. \A r \in batch[d] : Phase(r) = "queued"
  BY <1>1 DEF Phase
<1>3. \A r \in Rows : Phase(r)' = IF r \in batch[d] THEN "held" ELSE Phase(r)
  <2> SUFFICES ASSUME NEW r \in Rows
               PROVE  Phase(r)' = IF r \in batch[d] THEN "held" ELSE Phase(r)
    OBVIOUS
  <2>1. /\ status[r] \in Statuses
        /\ status'[r] = IF r \in batch[d] THEN "PROCESSING" ELSE status[r]
    BY DEF IInv, TypeOK, ClaimCommit, StatusClaimed
  <2>2. InHand(r)' <=> InHand(r)
    BY DEF ClaimCommit, InHand
  <2>3. CASE r \in batch[d]
    BY <2>1, <2>3 DEF Phase
  <2>4. CASE r \notin batch[d]
    BY <2>1, <2>2, <2>4, PhaseKept
  <2> QED BY <2>3, <2>4
<1>4. Ledger!Take(batch[d])
  BY <1>1, <1>2, <1>3 DEF Ledger!Take, ClaimCommit, natsVars
<1> QED BY <1>1, <1>4 DEF Ledger!Next

LEMMA ClaimAbortRefines ==
    ASSUME IInv, NEW d \in Runners, ClaimAbort(d)
    PROVE  Ledger!Next \/ UNCHANGED Ledger!lvars
<1>1. batch[d] \in SUBSET Rows /\ \A r \in batch[d] : status[r] = "PENDING"
  BY DEF IInv, TypeOK, BatchMatchesStage, ClaimAbort
<1>2. /\ UNCHANGED <<attempts, sent>>
      /\ batch'[d] = {} /\ \A e \in Runners : e # d => batch'[e] = batch[e]
  BY DEF IInv, TypeOK, ClaimAbort, Abandon, natsVars
<1>3. \A r \in Rows : status[r] = "PUBLISHED" => (InHand(r)' <=> InHand(r))
  BY <1>1, <1>2 DEF InHand
<1>4. CASE UNCHANGED status
  BY <1>2, <1>3, <1>4, InvisibleStep
<1>5. CASE status' = StatusClaimed(d)
  <2>1. ASSUME NEW r \in Rows
        PROVE  Phase(r)' = IF r \in batch[d] THEN "held" ELSE Phase(r)
    <3>1. /\ status[r] \in Statuses
          /\ status'[r] = IF r \in batch[d] THEN "PROCESSING" ELSE status[r]
      BY <1>5 DEF IInv, TypeOK, StatusClaimed
    <3>2. CASE r \in batch[d]
      BY <3>1, <3>2 DEF Phase
    <3>3. CASE r \notin batch[d]
      BY <1>3, <3>1, <3>3, PhaseKept
    <3> QED BY <3>2, <3>3
  <2>2. \A r \in batch[d] : Phase(r) = "queued"
    BY <1>1 DEF Phase
  <2>3. Ledger!Take(batch[d])
    BY <1>1, <1>2, <2>1, <2>2 DEF Ledger!Take
  <2> QED BY <1>1, <2>3 DEF Ledger!Next
<1> QED BY <1>4, <1>5 DEF ClaimAbort

LEMMA PublishSends ==
    ASSUME IInv, NEW d \in Runners, NEW r \in Rows, Current(d, r), Publish(d, r)
    PROVE  Ledger!Next
<1>1. r \in batch[d] /\ status[r] = "PROCESSING" /\ sent[r] <= attempts[r]
  BY DEF IInv, BatchMatchesStage, SendsInHand, Publish, Current
<1>2. \A q \in Rows : Phase(q)' = Phase(q)
  BY DEF Publish, Goto, Phase, rowVars
<1>3. Ledger!Send(r)
  BY <1>1, <1>2 DEF Ledger!Send, Publish, rowVars, Phase
<1> QED BY <1>3 DEF Ledger!Next

LEMMA PublishFailsInvisible ==
    ASSUME NEW d \in Runners, NEW r \in Rows, PublishFails(d, r)
    PROVE  UNCHANGED Ledger!lvars
<1> QED BY InvisibleStep DEF PublishFails, Goto, rowVars, natsVars, InHand

LEMMA MarkPublishedCompletes ==
    ASSUME IInv, NEW d \in Runners, NEW r \in Rows, Current(d, r), MarkPublished(d, r)
    PROVE  Ledger!Next
<1>1. r \in batch[d] /\ status[r] = "PROCESSING" /\ sent[r] > 0
  BY DEF IInv, BatchMatchesStage, SendsInHand, MarkPublished, Current
<1>2. ~InHand(r)' /\ \A q \in Rows : q # r => (InHand(q)' <=> InHand(q))
  <2>1. batch'[d] = batch[d] \ {r} /\ \A e \in Runners : e # d => batch'[e] = batch[e]
    BY DEF IInv, TypeOK, MarkPublished, Advance
  <2>2. \A e \in Runners : e # d => r \notin batch[e]
    BY <1>1 DEF IInv, NoDoubleClaim
  <2> QED BY <2>1, <2>2 DEF InHand
<1>3. /\ status'[r] = "PUBLISHED"
      /\ \A q \in Rows : q # r => status'[q] = status[q]
  BY DEF IInv, TypeOK, MarkPublished
<1>4. \A q \in Rows : Phase(q)' = IF q \in {r} THEN "done" ELSE Phase(q)
  <2> SUFFICES ASSUME NEW q \in Rows
               PROVE  Phase(q)' = IF q \in {r} THEN "done" ELSE Phase(q)
    OBVIOUS
  <2>1. CASE q = r
    BY <1>2, <1>3, <2>1 DEF Phase, InHand
  <2>2. CASE q # r
    BY <1>2, <1>3, <2>2, PhaseKept DEF IInv, TypeOK
  <2> QED BY <2>1, <2>2
<1>5. Phase(r) = "held"
  BY <1>1 DEF Phase
<1>6. Ledger!Complete({r})
  BY <1>1, <1>4, <1>5 DEF Ledger!Complete, MarkPublished, natsVars
<1> QED BY <1>6 DEF Ledger!Next

LEMMA MarkPublishedFailsInvisible ==
    ASSUME IInv, NEW d \in Runners, NEW r \in Rows, Current(d, r), MarkPublishedFails(d, r)
    PROVE  UNCHANGED Ledger!lvars
<1>1. r \in batch[d] /\ status[r] = "PROCESSING"
  BY DEF IInv, BatchMatchesStage, MarkPublishedFails, Current
<1>2. UNCHANGED <<attempts, sent, batch>>
  BY DEF MarkPublishedFails, Goto, natsVars
<1>3. /\ status'[r] \in {"PROCESSING", "PUBLISHED"}
      /\ \A q \in Rows : q # r => status'[q] = status[q]
  <2>1. CASE UNCHANGED status
    BY <1>1, <2>1
  <2>2. CASE status' = [status EXCEPT ![r] = "PUBLISHED"]
    BY <2>2 DEF IInv, TypeOK
  <2> QED BY <2>1, <2>2 DEF MarkPublishedFails
<1>4. ASSUME NEW q \in Rows PROVE Phase(q)' = Phase(q)
  <2>1. CASE q = r
    BY <2>1, <1>1, <1>2, <1>3 DEF Phase
  <2>2. CASE q # r
    BY <2>2, <1>2, <1>3 DEF Phase
  <2> QED BY <2>1, <2>2
<1> QED BY <1>2, <1>4 DEF Ledger!lvars

\* The UPDATE of markFailed, when r leaves the hand of d and the published
\* rows of other hands stay where they are, gives r back.
LEMMA FailureGivesBack ==
    ASSUME IInv, NEW d \in Runners, NEW r \in Rows, Current(d, r), pc[d] = "failing",
           RecordFailure(d, r), UNCHANGED sent,
           \A e \in Runners : e # d => batch'[e] = batch[e],
           batch'[d] \subseteq batch[d]
    PROVE  Ledger!Next
<1>1. /\ r \in batch[d] /\ seen[d][r] = attempts[r]
      /\ status[r] \in {"PROCESSING", "PUBLISHED"}
      /\ \A q \in batch[d] : q # r => status[q] = "PROCESSING"
  <2>1. \A q \in batch[d] : Current(d, q) => q = r
    BY RowsAssumption DEF Current, IInv, TypeOK
  <2> QED BY <2>1 DEF IInv, BatchMatchesStage, SeenIsCurrent, Current
<1>2. Phase(r) = "held"
  BY <1>1 DEF Phase
<1>3. /\ status'[r] = IF attempts[r] + 1 >= MaxAttempts THEN "FAILED" ELSE "PENDING"
      /\ \A q \in Rows : q # r => status'[q] = status[q]
  BY <1>1 DEF RecordFailure, IInv, TypeOK
<1>4. \A q \in Rows : q # r /\ status[q] = "PUBLISHED" => (InHand(q)' <=> InHand(q))
  BY <1>1 DEF InHand
<1>5. ASSUME NEW q \in Rows
      PROVE  Phase(q)' = IF q = r THEN IF attempts[r] + 1 >= MaxAttempts
                                       THEN "dead" ELSE "queued"
                         ELSE Phase(q)
  <2>1. CASE q = r
    BY <2>1, <1>3 DEF Phase
  <2>2. CASE q # r
    BY <2>2, <1>3, <1>4, PhaseKept DEF IInv, TypeOK
  <2> QED BY <2>1, <2>2
<1>6. Ledger!GiveBack(r)
  BY <1>2, <1>5 DEF Ledger!GiveBack, RecordFailure
<1> QED BY <1>6 DEF Ledger!Next

LEMMA MarkFailedGivesBack ==
    ASSUME IInv, NEW d \in Runners, NEW r \in Rows, Current(d, r), MarkFailed(d, r)
    PROVE  Ledger!Next
<1>1. batch'[d] \subseteq batch[d] /\ \A e \in Runners : e # d => batch'[e] = batch[e]
  BY DEF IInv, TypeOK, MarkFailed, Advance
<1> QED BY <1>1, FailureGivesBack DEF MarkFailed, natsVars

\* Published rows that leave the hands of dispatches are complete.
LEMMA LeavingHandsCompletes ==
    ASSUME IInv, UNCHANGED <<status, attempts, sent>>,
           \A r \in Rows : InHand(r)' => InHand(r)
    PROVE  Ledger!Next
<1> DEFINE R == {r \in Rows : status[r] = "PUBLISHED" /\ InHand(r) /\ ~InHand(r)'}
<1>1. \A r \in R : Phase(r) = "held" /\ sent[r] > 0
  BY DEF Phase, InHand, IInv, CountsMatchStatus
<1>2. \A r \in Rows : Phase(r)' = IF r \in R THEN "done" ELSE Phase(r)
  <2> SUFFICES ASSUME NEW r \in Rows
               PROVE  Phase(r)' = IF r \in R THEN "done" ELSE Phase(r)
    OBVIOUS
  <2>1. CASE r \in R
    BY <2>1 DEF Phase, InHand
  <2>2. CASE r \notin R
    BY <2>2, PhaseKept DEF IInv, TypeOK
  <2> QED BY <2>1, <2>2
<1>3. Ledger!Complete(R)
  BY <1>1, <1>2 DEF Ledger!Complete
<1> QED BY <1>3 DEF Ledger!Next

LEMMA MarkFailedFailsRefines ==
    ASSUME IInv, NEW d \in Runners, NEW r \in Rows, Current(d, r), MarkFailedFails(d, r)
    PROVE  Ledger!Next
<1>1. batch'[d] = {} /\ \A e \in Runners : e # d => batch'[e] = batch[e]
  BY DEF IInv, TypeOK, MarkFailedFails, Abandon
<1>2. CASE UNCHANGED rowVars
  <2>1. \A q \in Rows : InHand(q)' => InHand(q)
    BY <1>1 DEF InHand
  <2> QED BY <1>2, <2>1, LeavingHandsCompletes DEF MarkFailedFails, rowVars, natsVars
<1>3. CASE RecordFailure(d, r)
  BY <1>1, <1>3, FailureGivesBack DEF MarkFailedFails, natsVars
<1> QED BY <1>2, <1>3 DEF MarkFailedFails

LEMMA CrashRefines ==
    ASSUME IInv, NEW w \in Workers, Crash(w)
    PROVE  Ledger!Next
<1>1. \A q \in Rows : InHand(q)' => InHand(q)
  BY DEF Crash, InHand, IInv, TypeOK
<1> QED BY <1>1, LeavingHandsCompletes DEF Crash, rowVars

LEMMA StepRefines == IInv /\ [Next]_vars => [Ledger!Next]_(Ledger!lvars)
<1> SUFFICES ASSUME IInv, [Next]_vars PROVE Ledger!Next \/ UNCHANGED Ledger!lvars
  OBVIOUS
<1>1. ASSUME NEW r \in Rows, Enqueue(r) \/ BackoffElapses(r)
      PROVE  Ledger!Next \/ UNCHANGED Ledger!lvars
  <2>1. CASE Enqueue(r)
    BY <2>1, EnqueueRecords
  <2>2. CASE BackoffElapses(r)
    BY <2>2, InvisibleStep DEF BackoffElapses, runVars, natsVars, InHand
  <2> QED BY <1>1, <2>1, <2>2
<1>2. ASSUME NEW d \in Runners, RunnerStep(d)
      PROVE  Ledger!Next \/ UNCHANGED Ledger!lvars
  <2>1. ASSUME NEW r \in Rows, EventStep(d, r)
        PROVE  Ledger!Next \/ UNCHANGED Ledger!lvars
    BY <2>1, PublishSends, PublishFailsInvisible, MarkPublishedCompletes,
       MarkPublishedFailsInvisible, MarkFailedGivesBack, MarkFailedFailsRefines
       DEF EventStep
  <2> QED BY <1>2, <2>1, ClaimSelectInvisible, ClaimCommitTakes, ClaimAbortRefines
       DEF RunnerStep
<1>3. ASSUME NEW w \in Workers, Flush(w) \/ Crash(w)
      PROVE  Ledger!Next \/ UNCHANGED Ledger!lvars
  <2>1. CASE Flush(w)
    BY <2>1, InvisibleStep DEF Flush, rowVars, runVars, InHand
  <2>2. CASE Crash(w)
    BY <2>2, CrashRefines
  <2> QED BY <1>3, <2>1, <2>2
<1>4. CASE UNCHANGED vars
  BY <1>4, InvisibleStep DEF vars, InHand
<1> QED BY <1>1, <1>2, <1>3, <1>4 DEF Next

LEMMA InitRefines == Init => Ledger!Init
<1> QED BY DEF Init, Ledger!Init, Phase

\* The dispatcher implements the ledger: with any number of workers and
\* overlapping dispatches each event goes through attempts one at a time, is
\* published at most once in each, and is settled as the ledger says.
THEOREM OutboxImplementsLedger == Spec => ImplementsLedger
<1> QED BY InitRefines, StepRefines, OutboxInvariant, PTL
     DEF Spec, ImplementsLedger, Ledger!Spec
=============================================================================
