------------------------------- MODULE Gateway -------------------------------
(***************************************************************************)
(* gateway: the idempotency interceptor around every forwarded POST, and   *)
(* the Redis records it keeps (common/idempotency.*.ts, routes/*.ts).      *)
(*                                                                         *)
(* A record's key is method, route and Idempotency-Key, here a slot; the   *)
(* hash of the body tells requests of one slot apart.  A call first reads  *)
(* the record, then reserves it with SET NX, forwards the request, and     *)
(* overwrites the record with the response.  Whatever fails on the way     *)
(* reaches the client as an error and leaves the record as it is.          *)
(***************************************************************************)
EXTENDS Naturals

CONSTANTS
    Requests,       \* the write requests clients make
    Slots,          \* idem:<method>:<route>:<key>
    Slot,           \* [Requests -> Slots]
    Responses,      \* what a service answers with a success status
    Calls,          \* bound: requests the gateway handles at a time
    Copies          \* bound: how often a client sends one request

ASSUME GatewayAssumption == Slot \in [Requests -> Slots] /\ Copies \in Nat

VARIABLES
    record,     \* [Slots -> Records], the IdemRecord in Redis
    call,       \* [Calls -> CallStates], the interceptors at work
    sends,      \* [Requests -> Nat], sends still to come
    told,       \* history: set of <<request, response>> given to clients
    forwards,   \* history: [Slots -> Nat], requests passed on to a service
    expired     \* history: slots whose record ran out (ttlSeconds)

gatewayVars == <<record, call, sends, told, forwards, expired>>

\* A 'failed' record exists in the type only: nothing writes one.
NoRecord == [state |-> "none"]
Records == {NoRecord} \cup [state : {"pending"}, req : Requests]
                      \cup [state : {"done"}, req : Requests, answer : Responses]

Free == [pc |-> "free"]
CallStates == {Free} \cup [pc : {"unseen", "reserved", "forwarding"}, req : Requests]
                     \cup [pc : {"answered"}, req : Requests, answer : Responses]

TypeOK ==
    /\ record \in [Slots -> Records]
    /\ call \in [Calls -> CallStates]
    /\ sends \in [Requests -> Nat]
    /\ told \subseteq Requests \X Responses
    /\ forwards \in [Slots -> Nat]
    /\ expired \subseteq Slots

Init ==
    /\ record = [s \in Slots |-> NoRecord]
    /\ call = [c \in Calls |-> Free]
    /\ sends = [q \in Requests |-> Copies]
    /\ told = {}
    /\ forwards = [s \in Slots |-> 0]
    /\ expired = {}

-----------------------------------------------------------------------------

CallAt(c, pc) == call' = [call EXCEPT ![c] = [pc |-> pc, req |-> call[c].req]]
Release(c)      == call' = [call EXCEPT ![c] = Free]

\* Mutant of Ask: reqHash is not compared.
AskUnhashed(c, q) ==
    LET r == record[Slot[q]]
    IN  /\ call[c] = Free
        /\ sends[q] > 0
        /\ sends' = [sends EXCEPT ![q] = @ - 1]
        /\ \/ /\ r = NoRecord
              /\ call' = [call EXCEPT ![c] = [pc |-> "unseen", req |-> q]]
              /\ UNCHANGED told
           \/ /\ r.state = "done"
              /\ told' = told \cup {<<q, r.answer>>}
              /\ UNCHANGED call
           \/ /\ r.state = "pending"
              /\ UNCHANGED <<call, told>>
        /\ UNCHANGED <<record, forwards, expired>>

\* redis.get: no record, and the call goes on to reserve one; a stored
\* response, replayed to the client; another body, or still pending (409).
Ask(c, q) ==
    LET r == record[Slot[q]]
    IN  /\ call[c] = Free
        /\ sends[q] > 0
        /\ sends' = [sends EXCEPT ![q] = @ - 1]
        /\ \/ /\ r = NoRecord
              /\ call' = [call EXCEPT ![c] = [pc |-> "unseen", req |-> q]]
              /\ UNCHANGED told
           \/ /\ r.state = "done" /\ r.req = q
              /\ told' = told \cup {<<q, r.answer>>}
              /\ UNCHANGED call
           \/ /\ r.state = "pending" \/ (r.state = "done" /\ r.req # q)
              /\ UNCHANGED <<call, told>>
        /\ UNCHANGED <<record, forwards, expired>>

\* Mutant of Reserve: SET without NX.
ReserveBlindly(c) ==
    LET q == call[c].req
    IN  /\ call[c].pc = "unseen"
        /\ record' = [record EXCEPT ![Slot[q]] = [state |-> "pending", req |-> q]]
        /\ CallAt(c, "reserved")
        /\ UNCHANGED <<sends, told, forwards, expired>>

\* SET key EX ttl NX: the first one gets the slot, the others a 409.
Reserve(c) ==
    LET q == call[c].req
    IN  /\ call[c].pc = "unseen"
        /\ IF record[Slot[q]] = NoRecord
           THEN /\ record' = [record EXCEPT ![Slot[q]] = [state |-> "pending", req |-> q]]
                /\ CallAt(c, "reserved")
           ELSE Release(c) /\ UNCHANGED record
        /\ UNCHANGED <<sends, told, forwards, expired>>

\* next.handle(): the route's controller passes the request on.
Forward(c) ==
    /\ call[c].pc = "reserved"
    /\ forwards' = [forwards EXCEPT ![Slot[call[c].req]] = @ + 1]
    /\ CallAt(c, "forwarding")
    /\ UNCHANGED <<record, sends, told, expired>>

\* The service answers with a success.
Answer(c, a) ==
    /\ call[c].pc = "forwarding"
    /\ call' = [call EXCEPT ![c] = [pc |-> "answered", req |-> @.req, answer |-> a]]
    /\ UNCHANGED <<record, sends, told, forwards, expired>>

\* Mutant of Finalize: the third state of IdemState, which has no response.
FinalizeFailed(c) ==
    LET q == call[c].req
    IN  /\ call[c].pc = "answered"
        /\ record' = [record EXCEPT ![Slot[q]] = [state |-> "failed", req |-> q]]
        /\ told' = told \cup {<<q, call[c].answer>>}
        /\ Release(c)
        /\ UNCHANGED <<sends, forwards, expired>>

\* finalize: an unconditional SET, then the response to the client.
Finalize(c) ==
    LET q == call[c].req
    IN  /\ call[c].pc = "answered"
        /\ record' = [record EXCEPT ![Slot[q]] =
                        [state |-> "done", req |-> q, answer |-> call[c].answer]]
        /\ told' = told \cup {<<q, call[c].answer>>}
        /\ Release(c)
        /\ UNCHANGED <<sends, forwards, expired>>

\* An error response, a timeout, Redis out of reach, or the process dies:
\* nothing takes a pending record back.
Fail(c) ==
    /\ call[c] # Free
    /\ Release(c)
    /\ UNCHANGED <<record, sends, told, forwards, expired>>

\* Mutant of Expire: the pending record is written without EX.
ExpireDoneOnly(s) ==
    /\ record[s].state = "done"
    /\ record' = [record EXCEPT ![s] = NoRecord]
    /\ expired' = expired \cup {s}
    /\ UNCHANGED <<call, sends, told, forwards>>

\* ttlSeconds after it was last written a record is gone.
Expire(s) ==
    /\ record[s] # NoRecord
    /\ record' = [record EXCEPT ![s] = NoRecord]
    /\ expired' = expired \cup {s}
    /\ UNCHANGED <<call, sends, told, forwards>>

Next ==
    \/ \E c \in Calls, q \in Requests : Ask(c, q)
    \/ \E c \in Calls :
          \/ Reserve(c) \/ Forward(c) \/ Finalize(c) \/ Fail(c)
          \/ \E a \in Responses : Answer(c, a)
    \/ \E s \in Slots : Expire(s)

Spec == Init /\ [][Next]_gatewayVars

-----------------------------------------------------------------------------
(* Properties.                                                             *)

\* While a record lasts the service sees its request once, however often
\* clients send it and whatever fails: concurrent calls that all read no
\* record race for the SET NX, and a failed call leaves the slot taken.
ForwardedOnce == \A s \in Slots \ expired : forwards[s] <= 1

\* While a record lasts all answers given for its key are the same, and all
\* are for the same body.
AnswersAgree ==
    \A t, u \in told : Slot[t[1]] = Slot[u[1]] /\ Slot[t[1]] \notin expired => t = u

\* A request that failed does not block its key for ever: the pending record
\* was written with a time to live, the only thing that removes it.
PendingEnds ==
    \A s \in Slots : record[s].state = "pending" ~> record[s].state # "pending"
=============================================================================
