------------------------ MODULE GatewayInventoryProofs ------------------------
(***************************************************************************)
(* Theorems about Gateway and about GatewayInventory, for any requests,    *)
(* slots, calls, handlers and faults.  The gateway alone: its types, that  *)
(* a request is forwarded once while its record lasts, and that all its    *)
(* answers agree.  The gateway in front of inventory-svc: what is asked    *)
(* under one key happens once, a success was committed, and together they  *)
(* implement KeyedService.                                                 *)
(***************************************************************************)
EXTENDS GatewayInventory, TLAPS

-----------------------------------------------------------------------------
(* The gateway alone: its inductive invariant.                             *)

\* Past the SET NX a call holds its slot.
Holding(c) == call[c].pc \in {"reserved", "forwarding", "answered"}

Lasting(q) == Slot[q] \notin expired

\* What a call that holds an unexpired slot knows: the record is its own,
\* nobody else holds the slot, and nothing was forwarded before it was.
HolderOwns ==
    \A c \in Calls :
        Holding(c) /\ Lasting(call[c].req) =>
            /\ record[Slot[call[c].req]] = [state |-> "pending", req |-> call[c].req]
            /\ call[c].pc = "reserved" => forwards[Slot[call[c].req]] = 0
            /\ \A d \in Calls \ {c} : Holding(d) => Slot[call[d].req] # Slot[call[c].req]

\* Without a record nothing has happened in an unexpired slot.
FreshIsUnused ==
    \A s \in Slots \ expired : record[s] = NoRecord => forwards[s] = 0

\* An answer given in an unexpired slot is the one its record stores.
ToldIsStored ==
    \A t \in told :
        Lasting(t[1]) =>
            record[Slot[t[1]]] = [state |-> "done", req |-> t[1], answer |-> t[2]]

IInv == TypeOK /\ HolderOwns /\ FreshIsUnused /\ ToldIsStored /\ ForwardedOnce

\* What a call carries.
LEMMA CallFields ==
    ASSUME TypeOK, NEW c \in Calls, call[c] # Free
    PROVE  /\ call[c].req \in Requests
           /\ Slot[call[c].req] \in Slots
           /\ call[c].pc \in {"unseen", "reserved", "forwarding", "answered"}
           /\ call[c].pc = "answered" => call[c].answer \in Responses
  BY GatewayAssumption DEF TypeOK, CallStates

\* What a call does not know it is still free of.
LEMMA HoldingIsBusy ==
    ASSUME NEW c \in Calls, Holding(c)
    PROVE  call[c] # Free
  BY DEF Holding, Free

LEMMA InitIInv == Init => IInv
  <1> SUFFICES ASSUME Init PROVE IInv
    OBVIOUS
  <1>1. TypeOK
    BY GatewayAssumption DEF Init, TypeOK, Records, CallStates
  <1>2. HolderOwns
    BY DEF Init, HolderOwns, Holding, Free
  <1>3. FreshIsUnused /\ ToldIsStored
    BY DEF Init, FreshIsUnused, ToldIsStored
  <1>4. ForwardedOnce
    <2>1. \A s \in Slots : forwards[s] = 0
      BY DEF Init
    <2>2. 0 <= 1
      BY SMT
    <2> QED
      BY <2>1, <2>2 DEF ForwardedOnce
  <1> QED
    BY <1>1, <1>2, <1>3, <1>4 DEF IInv

-----------------------------------------------------------------------------
(* One lemma per action: it preserves the inductive invariant.             *)

\* Steps that write no record and only move a call out of the way, or into
\* a state in which it holds nothing.
LEMMA LeaveIInv ==
    ASSUME IInv, NEW c \in Calls, NEW s, s \in CallStates,
           s.pc \in {"free", "unseen"},
           call' = [call EXCEPT ![c] = s],
           UNCHANGED <<record, forwards, expired, told>>,
           sends' \in [Requests -> Nat]
    PROVE  IInv'
  <1>1. TypeOK'
    BY DEF IInv, TypeOK
  <1>2. \A d \in Calls : Holding(d)' => Holding(d) /\ call'[d] = call[d]
    BY DEF IInv, TypeOK, Holding
  <1>3. HolderOwns'
    BY <1>2 DEF IInv, HolderOwns, Lasting, Holding
  <1>4. FreshIsUnused' /\ ToldIsStored' /\ ForwardedOnce'
    BY DEF IInv, FreshIsUnused, ToldIsStored, ForwardedOnce, Lasting
  <1> QED
    BY <1>1, <1>3, <1>4 DEF IInv

LEMMA AskIInv ==
    ASSUME IInv, NEW c \in Calls, NEW q \in Requests, Ask(c, q)
    PROVE  IInv'
  <1> DEFINE r == record[Slot[q]]
             unseen == [pc |-> "unseen", req |-> q]
  <1>0. TypeOK /\ Slot[q] \in Slots /\ r \in Records /\ call[c] = Free
    BY GatewayAssumption DEF IInv, TypeOK, Ask
  <1>1. sends' \in [Requests -> Nat]
    <2>1. sends[q] - 1 \in Nat
      BY <1>0, SMT DEF TypeOK, Ask
    <2> QED
      BY <2>1, <1>0 DEF TypeOK, Ask
  <1>2. ASSUME UNCHANGED told, call' = [call EXCEPT ![c] = unseen] PROVE IInv'
    <2>1. unseen \in CallStates /\ unseen.pc = "unseen"
      BY DEF CallStates
    <2> QED
      BY <1>1, <1>2, <2>1, LeaveIInv DEF Ask
  <1>3. ASSUME UNCHANGED <<told, call>> PROVE IInv'
    <2>1. Free \in CallStates /\ Free.pc = "free" /\ call' = [call EXCEPT ![c] = Free]
      BY <1>0, <1>3 DEF TypeOK, CallStates, Free
    <2> QED
      BY <1>1, <1>3, <2>1, LeaveIInv DEF Ask
  <1>4. ASSUME r.state = "done", r.req = q, told' = told \cup {<<q, r.answer>>},
               UNCHANGED call
        PROVE  IInv'
    <2>1. r.answer \in Responses /\ r = [state |-> "done", req |-> q, answer |-> r.answer]
      BY <1>0, <1>4 DEF Records, NoRecord
    <2>2. TypeOK'
      BY <1>0, <1>1, <1>4, <2>1 DEF TypeOK, Ask
    <2>3. HolderOwns' /\ FreshIsUnused' /\ ForwardedOnce'
      BY <1>4 DEF IInv, HolderOwns, Holding, FreshIsUnused, ForwardedOnce, Lasting, Ask
    <2>4. ToldIsStored'
      BY <1>4, <2>1 DEF IInv, ToldIsStored, Lasting, Ask
    <2> QED
      BY <2>2, <2>3, <2>4 DEF IInv
  <1> QED
    BY <1>2, <1>3, <1>4 DEF Ask

\* SET NX found no record, so nobody holds the slot and nothing was told.
LEMMA ReserveIInv ==
    ASSUME IInv, NEW c \in Calls, Reserve(c)
    PROVE  IInv'
  <1> DEFINE q == call[c].req
             mine == [state |-> "pending", req |-> q]
             begun == [pc |-> "reserved", req |-> q]
  <1>0. TypeOK /\ q \in Requests /\ Slot[q] \in Slots
    BY CallFields DEF IInv, Reserve, Free
  <1>1. CASE record[Slot[q]] = NoRecord
    <2>1. /\ record' = [record EXCEPT ![Slot[q]] = mine]
          /\ call' = [call EXCEPT ![c] = begun]
          /\ UNCHANGED <<sends, told, forwards, expired>>
      BY <1>1 DEF Reserve, CallAt
    <2>2. mine \in Records /\ begun \in CallStates
      BY <1>0 DEF Records, CallStates
    <2>3. TypeOK'
      BY <1>0, <2>1, <2>2 DEF TypeOK
    <2>4. /\ record'[Slot[q]] = mine /\ call'[c] = begun
          /\ \A s \in Slots \ {Slot[q]} : record'[s] = record[s]
          /\ \A d \in Calls \ {c} : call'[d] = call[d]
      BY <1>0, <2>1 DEF TypeOK
    <2>5. ASSUME NEW d \in Calls \ {c}, Holding(d), Lasting(q)
          PROVE  Slot[call[d].req] # Slot[q]
      <3>1. SUFFICES ASSUME Slot[call[d].req] = Slot[q] PROVE FALSE
        OBVIOUS
      <3>2. record[Slot[q]] = [state |-> "pending", req |-> call[d].req]
        BY <2>5, <3>1 DEF IInv, HolderOwns, Lasting
      <3> QED
        BY <1>1, <3>2 DEF NoRecord
    <2>6. HolderOwns'
      <3> SUFFICES ASSUME NEW d \in Calls, Holding(d)', Lasting(call[d].req)'
                   PROVE  /\ record'[Slot[call'[d].req]] = [state |-> "pending", req |-> call'[d].req]
                          /\ call'[d].pc = "reserved" => forwards'[Slot[call'[d].req]] = 0
                          /\ \A e \in Calls \ {d} : Holding(e)' => Slot[call'[e].req] # Slot[call'[d].req]
        BY DEF HolderOwns
      <3>1. CASE d = c
        <4>1. Lasting(q) /\ forwards[Slot[q]] = 0
          BY <1>0, <1>1, <2>1, <2>4, <3>1 DEF Lasting, IInv, FreshIsUnused
        <4>2. \A e \in Calls \ {c} : Holding(e)' => Slot[call'[e].req] # Slot[q]
          BY <2>4, <2>5, <4>1 DEF Holding
        <4> QED
          BY <2>1, <2>4, <3>1, <4>1, <4>2
      <3>2. CASE d # c
        <4>1. Holding(d) /\ Lasting(call[d].req) /\ call'[d] = call[d]
          BY <2>1, <2>4, <3>2 DEF Holding, Lasting
        <4>2. Slot[call[d].req] \in Slots
          BY <1>0, <4>1, CallFields, HoldingIsBusy
        <4>3. Slot[call[d].req] # Slot[q]
          BY <2>5, <3>2, <4>1 DEF Lasting
        <4>4. \A e \in Calls \ {d} : Holding(e)' => Slot[call'[e].req] # Slot[call[d].req]
          <5> TAKE e \in Calls \ {d}
          <5>1. CASE e = c
            BY <2>4, <4>3, <5>1
          <5>2. CASE e # c
            <6>1. Holding(e)' => Holding(e) /\ call'[e] = call[e]
              BY <2>4, <5>2 DEF Holding
            <6>2. Holding(e) => Slot[call[e].req] # Slot[call[d].req]
              BY <4>1 DEF IInv, HolderOwns
            <6> QED
              BY <6>1, <6>2
          <5> QED
            BY <5>1, <5>2
        <4>5. /\ record[Slot[call[d].req]] = [state |-> "pending", req |-> call[d].req]
              /\ call[d].pc = "reserved" => forwards[Slot[call[d].req]] = 0
          BY <4>1 DEF IInv, HolderOwns
        <4> QED
          BY <2>1, <2>4, <4>1, <4>2, <4>3, <4>4, <4>5
      <3> QED
        BY <3>1, <3>2
    <2>7. FreshIsUnused' /\ ForwardedOnce'
      BY <2>1, <2>4 DEF IInv, FreshIsUnused, ForwardedOnce, NoRecord
    <2>8. ToldIsStored'
      <3> SUFFICES ASSUME NEW t \in told, Lasting(t[1])
                   PROVE  record'[Slot[t[1]]] = [state |-> "done", req |-> t[1], answer |-> t[2]]
        BY <2>1 DEF ToldIsStored, Lasting
      <3>1. record[Slot[t[1]]] = [state |-> "done", req |-> t[1], answer |-> t[2]]
        BY DEF IInv, ToldIsStored
      <3>2. Slot[t[1]] # Slot[q] /\ Slot[t[1]] \in Slots
        BY <1>0, <1>1, <3>1, GatewayAssumption DEF NoRecord, TypeOK
      <3> QED
        BY <2>4, <3>1, <3>2
    <2> QED
      BY <2>3, <2>6, <2>7, <2>8 DEF IInv
  <1>2. CASE record[Slot[q]] # NoRecord
    <2>1. Free \in CallStates /\ Free.pc = "free"
      BY DEF CallStates, Free
    <2>2. sends' \in [Requests -> Nat]
      BY <1>0 DEF Reserve, TypeOK
    <2> QED
      BY <1>2, <2>1, <2>2, LeaveIInv DEF Reserve, Release
  <1> QED
    BY <1>1, <1>2

\* Only the holder forwards, and it has not forwarded before.
LEMMA ForwardIInv ==
    ASSUME IInv, NEW c \in Calls, Forward(c)
    PROVE  IInv'
  <1> DEFINE q == call[c].req
             sent == [pc |-> "forwarding", req |-> q]
  <1>0. TypeOK /\ q \in Requests /\ Slot[q] \in Slots /\ Holding(c)
    BY CallFields DEF IInv, Forward, Free, Holding
  <1>1. /\ call' = [call EXCEPT ![c] = sent]
        /\ UNCHANGED <<record, sends, told, expired>>
        /\ forwards[Slot[q]] \in Nat /\ forwards[Slot[q]] + 1 \in Nat
        /\ forwards' = [forwards EXCEPT ![Slot[q]] = forwards[Slot[q]] + 1]
    BY <1>0, SMT DEF Forward, CallAt, TypeOK
  <1>2. TypeOK'
    BY <1>0, <1>1 DEF TypeOK, CallStates
  <1>3. /\ call'[c] = sent
        /\ \A d \in Calls \ {c} : call'[d] = call[d]
        /\ \A s \in Slots \ {Slot[q]} : forwards'[s] = forwards[s]
        /\ forwards'[Slot[q]] = forwards[Slot[q]] + 1
    BY <1>0, <1>1 DEF TypeOK
  <1>4. \A d \in Calls : /\ Holding(d)' <=> Holding(d)
                         /\ call'[d].req = call[d].req
                         /\ Lasting(call[d].req)' <=> Lasting(call[d].req)
    BY <1>0, <1>1, <1>3 DEF Holding, Lasting
  <1>5. HolderOwns'
    <2> SUFFICES ASSUME NEW d \in Calls, Holding(d), Lasting(call[d].req)
                 PROVE  /\ record'[Slot[call'[d].req]] = [state |-> "pending", req |-> call'[d].req]
                        /\ call'[d].pc = "reserved" => forwards'[Slot[call'[d].req]] = 0
                        /\ \A e \in Calls \ {d} : Holding(e)' => Slot[call'[e].req] # Slot[call'[d].req]
      BY <1>4, Zenon DEF HolderOwns
    <2>1. /\ record[Slot[call[d].req]] = [state |-> "pending", req |-> call[d].req]
          /\ call[d].pc = "reserved" => forwards[Slot[call[d].req]] = 0
          /\ \A e \in Calls \ {d} : Holding(e) => Slot[call[e].req] # Slot[call[d].req]
      BY DEF IInv, HolderOwns
    <2>2. call'[d].pc = "reserved" => forwards'[Slot[call'[d].req]] = 0
      <3>1. CASE d = c
        BY <1>3, <3>1
      <3>2. CASE d # c
        <4>1. Slot[call[d].req] # Slot[q] /\ Slot[call[d].req] \in Slots
          BY <1>0, <2>1, <3>2, CallFields, HoldingIsBusy
        <4> QED
          BY <1>3, <2>1, <3>2, <4>1
      <3> QED
        BY <3>1, <3>2
    <2> QED
      BY <1>1, <1>4, <2>1, <2>2
  <1>6. Lasting(q) => forwards[Slot[q]] = 0 /\ record[Slot[q]] # NoRecord
    <2> SUFFICES ASSUME Lasting(q) PROVE forwards[Slot[q]] = 0 /\ record[Slot[q]] # NoRecord
      OBVIOUS
    <2>1. /\ record[Slot[q]] = [state |-> "pending", req |-> q]
          /\ call[c].pc = "reserved" => forwards[Slot[q]] = 0
      BY <1>0 DEF IInv, HolderOwns
    <2>2. call[c].pc = "reserved"
      BY DEF Forward
    <2> QED
      BY <2>1, <2>2 DEF NoRecord
  <1>7. FreshIsUnused'
    BY <1>1, <1>3, <1>6 DEF IInv, FreshIsUnused, Lasting
  <1>8. ForwardedOnce'
    <2> SUFFICES ASSUME NEW s \in Slots \ expired PROVE forwards'[s] <= 1
      BY <1>1 DEF ForwardedOnce
    <2>1. CASE s = Slot[q]
      <3>1. forwards[Slot[q]] = 0
        BY <1>6, <2>1 DEF Lasting
      <3> QED
        BY <1>3, <2>1, <3>1, SMT
    <2>2. CASE s # Slot[q]
      BY <1>3, <2>2 DEF IInv, ForwardedOnce
    <2> QED
      BY <2>1, <2>2
  <1>9. ToldIsStored'
    BY <1>1 DEF IInv, ToldIsStored, Lasting
  <1> QED
    BY <1>2, <1>5, <1>7, <1>8, <1>9 DEF IInv

\* The answer changes nothing but the call.
LEMMA AnswerIInv ==
    ASSUME IInv, NEW c \in Calls, NEW a \in Responses, Answer(c, a)
    PROVE  IInv'
  <1> DEFINE q == call[c].req
             answered == [pc |-> "answered", req |-> q, answer |-> a]
  <1>0. TypeOK /\ q \in Requests /\ Holding(c)
    BY CallFields DEF IInv, Answer, Free, Holding
  <1>1. /\ call' = [call EXCEPT ![c] = answered]
        /\ UNCHANGED <<record, sends, told, forwards, expired>>
    BY DEF Answer
  <1>2. TypeOK'
    BY <1>0, <1>1 DEF TypeOK, CallStates
  <1>3. call'[c] = answered /\ \A d \in Calls \ {c} : call'[d] = call[d]
    BY <1>0, <1>1 DEF TypeOK
  <1>4. \A d \in Calls : /\ Holding(d)' <=> Holding(d)
                         /\ call'[d].req = call[d].req
                         /\ call'[d].pc = "reserved" => call[d].pc = "reserved"
    BY <1>0, <1>3 DEF Holding
  <1>5. HolderOwns'
    BY <1>1, <1>4 DEF IInv, HolderOwns, Lasting
  <1>6. FreshIsUnused' /\ ToldIsStored' /\ ForwardedOnce'
    BY <1>1 DEF IInv, FreshIsUnused, ToldIsStored, ForwardedOnce, Lasting
  <1> QED
    BY <1>2, <1>5, <1>6 DEF IInv

\* A record that lasts is the holder's own, so nothing else was told.
LEMMA FinalizeIInv ==
    ASSUME IInv, NEW c \in Calls, Finalize(c)
    PROVE  IInv'
  <1> DEFINE q == call[c].req
             a == call[c].answer
             stored == [state |-> "done", req |-> q, answer |-> a]
  <1>0. TypeOK /\ q \in Requests /\ Slot[q] \in Slots /\ a \in Responses /\ Holding(c)
    BY CallFields DEF IInv, Finalize, Free, Holding
  <1>1. /\ record' = [record EXCEPT ![Slot[q]] = stored]
        /\ told' = told \cup {<<q, a>>}
        /\ call' = [call EXCEPT ![c] = Free]
        /\ UNCHANGED <<sends, forwards, expired>>
    BY DEF Finalize, Release
  <1>2. TypeOK'
    <2>1. stored \in Records /\ Free \in CallStates /\ <<q, a>> \in Requests \X Responses
      BY <1>0 DEF Records, CallStates
    <2> QED
      BY <1>0, <1>1, <2>1 DEF TypeOK
  <1>3. /\ record'[Slot[q]] = stored
        /\ \A s \in Slots \ {Slot[q]} : record'[s] = record[s]
        /\ ~Holding(c)'
        /\ \A d \in Calls \ {c} : call'[d] = call[d]
    BY <1>0, <1>1 DEF TypeOK, Holding, Free
  <1>4. HolderOwns'
    <2> SUFFICES ASSUME NEW d \in Calls, Holding(d)', Lasting(call[d].req)'
                 PROVE  /\ record'[Slot[call'[d].req]] = [state |-> "pending", req |-> call'[d].req]
                        /\ call'[d].pc = "reserved" => forwards'[Slot[call'[d].req]] = 0
                        /\ \A e \in Calls \ {d} : Holding(e)' => Slot[call'[e].req] # Slot[call'[d].req]
      BY DEF HolderOwns
    <2>1. d # c /\ call'[d] = call[d] /\ Holding(d) /\ Lasting(call[d].req)
      BY <1>1, <1>3 DEF Holding, Lasting
    <2>2. /\ record[Slot[call[d].req]] = [state |-> "pending", req |-> call[d].req]
          /\ call[d].pc = "reserved" => forwards[Slot[call[d].req]] = 0
          /\ \A e \in Calls \ {d} : Holding(e) => Slot[call[e].req] # Slot[call[d].req]
      BY <2>1 DEF IInv, HolderOwns
    <2>3. Slot[call[d].req] \in Slots \ {Slot[q]}
      BY <1>0, <2>1, <2>2, CallFields, HoldingIsBusy
    <2>4. \A e \in Calls : Holding(e)' => Holding(e) /\ call'[e] = call[e]
      BY <1>3 DEF Holding
    <2> QED
      BY <1>1, <1>3, <2>1, <2>2, <2>3, <2>4
  <1>5. FreshIsUnused' /\ ForwardedOnce'
    BY <1>1, <1>3 DEF IInv, FreshIsUnused, ForwardedOnce, NoRecord
  <1>6. ToldIsStored'
    <2> SUFFICES ASSUME NEW t \in told', Lasting(t[1])'
                 PROVE  record'[Slot[t[1]]] = [state |-> "done", req |-> t[1], answer |-> t[2]]
      BY DEF ToldIsStored
    <2>1. CASE t = <<q, a>>
      BY <1>3, <2>1
    <2>2. CASE t \in told
      <3>1. record[Slot[t[1]]] = [state |-> "done", req |-> t[1], answer |-> t[2]]
        BY <1>1, <2>2 DEF IInv, ToldIsStored, Lasting
      <3>2. Slot[t[1]] # Slot[q]
        <4>1. SUFFICES ASSUME Slot[t[1]] = Slot[q] PROVE FALSE
          OBVIOUS
        <4>2. record[Slot[q]] = [state |-> "pending", req |-> q]
          BY <1>0, <1>1, <4>1 DEF IInv, HolderOwns, Lasting
        <4> QED
          BY <3>1, <4>1, <4>2
      <3>3. Slot[t[1]] \in Slots
        BY <1>0, <2>2, GatewayAssumption DEF TypeOK
      <3> QED
        BY <1>3, <3>1, <3>2, <3>3
    <2> QED
      BY <1>1, <2>1, <2>2
  <1> QED
    BY <1>2, <1>4, <1>5, <1>6 DEF IInv

\* A failed call leaves the record behind.
LEMMA FailIInv ==
    ASSUME IInv, NEW c \in Calls, Fail(c)
    PROVE  IInv'
  <1>1. Free \in CallStates /\ Free.pc = "free" /\ sends' \in [Requests -> Nat]
    BY DEF IInv, TypeOK, CallStates, Free, Fail
  <1> QED
    BY <1>1, LeaveIInv DEF Fail, Release

\* What is claimed of unexpired slots is not claimed of this one any more.
LEMMA ExpireIInv ==
    ASSUME IInv, NEW s \in Slots, Expire(s)
    PROVE  IInv'
  <1>1. /\ record' = [record EXCEPT ![s] = NoRecord]
        /\ expired' = expired \cup {s}
        /\ UNCHANGED <<call, sends, told, forwards>>
    BY DEF Expire
  <1>2. TypeOK'
    BY <1>1 DEF IInv, TypeOK, Records
  <1>3. \A u \in Slots \ expired' : u \in Slots \ expired /\ record'[u] = record[u]
    BY <1>1 DEF IInv, TypeOK
  <1>4. \A q \in Requests : Lasting(q)' => Lasting(q) /\ Slot[q] \in Slots \ expired'
    BY <1>1, GatewayAssumption DEF Lasting
  <1>5. HolderOwns'
    <2> SUFFICES ASSUME NEW d \in Calls, Holding(d)', Lasting(call[d].req)'
                 PROVE  /\ record'[Slot[call'[d].req]] = [state |-> "pending", req |-> call'[d].req]
                        /\ call'[d].pc = "reserved" => forwards'[Slot[call'[d].req]] = 0
                        /\ \A e \in Calls \ {d} : Holding(e)' => Slot[call'[e].req] # Slot[call'[d].req]
      BY DEF HolderOwns
    <2>1. call'[d] = call[d] /\ Holding(d) /\ call[d].req \in Requests
      BY <1>1, CallFields, HoldingIsBusy DEF IInv, Holding
    <2> QED
      BY <1>1, <1>3, <1>4, <2>1 DEF IInv, HolderOwns, Holding
  <1>6. FreshIsUnused' /\ ForwardedOnce'
    BY <1>1, <1>3 DEF IInv, FreshIsUnused, ForwardedOnce
  <1>7. ToldIsStored'
    <2> SUFFICES ASSUME NEW t \in told, Lasting(t[1])'
                 PROVE  record'[Slot[t[1]]] = [state |-> "done", req |-> t[1], answer |-> t[2]]
      BY <1>1 DEF ToldIsStored
    <2>1. t[1] \in Requests
      BY DEF IInv, TypeOK
    <2> QED
      BY <1>3, <1>4, <2>1 DEF IInv, ToldIsStored
  <1> QED
    BY <1>2, <1>5, <1>6, <1>7 DEF IInv

-----------------------------------------------------------------------------
(* The theorems.                                                           *)

\* No step breaks the inductive invariant.
LEMMA NextIInv == IInv /\ [Next]_gatewayVars => IInv'
  <1> SUFFICES ASSUME IInv, [Next]_gatewayVars PROVE IInv'
    OBVIOUS
  <1>1. ASSUME NEW c \in Calls, NEW q \in Requests, Ask(c, q) PROVE IInv'
    BY <1>1, AskIInv
  <1>2. ASSUME NEW c \in Calls, Reserve(c) \/ Forward(c) \/ Finalize(c) \/ Fail(c) PROVE IInv'
    BY <1>2, ReserveIInv, ForwardIInv, FinalizeIInv, FailIInv
  <1>3. ASSUME NEW c \in Calls, NEW a \in Responses, Answer(c, a) PROVE IInv'
    BY <1>3, AnswerIInv
  <1>4. ASSUME NEW s \in Slots, Expire(s) PROVE IInv'
    BY <1>4, ExpireIInv
  <1>5. CASE UNCHANGED gatewayVars
    BY <1>5 DEF gatewayVars, IInv, TypeOK, HolderOwns, Holding, Lasting,
                FreshIsUnused, ToldIsStored, ForwardedOnce
  <1> QED
    BY <1>1, <1>2, <1>3, <1>4, <1>5 DEF Next

\* The inductive invariant holds in every state.
LEMMA GatewayInvariant == Spec => []IInv
  BY InitIInv, NextIInv, PTL DEF Spec

\* The gateway's variables keep their types.
THEOREM GatewayTypeCorrect == Spec => []TypeOK
  <1>1. IInv => TypeOK
    BY DEF IInv
  <1> QED
    BY <1>1, GatewayInvariant, PTL

\* While its record lasts a request is forwarded at most once, for any number
\* of calls and retries (reserve's SET NX, and no code that takes it back).
THEOREM GatewayForwardsOnce == Spec => []ForwardedOnce
  <1>1. IInv => ForwardedOnce
    BY DEF IInv
  <1> QED
    BY <1>1, GatewayInvariant, PTL

\* Two answers of one slot are both what its record holds.
LEMMA IInvAnswersAgree == IInv => AnswersAgree
  <1> SUFFICES ASSUME IInv, NEW t \in told, NEW u \in told,
                      Slot[t[1]] = Slot[u[1]], Lasting(t[1])
               PROVE  t = u
    BY DEF AnswersAgree, Lasting
  <1>1. /\ record[Slot[t[1]]] = [state |-> "done", req |-> t[1], answer |-> t[2]]
        /\ record[Slot[t[1]]] = [state |-> "done", req |-> u[1], answer |-> u[2]]
    BY DEF IInv, ToldIsStored, Lasting
  <1>2. t[1] = u[1] /\ t[2] = u[2]
    BY <1>1
  <1>3. t \in Requests \X Responses /\ u \in Requests \X Responses
    BY DEF IInv, TypeOK
  <1> QED
    BY <1>2, <1>3

\* While its record lasts all answers under one key are the same answer to
\* the same body (reqHash, finalize and the replay of already_done).
THEOREM GatewayAnswersAgree == Spec => []AnswersAgree
  BY IInvAnswersAgree, GatewayInvariant, PTL

-----------------------------------------------------------------------------
(* What a step of inventory-svc does, as far as requests are concerned.    *)

\* Before its COMMIT a handler may still apply its request.
Open == {"checked", "moving", "writing"}

SystemTypes ==
    /\ applied \in [Requests -> Nat]
    /\ handler \in [Handlers -> Inv!HandlerStates]
    /\ cache \subseteq [req : Requests, answer : Inv!Answers]
    /\ link \in [Handlers -> Calls \cup {NoCall}]

\* A handler goes on with its request, refuses it, or ends.
Moves(h, s) ==
    /\ handler[h].pc \in Open \cup {"replaying"}
    /\ s = Inv!Idle \/ (s.req = handler[h].req /\ handler[h].pc \in Open)
    /\ s.pc \in Open \cup {"idle"} \/ (s.pc = "responding" /\ s.answer = "refused")
    /\ UNCHANGED <<applied, cache>>

Commits(h, s) ==
    /\ handler[h].pc = "writing"
    /\ s = [pc |-> "responding", req |-> handler[h].req, answer |-> "done"]
    /\ applied' = [applied EXCEPT ![handler[h].req] = @ + 1]
    /\ UNCHANGED cache

Responds(h, s) ==
    /\ handler[h].pc = "responding"
    /\ s = Inv!Idle
    /\ cache' \subseteq cache \cup {[req |-> handler[h].req, answer |-> handler[h].answer]}
    /\ UNCHANGED applied

\* What a busy handler works on.
LEMMA HandlerFields ==
    ASSUME SystemTypes, NEW h \in Handlers, handler[h].pc # "idle"
    PROVE  /\ handler[h].req \in Requests
           /\ handler[h].pc \in Open \cup {"responding", "replaying"}
           /\ handler[h].pc \in {"responding", "replaying"} => handler[h].answer \in Inv!Answers
  BY DEF SystemTypes, Inv!HandlerStates, Inv!Idle, Open

LEMMA ServeEffect ==
    ASSUME SystemTypes, NEW h \in Handlers, Inv!Serve(h)
    PROVE  \E s \in Inv!HandlerStates :
              /\ handler' = [handler EXCEPT ![h] = s]
              /\ Moves(h, s) \/ Commits(h, s) \/ Responds(h, s)
  <1> DEFINE q == handler[h].req
             checked(pc) == [pc |-> pc, req |-> q]
             answer(a) == [pc |-> "responding", req |-> q, answer |-> a]
  <1>f. handler[h].pc # "idle" =>
          /\ \A pc \in Open : checked(pc) \in Inv!HandlerStates
          /\ \A a \in {"done", "refused"} : answer(a) \in Inv!HandlerStates
    BY HandlerFields DEF Inv!HandlerStates, Inv!Answers, Open
  <1>i. Inv!Idle \in Inv!HandlerStates /\ Inv!Idle.pc = "idle"
    BY DEF Inv!HandlerStates, Inv!Idle
  <1>1. CASE Inv!NotFound(h) \/ Inv!DeadlockAbort(h) \/ Inv!Rollback(h) \/ Inv!Replay(h)
    <2>1. /\ handler[h].pc \in Open \cup {"replaying"}
          /\ handler' = [handler EXCEPT ![h] = Inv!Idle]
          /\ UNCHANGED <<applied, cache>>
      BY <1>1 DEF Inv!NotFound, Inv!DeadlockAbort, Inv!Deadlocked, Inv!Rollback, Inv!Replay,
                  Inv!Done, Inv!stock, Open
    <2> QED
      BY <2>1, <1>i DEF Moves
  <1>2. CASE Inv!Refuse(h)
    <2>1. /\ handler[h].pc = "checked"
          /\ UNCHANGED <<applied, cache>>
          /\ \/ handler' = [handler EXCEPT ![h] = Inv!Idle]
             \/ handler' = [handler EXCEPT ![h] = answer("refused")]
      BY <1>2 DEF Inv!Refuse, Inv!Done, Inv!Reply, Inv!stock
    <2>2. CASE handler' = [handler EXCEPT ![h] = Inv!Idle]
      BY <2>1, <2>2, <1>i DEF Moves, Open
    <2>3. CASE handler' = [handler EXCEPT ![h] = answer("refused")]
      <3>1. answer("refused") \in Inv!HandlerStates
        BY <1>f, <2>1
      <3>2. Moves(h, answer("refused"))
        BY <2>1 DEF Moves, Open
      <3> QED
        BY <2>3, <3>1, <3>2
    <2> QED
      BY <2>1, <2>2, <2>3
  <1>3. CASE Inv!Lock(h) \/ Inv!LockDestination(h)
    <2>1. /\ handler[h].pc \in Open
          /\ UNCHANGED <<applied, cache>>
          /\ \E pc \in Open : handler' = [handler EXCEPT ![h] = checked(pc)]
      BY <1>3 DEF Inv!Lock, Inv!LockDestination, Inv!Goto, Inv!stock, Open
    <2>2. PICK pc \in Open : handler' = [handler EXCEPT ![h] = checked(pc)]
      BY <2>1
    <2>3. checked(pc) \in Inv!HandlerStates
      BY <1>f, <2>1 DEF Open
    <2>4. Moves(h, checked(pc))
      BY <2>1 DEF Moves, Open
    <2> QED
      BY <2>2, <2>3, <2>4
  <1>4. CASE Inv!Commit(h)
    <2>1. /\ handler[h].pc = "writing"
          /\ handler' = [handler EXCEPT ![h] = answer("done")]
          /\ applied' = [applied EXCEPT ![q] = @ + 1]
          /\ UNCHANGED cache
      BY <1>4 DEF Inv!Commit, Inv!Reply
    <2>2. answer("done") \in Inv!HandlerStates /\ Commits(h, answer("done"))
      BY <1>f, <2>1 DEF Commits
    <2> QED
      BY <2>1, <2>2
  <1>5. CASE Inv!Respond(h)
    <2>1. /\ handler[h].pc = "responding"
          /\ handler' = [handler EXCEPT ![h] = Inv!Idle]
          /\ cache' \subseteq cache \cup {[req |-> q, answer |-> handler[h].answer]}
          /\ UNCHANGED applied
      BY <1>5 DEF Inv!Respond, Inv!Done, Inv!stock
    <2> QED
      BY <2>1, <1>i DEF Responds
  <1> QED
    BY <1>1, <1>2, <1>3, <1>4, <1>5 DEF Inv!Serve, Inv!Proceed

\* A request that arrives is looked up, replayed, or turned away.
LEMMA ArriveEffect ==
    ASSUME SystemTypes, NEW h \in Handlers, NEW q \in Requests, Inv!Arrive(h, q)
    PROVE  \E s \in Inv!HandlerStates :
              /\ handler' = [handler EXCEPT ![h] = s]
              /\ UNCHANGED <<applied, cache>>
              /\ handler[h] = Inv!Idle
              /\ \/ s = Inv!Idle
                 \/ s.pc = "checked" /\ s.req = q
                 \/ /\ s.pc = "replaying" /\ s.req = q
                    /\ [req |-> q, answer |-> s.answer] \in cache
  <1> DEFINE checked == [pc |-> "checked", req |-> q]
             replayed(e) == [pc |-> "replaying", req |-> q, answer |-> e.answer]
  <1>0. UNCHANGED <<applied, cache>> /\ handler[h] = Inv!Idle
    BY DEF Inv!Arrive, Inv!stock
  <1>1. CASE Inv!Goto(h, "checked", q)
    <2>1. /\ handler' = [handler EXCEPT ![h] = checked]
          /\ checked \in Inv!HandlerStates /\ checked.pc = "checked" /\ checked.req = q
      BY <1>1 DEF Inv!Goto, Inv!HandlerStates
    <2> QED
      BY <1>0, <2>1
  <1>2. ASSUME NEW e \in cache, e.req = q, Inv!Reply(h, "replaying", q, e.answer)
        PROVE  \E s \in Inv!HandlerStates :
                  /\ handler' = [handler EXCEPT ![h] = s]
                  /\ s.pc = "replaying" /\ s.req = q
                  /\ [req |-> q, answer |-> s.answer] \in cache
    <2>1. /\ handler' = [handler EXCEPT ![h] = replayed(e)]
          /\ replayed(e).pc = "replaying" /\ replayed(e).req = q
          /\ replayed(e).answer = e.answer
      BY <1>2 DEF Inv!Reply
    <2>2. e = [req |-> q, answer |-> e.answer] /\ e.answer \in Inv!Answers
      BY <1>2 DEF SystemTypes
    <2>3. replayed(e) \in Inv!HandlerStates
      BY <2>2 DEF Inv!HandlerStates
    <2> QED
      BY <2>1, <2>2, <2>3
  <1>3. CASE UNCHANGED handler
    <2>1. handler' = [handler EXCEPT ![h] = Inv!Idle] /\ Inv!Idle \in Inv!HandlerStates
      BY <1>0, <1>3 DEF SystemTypes, Inv!HandlerStates
    <2> QED
      BY <1>0, <2>1
  <1> QED
    BY <1>0, <1>1, <1>2, <1>3 DEF Inv!Arrive

-----------------------------------------------------------------------------
(* Types of the composition, and the gateway's invariants in it.           *)

LEMMA InitSystemTypes == SystemInit => SystemTypes
  BY DEF SystemInit, SystemTypes, Inv!Init, Inv!HandlerStates, Inv!Idle

LEMMA NextSystemTypes ==
    ASSUME IInv, SystemTypes, [SystemNext]_systemVars
    PROVE  SystemTypes'
  <1>1. CASE GatewayStep \/ (\E c \in Calls : GiveUp(c)) \/ UNCHANGED systemVars
    BY <1>1 DEF GatewayStep, GiveUp, Unlink, systemVars, inventoryVars, SystemTypes
  <1>2. ASSUME NEW c \in Calls, NEW h \in Handlers, Post(c, h) PROVE SystemTypes'
    <2>1. /\ Inv!Arrive(h, call[c].req)
          /\ link' \in {link, [link EXCEPT ![h] = c]}
          /\ call[c].req \in Requests
      BY <1>2, CallFields DEF Post, Forward, Free, IInv
    <2>2. PICK s \in Inv!HandlerStates :
              handler' = [handler EXCEPT ![h] = s] /\ UNCHANGED <<applied, cache>>
      BY <2>1, ArriveEffect
    <2> QED
      BY <2>1, <2>2 DEF SystemTypes
  <1>3. ASSUME NEW h \in Handlers, Handle(h) PROVE SystemTypes'
    <2>1. Inv!Serve(h) /\ (link' = link \/ Unlink({h}))
      BY <1>3 DEF Handle
    <2>2. PICK s \in Inv!HandlerStates :
              /\ handler' = [handler EXCEPT ![h] = s]
              /\ Moves(h, s) \/ Commits(h, s) \/ Responds(h, s)
      BY <2>1, ServeEffect
    <2>3. applied' \in [Requests -> Nat]
      <3>1. CASE Commits(h, s)
        <4>1. handler[h].req \in Requests
          BY <3>1, HandlerFields DEF Commits
        <4>2. applied[handler[h].req] + 1 \in Nat
          BY <4>1, SMT DEF SystemTypes
        <4> QED
          BY <3>1, <4>1, <4>2 DEF Commits, SystemTypes
      <3> QED
        BY <2>2, <3>1 DEF Moves, Responds, SystemTypes
    <2>4. cache' \subseteq [req : Requests, answer : Inv!Answers]
      BY <2>2, HandlerFields DEF Moves, Commits, Responds, SystemTypes
    <2>5. link' \in [Handlers -> Calls \cup {NoCall}]
      BY <2>1 DEF Unlink, SystemTypes
    <2> QED
      BY <2>2, <2>3, <2>4, <2>5 DEF SystemTypes
  <1>4. CASE InventoryAlone
    BY <1>4 DEF InventoryAlone, Unlink, SystemTypes, Inv!Crash, Inv!Expire, Inv!Elsewhere,
                Inv!stock, Inv!HandlerStates
  <1> QED
    BY <1>1, <1>2, <1>3, <1>4 DEF SystemNext

\* A step of the system is a step of the gateway, or none.
LEMMA StepIsGatewayStep ==
    ASSUME SystemTypes, [SystemNext]_systemVars
    PROVE  [Next]_gatewayVars
  <1>1. CASE GatewayStep
    BY <1>1 DEF GatewayStep, Next
  <1>2. ASSUME NEW c \in Calls, Forward(c) \/ Fail(c) PROVE Next
    BY <1>2 DEF Next
  <1>3. ASSUME NEW h \in Handlers, Handle(h) PROVE [Next]_gatewayVars
    <2>1. CASE UNCHANGED gatewayVars
      BY <2>1
    <2>2. ASSUME link[h] # NoCall, Fail(link[h]) PROVE Next
      BY <1>2, <2>2 DEF SystemTypes
    <2>3. ASSUME link[h] # NoCall, handler[h].answer = "done", Answer(link[h], handler[h].answer)
          PROVE  Next
      <3>1. handler[h].answer \in Responses
        BY <2>3, AnswersAssumption
      <3> QED
        BY <2>3, <3>1 DEF SystemTypes, Next
    <2> QED
      BY <1>3, <2>1, <2>2, <2>3 DEF Handle
  <1> QED
    BY <1>1, <1>2, <1>3 DEF SystemNext, Post, GiveUp, InventoryAlone, systemVars

\* The invariants of Gateway hold in the system.
LEMMA SystemInvariant == SystemSpec => [](IInv /\ SystemTypes)
  <1>1. SystemInit => IInv /\ SystemTypes
    BY InitIInv, InitSystemTypes DEF SystemInit
  <1>2. IInv /\ SystemTypes /\ [SystemNext]_systemVars => (IInv /\ SystemTypes)'
    BY NextSystemTypes, StepIsGatewayStep, NextIInv
  <1> QED
    BY <1>1, <1>2, PTL DEF SystemSpec

-----------------------------------------------------------------------------
(* inventory-svc behind the gateway still is Inventory, and what is proved *)
(* about Inventory holds in the system.                                    *)

Stock == INSTANCE InventoryProofs

LEMMA StockAssumptions ==
    /\ Stock!RequestsAssumption /\ Stock!StockAssumption
    /\ Stock!BoundsAssumption /\ Stock!SharedAssumption /\ Stock!NoHandlerAssumption
  BY InventoryAssumption
     DEF Inv!RequestsAssumption, Stock!RequestsAssumption,
         Inv!StockRequests, Inv!AdjustRequests, Inv!MoveRequests,
         Stock!StockRequests, Stock!AdjustRequests, Stock!MoveRequests,
         Inv!StockAssumption, Stock!StockAssumption,
         Inv!BoundsAssumption, Stock!BoundsAssumption,
         Inv!SharedAssumption, Stock!SharedAssumption,
         Inv!NoHandlerAssumption, Stock!NoHandlerAssumption

LEMMA SameTypes == Inv!TypeOK <=> Stock!TypeOK
  BY DEF Inv!TypeOK, Stock!TypeOK, Inv!LedgerTypes, Stock!LedgerTypes,
         Inv!HandlerStates, Stock!HandlerStates, Inv!Answers, Stock!Answers,
         Inv!Idle, Stock!Idle

\* A step of the system is a step of inventory-svc, or none.
LEMMA StepIsInventoryStep ==
    ASSUME IInv, [SystemNext]_systemVars
    PROVE  [Inv!Next]_(Inv!vars)
  <1>1. CASE UNCHANGED inventoryVars
    BY <1>1 DEF inventoryVars, Inv!vars
  <1>2. ASSUME NEW c \in Calls, NEW h \in Handlers, Post(c, h) PROVE Inv!Next
    <2>1. Inv!Arrive(h, call[c].req) /\ call[c].req \in Requests
      BY <1>2, CallFields DEF Post, Forward, Free, IInv
    <2> QED
      BY <2>1 DEF Inv!Next
  <1>3. ASSUME NEW h \in Handlers, Handle(h) PROVE Inv!Next
    BY <1>3 DEF Handle, Inv!Next
  <1>4. CASE InventoryAlone
    BY <1>4 DEF InventoryAlone, Inv!Next
  <1> QED
    BY <1>1, <1>2, <1>3, <1>4 DEF SystemNext, GatewayStep, GiveUp, systemVars, inventoryVars

\* What the gateway sends it, late, repeated or not at all, is what
\* inventory-svc expects of its clients: each step of the system is one of
\* Inventory, and stays so when the gateway has given a call up.
THEOREM SystemImplementsInventory == SystemSpec => Inv!Spec
  <1>1. SystemInit => Inv!Init
    BY DEF SystemInit
  <1>2. IInv /\ [SystemNext]_systemVars => [Inv!Next]_(Inv!vars)
    BY StepIsInventoryStep
  <1> QED
    BY <1>1, <1>2, SystemInvariant, PTL DEF SystemSpec, Inv!Spec

LEMMA SameInit == Inv!Init => Stock!Init
  BY DEF Inv!Init, Stock!Init, Inv!LedgerTypes, Stock!LedgerTypes, Inv!Idle, Stock!Idle

LEMMA SameStep == [Inv!Next]_(Inv!vars) => [Stock!Next]_(Stock!vars)
  <1> USE DEF Inv!stock, Stock!stock, Inv!Goto, Stock!Goto, Inv!Reply, Stock!Reply,
              Inv!Done, Stock!Done, Inv!Unlocked, Stock!Unlocked,
              Inv!SameSlot, Stock!SameSlot, Inv!Idle, Stock!Idle
  <1>1. ASSUME NEW h \in Handlers, NEW q \in Requests, Inv!Arrive(h, q)
        PROVE  Stock!Arrive(h, q)
    BY <1>1 DEF Inv!Arrive, Stock!Arrive
  <1>2. ASSUME NEW h \in Handlers, Inv!Serve(h) PROVE Stock!Serve(h)
    <2>1. CASE Inv!NotFound(h)
      BY <2>1 DEF Inv!NotFound, Stock!NotFound, Stock!Serve, Stock!Proceed
    <2>2. CASE Inv!Refuse(h)
      BY <2>2 DEF Inv!Refuse, Stock!Refuse, Stock!Serve, Stock!Proceed, Inv!Enough, Stock!Enough
    <2>3. CASE Inv!Lock(h)
      BY <2>3 DEF Inv!Lock, Stock!Lock, Stock!Serve, Stock!Proceed, Inv!Enough, Stock!Enough
    <2>4. CASE Inv!LockDestination(h)
      BY <2>4 DEF Inv!LockDestination, Stock!LockDestination, Stock!Serve, Stock!Proceed
    <2>5. CASE Inv!DeadlockAbort(h)
      BY <2>5 DEF Inv!DeadlockAbort, Stock!DeadlockAbort, Stock!Serve, Stock!Proceed,
                  Inv!Deadlocked, Stock!Deadlocked
    <2>6. CASE Inv!Commit(h)
      BY <2>6 DEF Inv!Commit, Stock!Commit, Stock!Serve, Stock!Proceed,
                  Inv!LedgerTypes, Stock!LedgerTypes,
                  Inv!AvailableDelta, Stock!AvailableDelta,
                  Inv!ReservedDelta, Stock!ReservedDelta,
                  Inv!LedgerDelta, Stock!LedgerDelta, Inv!OutboxWith, Stock!OutboxWith
    <2>7. CASE Inv!Respond(h)
      BY <2>7 DEF Inv!Respond, Stock!Respond, Stock!Serve, Stock!Proceed
    <2>8. CASE Inv!Replay(h)
      BY <2>8 DEF Inv!Replay, Stock!Replay, Stock!Serve, Stock!Proceed
    <2>9. CASE Inv!Rollback(h)
      BY <2>9 DEF Inv!Rollback, Stock!Rollback, Stock!Serve
    <2> QED
      BY <1>2, <2>1, <2>2, <2>3, <2>4, <2>5, <2>6, <2>7, <2>8, <2>9
         DEF Inv!Serve, Inv!Proceed
  <1>3. ASSUME NEW e \in cache, Inv!Expire(e) PROVE Stock!Expire(e)
    BY <1>3 DEF Inv!Expire, Stock!Expire
  <1>4. Inv!Crash => Stock!Crash
    BY DEF Inv!Crash, Stock!Crash
  <1>5. ASSUME NEW k \in SharedKeys, Inv!Elsewhere(k) PROVE Stock!Elsewhere(k)
    BY <1>5 DEF Inv!Elsewhere, Stock!Elsewhere
  <1>6. UNCHANGED Inv!vars => UNCHANGED Stock!vars
    BY DEF Inv!vars, Stock!vars
  <1> QED
    BY <1>1, <1>2, <1>3, <1>4, <1>5, <1>6 DEF Inv!Next, Stock!Next

LEMMA SystemStock == SystemSpec => []Stock!IInv
  <1>1. Inv!Init => Stock!IInv
    BY StockAssumptions, SameInit, Stock!InitIInv
  <1>2. Stock!IInv /\ [Inv!Next]_(Inv!vars) => Stock!IInv'
    BY StockAssumptions, SameStep, Stock!NextIInv
  <1> QED
    BY <1>1, <1>2, SystemImplementsInventory, PTL DEF Inv!Spec

\* The gateway, inventory-svc and the exchanges between them keep their
\* types, whatever call is given up, answered late or cut off by a crash.
THEOREM SystemTypeCorrect == SystemSpec => []SystemTypeOK
  <1>1. Stock!IInv => Inv!TypeOK
    BY SameTypes, StockAssumptions, Stock!TypeParts DEF Stock!IInv
  <1>2. IInv /\ SystemTypes /\ Inv!TypeOK => SystemTypeOK
    BY DEF IInv, SystemTypes, SystemTypeOK
  <1> QED
    BY <1>1, <1>2, SystemInvariant, SystemStock, PTL

-----------------------------------------------------------------------------
(* Once per key.                                                           *)

IsOpen(h) == handler[h].pc \in Open

\* In an unexpired slot nothing happens before it is forwarded.
UnsentIsUntouched ==
    \A q \in Requests :
        Lasting(q) /\ forwards[Slot[q]] = 0 =>
            /\ applied[q] = 0
            /\ \A h \in Handlers : IsOpen(h) => Slot[handler[h].req] # Slot[q]

\* An open handler is the only one of an unexpired slot, and the first.
OpenIsFirst ==
    \A h \in Handlers :
        IsOpen(h) /\ Lasting(handler[h].req) =>
            /\ \A r \in Requests : Slot[r] = Slot[handler[h].req] => applied[r] = 0
            /\ \A g \in Handlers \ {h} :
                  IsOpen(g) => Slot[handler[g].req] # Slot[handler[h].req]

OnceInv == UnsentIsUntouched /\ OpenIsFirst /\ AppliedOnce

\* Steps that open no handler, apply nothing, and let slots only grow older.
LEMMA QuietOnceInv ==
    ASSUME OnceInv, IInv, SystemTypes, UNCHANGED applied,
           \A h \in Handlers : IsOpen(h)' => IsOpen(h) /\ handler'[h].req = handler[h].req,
           \A q \in Requests : Lasting(q)' =>
               Lasting(q) /\ (forwards'[Slot[q]] = 0 => forwards[Slot[q]] = 0)
    PROVE  OnceInv'
  <1>1. UnsentIsUntouched'
    BY DEF OnceInv, UnsentIsUntouched
  <1>2. OpenIsFirst'
    <2> SUFFICES ASSUME NEW h \in Handlers, IsOpen(h)', Lasting(handler[h].req)'
                 PROVE  /\ \A r \in Requests : Slot[r] = Slot[handler'[h].req] => applied'[r] = 0
                        /\ \A g \in Handlers \ {h} :
                              IsOpen(g)' => Slot[handler'[g].req] # Slot[handler'[h].req]
      BY DEF OpenIsFirst
    <2>1. IsOpen(h) /\ handler'[h].req = handler[h].req /\ handler[h].req \in Requests
      BY HandlerFields DEF IsOpen, Open
    <2>2. Lasting(handler[h].req)
      BY <2>1 DEF Lasting
    <2> QED
      BY <2>1, <2>2 DEF OnceInv, OpenIsFirst
  <1>3. AppliedOnce'
    BY DEF OnceInv, AppliedOnce, Lasting
  <1> QED
    BY <1>1, <1>2, <1>3 DEF OnceInv

\* The first request of its slot meets a slot nothing has happened in.
LEMMA PostOnceInv ==
    ASSUME OnceInv, IInv, SystemTypes, NEW c \in Calls, NEW h \in Handlers, Post(c, h)
    PROVE  OnceInv'
  <1> DEFINE q == call[c].req
  <1>0. /\ q \in Requests /\ Slot[q] \in Slots /\ Holding(c)
        /\ Inv!Arrive(h, q) /\ call[c].pc = "reserved"
    BY CallFields DEF Post, Forward, Free, Holding, IInv
  <1>1. PICK s \in Inv!HandlerStates :
              /\ handler' = [handler EXCEPT ![h] = s]
              /\ UNCHANGED <<applied, cache>>
              /\ handler[h] = Inv!Idle
              /\ \/ s = Inv!Idle
                 \/ s.pc = "checked" /\ s.req = q
                 \/ /\ s.pc = "replaying" /\ s.req = q
                    /\ [req |-> q, answer |-> s.answer] \in cache
    BY <1>0, ArriveEffect
  <1>2. handler'[h] = s /\ \A g \in Handlers \ {h} : handler'[g] = handler[g]
    BY <1>1 DEF SystemTypes
  <1>3. /\ UNCHANGED expired
        /\ forwards[Slot[q]] \in Nat
        /\ forwards'[Slot[q]] = forwards[Slot[q]] + 1
        /\ \A u \in Slots \ {Slot[q]} : forwards'[u] = forwards[u]
    BY <1>0 DEF Post, Forward, IInv, TypeOK
  <1>4. /\ forwards'[Slot[q]] # 0
        /\ Lasting(q) => forwards[Slot[q]] = 0
    <2>1. forwards'[Slot[q]] # 0
      BY <1>3, SMT
    <2>2. Lasting(q) => forwards[Slot[q]] = 0
      BY <1>0 DEF IInv, HolderOwns
    <2> QED
      BY <2>1, <2>2
  <1>5. \A p \in Requests : /\ Lasting(p)' <=> Lasting(p)
                            /\ forwards'[Slot[p]] = 0 => Slot[p] # Slot[q]
                                                          /\ forwards[Slot[p]] = 0
    BY <1>3, <1>4, GatewayAssumption DEF Lasting
  <1>6. UnsentIsUntouched'
    <2> SUFFICES ASSUME NEW p \in Requests, Lasting(p), forwards'[Slot[p]] = 0
                 PROVE  /\ applied'[p] = 0
                        /\ \A g \in Handlers : IsOpen(g)' => Slot[handler'[g].req] # Slot[p]
      BY <1>5 DEF UnsentIsUntouched
    <2>1. /\ applied[p] = 0
          /\ \A g \in Handlers : IsOpen(g) => Slot[handler[g].req] # Slot[p]
          /\ Slot[p] # Slot[q]
      BY <1>5 DEF OnceInv, UnsentIsUntouched
    <2>2. ASSUME NEW g \in Handlers, IsOpen(g)' PROVE Slot[handler'[g].req] # Slot[p]
      <3>1. CASE g = h
        BY <1>1, <1>2, <2>1, <2>2, <3>1 DEF IsOpen, Inv!Idle, Open
      <3>2. CASE g # h
        BY <1>2, <2>1, <2>2, <3>2 DEF IsOpen
      <3> QED
        BY <3>1, <3>2
    <2> QED
      BY <1>1, <2>1, <2>2
  <1>7. OpenIsFirst'
    <2> SUFFICES ASSUME NEW g \in Handlers, IsOpen(g)', Lasting(handler[g].req)'
                 PROVE  /\ \A r \in Requests : Slot[r] = Slot[handler'[g].req] => applied'[r] = 0
                        /\ \A k \in Handlers \ {g} :
                              IsOpen(k)' => Slot[handler'[k].req] # Slot[handler'[g].req]
      BY DEF OpenIsFirst
    <2>1. /\ handler'[h].pc \in Open => handler'[h].req = q
          /\ \A k \in Handlers \ {h} : /\ IsOpen(k)' <=> IsOpen(k)
                                        /\ handler'[k].req = handler[k].req
      BY <1>1, <1>2 DEF IsOpen, Inv!Idle, Open
    <2>2. ASSUME Lasting(q)
          PROVE  /\ \A r \in Requests : Slot[r] = Slot[q] => applied[r] = 0
                 /\ \A k \in Handlers : IsOpen(k) => Slot[handler[k].req] # Slot[q]
      BY <1>0, <1>4, <2>2 DEF OnceInv, UnsentIsUntouched, Lasting
    <2>3. CASE g = h
      <3>1. handler'[g].req = q /\ Lasting(q)
        BY <1>3, <2>1, <2>3 DEF IsOpen, Lasting
      <3> QED
        BY <1>1, <2>1, <2>2, <2>3, <3>1
    <2>4. CASE g # h
      <3>1. IsOpen(g) /\ handler'[g].req = handler[g].req /\ Lasting(handler[g].req)
        BY <1>3, <2>1, <2>4 DEF Lasting
      <3>2. /\ \A r \in Requests : Slot[r] = Slot[handler[g].req] => applied[r] = 0
            /\ \A k \in Handlers \ {g} : IsOpen(k) => Slot[handler[k].req] # Slot[handler[g].req]
        BY <3>1 DEF OnceInv, OpenIsFirst
      <3>3. IsOpen(h)' => Slot[handler'[h].req] # Slot[handler[g].req]
        <4> SUFFICES ASSUME IsOpen(h)', Slot[q] = Slot[handler[g].req] PROVE FALSE
          BY <2>1 DEF IsOpen
        <4>1. Lasting(q)
          BY <3>1 DEF Lasting
        <4> QED
          BY <2>2, <3>1, <4>1
      <3> QED
        BY <1>1, <2>1, <3>1, <3>2, <3>3
    <2> QED
      BY <2>3, <2>4
  <1>8. AppliedOnce'
    BY <1>1, <1>3 DEF OnceInv, AppliedOnce
  <1> QED
    BY <1>6, <1>7, <1>8 DEF OnceInv

\* The COMMIT of the only open handler of a slot is the first of its slot.
LEMMA CommitOnceInv ==
    ASSUME OnceInv, IInv, SystemTypes, NEW h \in Handlers, NEW s,
           handler' = [handler EXCEPT ![h] = s], Commits(h, s),
           UNCHANGED <<forwards, expired>>
    PROVE  OnceInv'
  <1> DEFINE q == handler[h].req
  <1>0. q \in Requests /\ IsOpen(h) /\ Slot[q] \in Slots
    BY HandlerFields, GatewayAssumption DEF Commits, IsOpen, Open
  <1>1. /\ handler'[h] = s /\ s.pc = "responding"
        /\ \A g \in Handlers \ {h} : handler'[g] = handler[g]
        /\ applied'[q] = applied[q] + 1
        /\ \A r \in Requests \ {q} : applied'[r] = applied[r]
    BY <1>0 DEF SystemTypes, Commits
  <1>2. \A g \in Handlers : IsOpen(g)' => g # h /\ IsOpen(g) /\ handler'[g].req = handler[g].req
    BY <1>1 DEF IsOpen, Open
  <1>3. \A p \in Requests : Lasting(p)' <=> Lasting(p)
    BY DEF Lasting
  <1>4. ASSUME Lasting(q)
        PROVE  /\ forwards[Slot[q]] # 0
               /\ \A r \in Requests : Slot[r] = Slot[q] => applied[r] = 0
               /\ \A g \in Handlers \ {h} : IsOpen(g) => Slot[handler[g].req] # Slot[q]
    BY <1>0, <1>4 DEF OnceInv, UnsentIsUntouched, OpenIsFirst
  <1>5. UnsentIsUntouched'
    <2> SUFFICES ASSUME NEW p \in Requests, Lasting(p), forwards[Slot[p]] = 0
                 PROVE  /\ applied'[p] = 0
                        /\ \A g \in Handlers : IsOpen(g)' => Slot[handler'[g].req] # Slot[p]
      BY <1>3 DEF UnsentIsUntouched
    <2>1. /\ applied[p] = 0
          /\ \A g \in Handlers : IsOpen(g) => Slot[handler[g].req] # Slot[p]
      BY DEF OnceInv, UnsentIsUntouched
    <2>2. p # q
      BY <1>0, <2>1
    <2> QED
      BY <1>1, <1>2, <2>1, <2>2
  <1>6. OpenIsFirst'
    <2> SUFFICES ASSUME NEW g \in Handlers, IsOpen(g)', Lasting(handler[g].req)'
                 PROVE  /\ \A r \in Requests : Slot[r] = Slot[handler'[g].req] => applied'[r] = 0
                        /\ \A k \in Handlers \ {g} :
                              IsOpen(k)' => Slot[handler'[k].req] # Slot[handler'[g].req]
      BY DEF OpenIsFirst
    <2>1. g # h /\ IsOpen(g) /\ handler'[g].req = handler[g].req /\ Lasting(handler[g].req)
      BY <1>2 DEF Lasting
    <2>2. /\ \A r \in Requests : Slot[r] = Slot[handler[g].req] => applied[r] = 0
          /\ \A k \in Handlers \ {g} : IsOpen(k) => Slot[handler[k].req] # Slot[handler[g].req]
      BY <2>1 DEF OnceInv, OpenIsFirst
    <2>3. Slot[q] # Slot[handler[g].req]
      BY <1>0, <2>1, <2>2
    <2> QED
      BY <1>1, <1>2, <2>1, <2>2, <2>3
  <1>7. AppliedOnce'
    <2> SUFFICES ASSUME NEW p \in Requests, NEW r \in Requests,
                        Slot[p] = Slot[r], Slot[p] \notin expired, applied'[p] > 0
                 PROVE  applied'[p] = 1 /\ (p # r => applied'[r] = 0)
      BY DEF AppliedOnce
    <2>1. CASE Slot[p] = Slot[q]
      <3>1. \A u \in Requests : Slot[u] = Slot[q] => applied[u] = 0
        BY <1>4, <2>1 DEF Lasting
      <3>2. applied'[q] = 1
        BY <1>0, <1>1, <3>1, SMT
      <3>3. \A u \in Requests \ {q} : Slot[u] = Slot[q] => applied'[u] = 0
        BY <1>1, <3>1
      <3>4. p = q
        <4> SUFFICES ASSUME p # q PROVE FALSE
          OBVIOUS
        <4>1. applied'[p] = 0
          BY <2>1, <3>3
        <4> QED
          BY <4>1, SMT
      <3> QED
        BY <2>1, <3>2, <3>3, <3>4
    <2>2. CASE Slot[p] # Slot[q]
      <3>1. applied'[p] = applied[p] /\ applied'[r] = applied[r]
        BY <1>1, <2>2
      <3> QED
        BY <3>1 DEF OnceInv, AppliedOnce
    <2> QED
      BY <2>1, <2>2
  <1> QED
    BY <1>5, <1>6, <1>7 DEF OnceInv

LEMMA InitOnceInv == SystemInit => OnceInv
  <1> SUFFICES ASSUME SystemInit PROVE OnceInv
    OBVIOUS
  <1>1. /\ \A q \in Requests : applied[q] = 0
        /\ \A h \in Handlers : ~IsOpen(h)
    BY DEF SystemInit, Inv!Init, Inv!Idle, IsOpen, Open
  <1>2. ~(0 > 0)
    BY SMT
  <1> QED
    BY <1>1, <1>2 DEF OnceInv, UnsentIsUntouched, OpenIsFirst, AppliedOnce

\* No step breaks the invariant.
LEMMA NextOnceInv ==
    ASSUME OnceInv, IInv, SystemTypes, [SystemNext]_systemVars
    PROVE  OnceInv'
  <1> DEFINE handlersKept ==
               \A h \in Handlers : IsOpen(h)' => IsOpen(h) /\ handler'[h].req = handler[h].req
             slotsAge ==
               \A q \in Requests : Lasting(q)' =>
                   Lasting(q) /\ (forwards'[Slot[q]] = 0 => forwards[Slot[q]] = 0)
  <1>1. ASSUME UNCHANGED <<forwards, expired>> PROVE slotsAge
    BY <1>1 DEF Lasting
  <1>2. ASSUME UNCHANGED handler PROVE handlersKept
    BY <1>2 DEF IsOpen
  <1>3. CASE GatewayStep
    <2>1. UNCHANGED <<applied, handler>>
      BY <1>3 DEF GatewayStep, inventoryVars
    <2>2. slotsAge
      <3>1. UNCHANGED <<forwards, expired>> \/ \E s \in Slots : Expire(s)
        BY <1>3 DEF GatewayStep, Ask, Reserve, Finalize
      <3>2. ASSUME NEW s \in Slots, Expire(s) PROVE slotsAge
        BY <3>2 DEF Expire, Lasting
      <3> QED
        BY <1>1, <3>1, <3>2
    <2>3. handlersKept
      BY <1>2, <2>1
    <2> QED
      BY <2>1, <2>2, <2>3, QuietOnceInv
  <1>4. ASSUME NEW c \in Calls, NEW h \in Handlers, Post(c, h) PROVE OnceInv'
    BY <1>4, PostOnceInv
  <1>5. ASSUME NEW h \in Handlers, Handle(h) PROVE OnceInv'
    <2>1. /\ Inv!Serve(h)
          /\ UNCHANGED <<forwards, expired>>
      BY <1>5 DEF Handle, Answer, Fail, gatewayVars
    <2>2. PICK s \in Inv!HandlerStates :
              /\ handler' = [handler EXCEPT ![h] = s]
              /\ Moves(h, s) \/ Commits(h, s) \/ Responds(h, s)
      BY <2>1, ServeEffect
    <2>3. CASE Commits(h, s)
      BY <2>1, <2>2, <2>3, CommitOnceInv
    <2>4. CASE Moves(h, s) \/ Responds(h, s)
      <3>1. handler'[h] = s /\ \A g \in Handlers \ {h} : handler'[g] = handler[g]
        BY <2>2 DEF SystemTypes
      <3>2. handlersKept
        BY <2>4, <3>1 DEF Moves, Responds, IsOpen, Open, Inv!Idle
      <3>3. UNCHANGED applied
        BY <2>4 DEF Moves, Responds
      <3> QED
        BY <1>1, <2>1, <3>2, <3>3, QuietOnceInv
    <2> QED
      BY <2>2, <2>3, <2>4
  <1>6. ASSUME NEW c \in Calls, GiveUp(c) PROVE OnceInv'
    <2>1. UNCHANGED <<applied, handler, forwards, expired>>
      BY <1>6 DEF GiveUp, Fail, inventoryVars
    <2> QED
      BY <1>1, <1>2, <2>1, QuietOnceInv
  <1>7. CASE InventoryAlone
    <2>1. UNCHANGED <<applied, forwards, expired>>
      BY <1>7 DEF InventoryAlone, Inv!Crash, Inv!Expire, Inv!Elsewhere, Inv!stock, gatewayVars
    <2>2. handlersKept
      BY <1>7 DEF InventoryAlone, Inv!Crash, Inv!Expire, Inv!Elsewhere, IsOpen, Open, Inv!Idle
    <2> QED
      BY <1>1, <2>1, <2>2, QuietOnceInv
  <1>8. CASE UNCHANGED systemVars
    <2>1. UNCHANGED <<applied, handler, forwards, expired>>
      BY <1>8 DEF systemVars, gatewayVars, inventoryVars
    <2> QED
      BY <1>1, <1>2, <2>1, QuietOnceInv
  <1> QED
    BY <1>3, <1>4, <1>5, <1>6, <1>7, <1>8 DEF SystemNext

LEMMA SystemOnce == SystemSpec => []OnceInv
  <1>1. OnceInv /\ IInv /\ SystemTypes /\ [SystemNext]_systemVars => OnceInv'
    BY NextOnceInv
  <1> QED
    BY <1>1, InitOnceInv, SystemInvariant, PTL DEF SystemSpec

\* What is asked under one key happens to the stock at most once while the
\* gateway's record lasts: late handlers, crashes and retries included.
THEOREM SystemAppliesOnce == SystemSpec => []AppliedOnce
  <1>1. OnceInv => AppliedOnce
    BY DEF OnceInv
  <1> QED
    BY <1>1, SystemOnce, PTL

-----------------------------------------------------------------------------
(* A success was committed.                                                *)

\* A success, wherever it is kept on its way to the client.
Backed(q, a)     == a = "done" => applied[q] > 0
BackedThen(q, a) == a = "done" => applied'[q] > 0

\* The handlers a call waits for: at most one, and it works on the call's
\* own request.
LinkedIsForwarding ==
    \A h \in Handlers :
        link[h] # NoCall =>
            /\ call[link[h]].pc = "forwarding" /\ call[link[h]].req = handler[h].req
            /\ handler[h].pc # "idle"
            /\ \A g \in Handlers \ {h} : link[g] # link[h]

StoredIsBacked ==
    /\ \A e \in cache : Backed(e.req, e.answer)
    /\ \A h \in Handlers : handler[h].pc \in {"responding", "replaying"} =>
                              Backed(handler[h].req, handler[h].answer)

GivenIsBacked ==
    /\ \A c \in Calls : call[c].pc = "answered" => Backed(call[c].req, call[c].answer)
    /\ \A s \in Slots : record[s].state = "done" => Backed(record[s].req, record[s].answer)
    /\ \A t \in told : Backed(t[1], t[2])

BackedInv == LinkedIsForwarding /\ StoredIsBacked /\ GivenIsBacked

\* Executions are never taken back.
LEMMA AppliedGrows ==
    ASSUME SystemTypes, NEW h \in Handlers, NEW s,
           Moves(h, s) \/ Commits(h, s) \/ Responds(h, s)
    PROVE  /\ \A q \in Requests : applied[q] > 0 => applied'[q] > 0
           /\ Commits(h, s) => applied'[handler[h].req] > 0
  <1>1. CASE UNCHANGED applied /\ ~Commits(h, s)
    BY <1>1
  <1>2. CASE Commits(h, s)
    <2> DEFINE p == handler[h].req
    <2>1. /\ p \in Requests /\ applied[p] \in Nat
          /\ applied'[p] = applied[p] + 1
          /\ \A r \in Requests \ {p} : applied'[r] = applied[r]
      BY <1>2, HandlerFields DEF SystemTypes, Commits
    <2>2. applied'[p] > 0
      BY ONLY <2>1, SMT
    <2> QED
      BY <2>1, <2>2
  <1> QED
    BY <1>1, <1>2 DEF Moves, Responds

LEMMA InitBackedInv == SystemInit => BackedInv
  BY DEF SystemInit, Init, Inv!Init, Inv!Idle, BackedInv, LinkedIsForwarding, StoredIsBacked,
         GivenIsBacked, Free, NoRecord

\* What the gateway keeps stays backed when a step adds nothing unbacked.
LEMMA GivenStays ==
    ASSUME IInv, GivenIsBacked, UNCHANGED <<record, told>>,
           \A q \in Requests : applied[q] > 0 => applied'[q] > 0,
           \A c \in Calls : call'[c].pc = "answered" =>
               \/ call'[c] = call[c]
               \/ BackedThen(call'[c].req, call'[c].answer)
    PROVE  GivenIsBacked'
  <1>1. \A c \in Calls : call[c].pc = "answered" => call[c].req \in Requests
    BY CallFields DEF IInv, Free
  <1>2. \A s \in Slots : record[s].state = "done" => record[s].req \in Requests
    BY DEF IInv, TypeOK, Records, NoRecord
  <1>3. \A t \in told : t[1] \in Requests
    BY DEF IInv, TypeOK
  <1>4. \A c \in Calls : call'[c].pc = "answered" => BackedThen(call'[c].req, call'[c].answer)
    BY <1>1 DEF GivenIsBacked, Backed, BackedThen
  <1>5. \A s \in Slots : record[s].state = "done" => BackedThen(record[s].req, record[s].answer)
    BY <1>2 DEF GivenIsBacked, Backed, BackedThen
  <1>6. \A t \in told : BackedThen(t[1], t[2])
    BY <1>3 DEF GivenIsBacked, Backed, BackedThen
  <1> QED
    BY <1>4, <1>5, <1>6 DEF GivenIsBacked, Backed, BackedThen

\* The gateway stores and hands out what the call has.
LEMMA GatewayStepBacked ==
    ASSUME IInv, SystemTypes, BackedInv, GatewayStep
    PROVE  BackedInv'
  <1>0. UNCHANGED <<applied, cache, handler, link>>
    BY DEF GatewayStep, inventoryVars
  <1>1. StoredIsBacked'
    BY <1>0 DEF BackedInv, StoredIsBacked, Backed
  <1>2. ASSUME \A c \in Calls : call[c].pc = "forwarding" => call'[c] = call[c]
        PROVE  LinkedIsForwarding'
    BY <1>0, <1>2 DEF BackedInv, LinkedIsForwarding, SystemTypes
  <1>3. ASSUME NEW c \in Calls, NEW q \in Requests, Ask(c, q) PROVE BackedInv'
    <2>1. /\ \A d \in Calls : call'[d] = call[d] \/ (d = c /\ call'[d].pc = "unseen")
          /\ call[c] = Free /\ UNCHANGED record
      BY <1>3 DEF Ask, IInv, TypeOK
    <2>2. LinkedIsForwarding'
      BY <1>2, <2>1 DEF Free
    <2>3. \/ UNCHANGED told
          \/ /\ record[Slot[q]].state = "done" /\ record[Slot[q]].req = q
             /\ told' = told \cup {<<q, record[Slot[q]].answer>>}
      BY <1>3 DEF Ask
    <2>4. GivenIsBacked'
      BY <1>0, <2>1, <2>3, GatewayAssumption DEF BackedInv, GivenIsBacked, Backed
    <2> QED
      BY <1>1, <2>2, <2>4 DEF BackedInv
  <1>4. ASSUME NEW c \in Calls, Reserve(c) PROVE BackedInv'
    <2> DEFINE q == call[c].req
    <2>1. /\ \A d \in Calls : call'[d] = call[d]
                               \/ (d = c /\ call'[d].pc \in {"reserved", "free"})
          /\ call[c].pc = "unseen" /\ UNCHANGED told
      BY <1>4 DEF Reserve, CallAt, Release, Free, IInv, TypeOK
    <2>2. LinkedIsForwarding'
      BY <1>2, <2>1
    <2>3. \A s \in Slots : record'[s] = record[s] \/ record'[s].state = "pending"
      BY <1>4 DEF Reserve, IInv, TypeOK
    <2>4. GivenIsBacked'
      BY <1>0, <2>1, <2>3 DEF BackedInv, GivenIsBacked, Backed
    <2> QED
      BY <1>1, <2>2, <2>4 DEF BackedInv
  <1>5. ASSUME NEW c \in Calls, Finalize(c) PROVE BackedInv'
    <2> DEFINE q == call[c].req
               a == call[c].answer
    <2>1. /\ \A d \in Calls : call'[d] = call[d] \/ (d = c /\ call'[d].pc = "free")
          /\ call[c].pc = "answered"
          /\ told' = told \cup {<<q, a>>}
          /\ \A s \in Slots : \/ record'[s] = record[s]
                              \/ record'[s] = [state |-> "done", req |-> q, answer |-> a]
      BY <1>5 DEF Finalize, Release, Free, IInv, TypeOK
    <2>2. LinkedIsForwarding'
      BY <1>2, <2>1
    <2>3. Backed(q, a)
      BY <2>1 DEF BackedInv, GivenIsBacked
    <2>4. GivenIsBacked'
      BY <1>0, <2>1, <2>3 DEF BackedInv, GivenIsBacked, Backed
    <2> QED
      BY <1>1, <2>2, <2>4 DEF BackedInv
  <1>6. ASSUME NEW s \in Slots, Expire(s) PROVE BackedInv'
    <2>1. /\ UNCHANGED <<call, told>>
          /\ \A u \in Slots : record'[u] = record[u] \/ record'[u].state = "none"
      BY <1>6 DEF Expire, NoRecord, IInv, TypeOK
    <2>2. LinkedIsForwarding'
      BY <1>2, <2>1
    <2>3. GivenIsBacked'
      BY <1>0, <2>1 DEF BackedInv, GivenIsBacked, Backed
    <2> QED
      BY <1>1, <2>2, <2>3 DEF BackedInv
  <1> QED
    BY <1>3, <1>4, <1>5, <1>6 DEF GatewayStep

\* The request goes out with its own call as the one that waits.
LEMMA PostBacked ==
    ASSUME IInv, SystemTypes, BackedInv, NEW c \in Calls, NEW h \in Handlers, Post(c, h)
    PROVE  BackedInv'
  <1> DEFINE q == call[c].req
  <1>0. q \in Requests /\ Inv!Arrive(h, q) /\ call[c].pc = "reserved"
    BY CallFields DEF Post, Forward, Free, IInv
  <1>1. PICK s \in Inv!HandlerStates :
              /\ handler' = [handler EXCEPT ![h] = s]
              /\ UNCHANGED <<applied, cache>>
              /\ handler[h] = Inv!Idle
              /\ \/ s = Inv!Idle
                 \/ s.pc = "checked" /\ s.req = q
                 \/ /\ s.pc = "replaying" /\ s.req = q
                    /\ [req |-> q, answer |-> s.answer] \in cache
    BY <1>0, ArriveEffect
  <1>2. handler'[h] = s /\ \A g \in Handlers \ {h} : handler'[g] = handler[g]
    BY <1>1 DEF SystemTypes
  <1>3. /\ call'[c] = [pc |-> "forwarding", req |-> q]
        /\ \A d \in Calls \ {c} : call'[d] = call[d]
        /\ UNCHANGED <<record, told>>
    BY DEF Post, Forward, CallAt, IInv, TypeOK
  <1>4. StoredIsBacked'
    <2>1. ASSUME s.pc = "replaying" PROVE Backed(q, s.answer) /\ s.req = q
      BY <1>1, <2>1 DEF BackedInv, StoredIsBacked, Inv!Idle
    <2>2. s.pc # "responding"
      BY <1>1 DEF Inv!Idle
    <2> QED
      BY <1>1, <1>2, <2>1, <2>2 DEF BackedInv, StoredIsBacked, Backed
  <1>5. GivenIsBacked'
    BY <1>1, <1>3, GivenStays DEF BackedInv
  <1>6. LinkedIsForwarding'
    <2>1. /\ link[h] = NoCall
          /\ \A g \in Handlers : link[g] # c
      BY <1>0, <1>1, NoCallAssumption DEF BackedInv, LinkedIsForwarding, Inv!Idle
    <2>2. CASE s = Inv!Idle
      <3>1. link' = link
        BY <1>2, <2>2 DEF Post
      <3> QED
        BY <1>2, <1>3, <2>1, <3>1 DEF BackedInv, LinkedIsForwarding, SystemTypes
    <2>3. CASE s # Inv!Idle
      <3>1. link' = [link EXCEPT ![h] = c] /\ s.req = q /\ s.pc # "idle"
        BY <1>1, <1>2, <2>3 DEF Post
      <3>2. link'[h] = c /\ \A g \in Handlers \ {h} : link'[g] = link[g]
        BY <3>1 DEF SystemTypes
      <3> QED
        BY <1>2, <1>3, <2>1, <3>1, <3>2, NoCallAssumption
        DEF BackedInv, LinkedIsForwarding, SystemTypes
    <2> QED
      BY <2>2, <2>3
  <1> QED
    BY <1>4, <1>5, <1>6 DEF BackedInv

\* A handler commits before it says so, and says it to its own call.
LEMMA HandleBacked ==
    ASSUME IInv, SystemTypes, BackedInv, NEW h \in Handlers, Handle(h)
    PROVE  BackedInv'
  <1> DEFINE q == handler[h].req
             c == link[h]
  <1>0. Inv!Serve(h)
    BY DEF Handle
  <1>1. PICK s \in Inv!HandlerStates :
              /\ handler' = [handler EXCEPT ![h] = s]
              /\ Moves(h, s) \/ Commits(h, s) \/ Responds(h, s)
    BY <1>0, ServeEffect
  <1>2. /\ handler'[h] = s /\ \A g \in Handlers \ {h} : handler'[g] = handler[g]
        /\ q \in Requests /\ handler[h].pc # "idle"
    BY <1>1, HandlerFields DEF SystemTypes, Moves, Commits, Responds, Open
  <1>3. /\ \A p \in Requests : applied[p] > 0 => applied'[p] > 0
        /\ Commits(h, s) => applied'[q] > 0
    BY <1>1, AppliedGrows
  <1>4. handler[h].pc \in {"responding", "replaying"} => BackedThen(q, handler[h].answer)
    BY <1>2, <1>3 DEF BackedInv, StoredIsBacked, Backed, BackedThen
  <1>5. StoredIsBacked'
    <2>1. ASSUME NEW e \in cache' PROVE BackedThen(e.req, e.answer)
      <3>1. CASE e \in cache
        <4>1. e.req \in Requests /\ Backed(e.req, e.answer)
          BY <3>1 DEF BackedInv, StoredIsBacked, SystemTypes
        <4> QED
          BY <1>3, <4>1 DEF Backed, BackedThen
      <3>2. CASE e \notin cache
        <4>1. /\ handler[h].pc = "responding"
              /\ e = [req |-> q, answer |-> handler[h].answer]
          BY <1>1, <2>1, <3>2 DEF Moves, Commits, Responds
        <4> QED
          BY <1>4, <4>1
      <3> QED
        BY <3>1, <3>2
    <2>2. ASSUME NEW g \in Handlers, handler'[g].pc \in {"responding", "replaying"}
          PROVE  BackedThen(handler'[g].req, handler'[g].answer)
      <3>1. CASE g = h
        BY <1>1, <1>2, <1>3, <2>2, <3>1 DEF Moves, Commits, Responds, BackedThen, Open, Inv!Idle
      <3>2. CASE g # h
        <4>1. handler'[g] = handler[g] /\ handler[g].req \in Requests
          BY <1>2, <2>2, <3>2, HandlerFields
        <4> QED
          BY <1>3, <2>2, <4>1 DEF BackedInv, StoredIsBacked, Backed, BackedThen
      <3> QED
        BY <3>1, <3>2
    <2> QED
      BY <2>1, <2>2 DEF StoredIsBacked, Backed, BackedThen
  <1>6. CASE s # Inv!Idle
    <2>1. UNCHANGED <<gatewayVars, link>> /\ s.req = q /\ s.pc # "idle"
      BY <1>1, <1>2, <1>6 DEF Handle, Moves, Commits, Responds, Open, Inv!HandlerStates, Inv!Idle
    <2>2. UNCHANGED <<record, told, call, link>>
      BY <2>1 DEF gatewayVars
    <2>3. GivenIsBacked'
      BY <1>3, <2>2, GivenStays DEF BackedInv
    <2>4. LinkedIsForwarding'
      BY <1>2, <2>1, <2>2 DEF BackedInv, LinkedIsForwarding
    <2> QED
      BY <1>5, <2>3, <2>4 DEF BackedInv
  <1>7. CASE s = Inv!Idle
    <2>1. link' = [g \in Handlers |-> IF g \in {h} THEN NoCall ELSE link[g]]
      BY <1>2, <1>7 DEF Handle, Unlink
    <2>2. ASSUME \A d \in Calls : d # c => call'[d] = call[d]
          PROVE  LinkedIsForwarding'
      BY <1>2, <2>1, <2>2 DEF BackedInv, LinkedIsForwarding, SystemTypes
    <2>3. CASE UNCHANGED gatewayVars
      <3>1. UNCHANGED <<record, told, call>>
        BY <2>3 DEF gatewayVars
      <3>2. GivenIsBacked'
        BY <1>3, <3>1, GivenStays DEF BackedInv
      <3> QED
        BY <1>5, <2>2, <3>1, <3>2 DEF BackedInv
    <2>4. ASSUME c \in Calls, handler[h].pc \in {"responding", "replaying"},
                 Answer(c, handler[h].answer)
          PROVE  BackedInv'
      <3>1. /\ call'[c] = [pc |-> "answered", req |-> call[c].req, answer |-> handler[h].answer]
            /\ \A d \in Calls : d # c => call'[d] = call[d]
            /\ UNCHANGED <<record, told>>
        BY <2>4 DEF Answer, IInv, TypeOK
      <3>2. call[c].req = q
        BY <2>4, NoCallAssumption DEF BackedInv, LinkedIsForwarding
      <3>3. GivenIsBacked'
        BY <1>3, <1>4, <2>4, <3>1, <3>2, GivenStays DEF BackedInv
      <3> QED
        BY <1>5, <2>2, <3>1, <3>3 DEF BackedInv
    <2>5. ASSUME c \in Calls, Fail(c) PROVE BackedInv'
      <3>1. /\ call'[c] = Free /\ Free.pc = "free"
            /\ \A d \in Calls : d # c => call'[d] = call[d]
            /\ UNCHANGED <<record, told>>
        BY <2>5 DEF Fail, Release, Free, IInv, TypeOK
      <3>2. GivenIsBacked'
        BY <1>3, <3>1, GivenStays DEF BackedInv
      <3> QED
        BY <1>5, <2>2, <3>1, <3>2 DEF BackedInv
    <2> QED
      BY <1>2, <1>7, <2>3, <2>4, <2>5 DEF Handle, SystemTypes
  <1> QED
    BY <1>6, <1>7

\* No step breaks the invariant.
LEMMA NextBackedInv ==
    ASSUME IInv, SystemTypes, BackedInv, [SystemNext]_systemVars
    PROVE  BackedInv'
  <1>1. ASSUME NEW c \in Calls, GiveUp(c) PROVE BackedInv'
    <2>1. /\ UNCHANGED <<applied, cache, handler, record, told>>
          /\ call'[c].pc = "free"
          /\ \A d \in Calls \ {c} : call'[d] = call[d]
          /\ link' = [h \in Handlers |-> IF link[h] = c THEN NoCall ELSE link[h]]
      BY <1>1 DEF GiveUp, Fail, Release, Free, Unlink, inventoryVars, IInv, TypeOK
    <2>2. StoredIsBacked'
      BY <2>1 DEF BackedInv, StoredIsBacked, Backed
    <2>3. GivenIsBacked'
      BY <2>1, GivenStays DEF BackedInv
    <2>4. LinkedIsForwarding'
      BY <2>1 DEF BackedInv, LinkedIsForwarding, SystemTypes
    <2> QED
      BY <2>2, <2>3, <2>4 DEF BackedInv
  <1>2. CASE InventoryAlone
    <2>1. UNCHANGED <<applied, record, told, call>> /\ cache' \subseteq cache
      BY <1>2 DEF InventoryAlone, Inv!Crash, Inv!Expire, Inv!Elsewhere, Inv!stock, gatewayVars
    <2>2. GivenIsBacked'
      BY <2>1, GivenStays DEF BackedInv
    <2>3. CASE Inv!Crash /\ Unlink(Handlers)
      <3>1. \A h \in Handlers : handler'[h].pc = "idle" /\ link'[h] = NoCall
        BY <2>3 DEF Inv!Crash, Inv!Idle, Unlink
      <3> QED
        BY <2>1, <2>2, <3>1 DEF BackedInv, StoredIsBacked, LinkedIsForwarding, Backed
    <2>4. CASE \/ \E e \in cache : Inv!Expire(e) /\ UNCHANGED link
               \/ \E k \in SharedKeys : Inv!Elsewhere(k) /\ UNCHANGED link
      <3>1. UNCHANGED <<handler, link>>
        BY <2>4 DEF Inv!Expire, Inv!Elsewhere
      <3> QED
        BY <2>1, <2>2, <3>1 DEF BackedInv, StoredIsBacked, LinkedIsForwarding, Backed
    <2> QED
      BY <1>2, <2>3, <2>4 DEF InventoryAlone
  <1>3. CASE UNCHANGED systemVars
    BY <1>3 DEF systemVars, gatewayVars, inventoryVars, BackedInv, LinkedIsForwarding,
                StoredIsBacked, GivenIsBacked, Backed
  <1> QED
    BY <1>1, <1>2, <1>3, GatewayStepBacked, PostBacked, HandleBacked DEF SystemNext

LEMMA SystemBacked == SystemSpec => []BackedInv
  <1>1. IInv /\ SystemTypes /\ BackedInv /\ [SystemNext]_systemVars => BackedInv'
    BY NextBackedInv
  <1> QED
    BY <1>1, InitBackedInv, SystemInvariant, PTL DEF SystemSpec

LEMMA BackedIsApplied == BackedInv => SuccessIsApplied
  BY DEF BackedInv, GivenIsBacked, Backed, SuccessIsApplied

\* A client that reads a success had its own request committed, whichever
\* of the two stores the response came from.
THEOREM SystemSuccessIsApplied == SystemSpec => []SuccessIsApplied
  BY BackedIsApplied, SystemBacked, PTL

-----------------------------------------------------------------------------
(* The two together are a KeyedService.                                    *)

Promised == IInv /\ SystemTypes /\ OnceInv /\ BackedInv

\* A commit is the first effect of its slot, or the slot was forgotten.
LEMMA CommitIsApply ==
    ASSUME Promised, Promised', NEW h \in Handlers, NEW s, Commits(h, s),
           UNCHANGED <<told, expired>>
    PROVE  \E q \in Requests : Keyed!Apply(q)
  <1> DEFINE q == handler[h].req
  <1>1. q \in Requests
    BY HandlerFields DEF Promised, Commits
  <1>2. /\ applied' = [applied EXCEPT ![q] = @ + 1]
        /\ \A r \in Requests : applied[r] \in Nat
        /\ applied'[q] = applied[q] + 1
        /\ \A r \in Requests \ {q} : applied'[r] = applied[r]
    BY <1>1 DEF Commits, Promised, SystemTypes
  <1> HIDE DEF q
  <1>3. ASSUME Slot[q] \notin expired, NEW r \in Requests, Slot[r] = Slot[q]
        PROVE  applied[r] = 0
    <2>1. applied'[q] > 0
      BY ONLY <1>1, <1>2, SMT
    <2>2. applied'[q] = 1 /\ (q # r => applied'[r] = 0)
      BY <1>1, <1>3, <2>1 DEF Promised, OnceInv, AppliedOnce
    <2> QED
      BY ONLY <1>1, <1>2, <1>3, <2>2, SMT
  <1> QED
    BY <1>1, <1>2, <1>3 DEF Keyed!Apply, Keyed!Remembered

\* A success told to a client is of an effect, and agrees with the others.
LEMMA ToldIsTell ==
    ASSUME Promised', NEW q \in Requests, NEW a, told' = told \cup {<<q, a>>},
           UNCHANGED <<applied, expired>>
    PROVE  \E b \in Responses : Keyed!Tell(q, b)
  <1>1. a \in Responses /\ a = "done"
    BY AnswersAssumption DEF Promised, IInv, TypeOK
  <1>2. applied[q] > 0
    <2>1. SuccessIsApplied'
      BY BackedIsApplied, PTL DEF Promised
    <2> QED
      BY <1>1, <2>1 DEF SuccessIsApplied
  <1>3. ASSUME Slot[q] \notin expired, NEW t \in told, Slot[t[1]] = Slot[q]
        PROVE  t = <<q, a>>
    <2>1. PICK p \in Requests, b \in Responses : t = <<p, b>>
      BY DEF Promised, IInv, TypeOK
    <2>2. b = "done" /\ p = t[1]
      BY <2>1, AnswersAssumption
    <2>3. AnswersAgree'
      BY IInvAnswersAgree, PTL DEF Promised
    <2> QED
      BY <1>3, <2>1, <2>2, <2>3 DEF AnswersAgree
  <1> QED
    BY <1>1, <1>2, <1>3 DEF Keyed!Tell, Keyed!Remembered

\* Each step of the system is one of KeyedService, or shows nothing of it.
LEMMA StepIsKeyedStep ==
    ASSUME Promised, Promised', [SystemNext]_systemVars
    PROVE  [Keyed!Next]_(Keyed!keyedVars)
  <1> USE DEF Keyed!keyedVars
  <1>1. CASE GatewayStep
    <2>1. UNCHANGED applied
      BY <1>1 DEF GatewayStep, inventoryVars
    <2>2. ASSUME NEW q \in Requests, NEW a, told' = told \cup {<<q, a>>}, UNCHANGED expired
          PROVE  Keyed!Next
      BY <2>1, <2>2, ToldIsTell DEF Keyed!Next
    <2>3. ASSUME NEW c \in Calls, NEW q \in Requests, Ask(c, q)
          PROVE  [Keyed!Next]_(Keyed!keyedVars)
      BY <2>1, <2>2, <2>3 DEF Ask
    <2>4. ASSUME NEW c \in Calls, Reserve(c) PROVE UNCHANGED <<told, expired>>
      BY <2>4 DEF Reserve
    <2>5. ASSUME NEW c \in Calls, Finalize(c) PROVE Keyed!Next
      <3>1. call[c].req \in Requests
        BY <2>5, CallFields DEF Finalize, Free, Promised, IInv
      <3> QED
        BY <2>2, <2>5, <3>1 DEF Finalize
    <2>6. ASSUME NEW s \in Slots, Expire(s) PROVE Keyed!Next
      BY <2>1, <2>6 DEF Expire, Keyed!Next, Keyed!Forget
    <2> QED
      BY <1>1, <2>1, <2>3, <2>4, <2>5, <2>6 DEF GatewayStep
  <1>2. ASSUME NEW c \in Calls, NEW h \in Handlers, Post(c, h)
        PROVE  UNCHANGED <<applied, told, expired>>
    BY <1>2 DEF Post, Forward, Inv!Arrive, Inv!stock
  <1>3. ASSUME NEW h \in Handlers, Handle(h) PROVE [Keyed!Next]_(Keyed!keyedVars)
    <2>1. Inv!Serve(h) /\ UNCHANGED <<told, expired>>
      BY <1>3 DEF Handle, Answer, Fail, gatewayVars
    <2>2. PICK s \in Inv!HandlerStates : Moves(h, s) \/ Commits(h, s) \/ Responds(h, s)
      BY <2>1, ServeEffect DEF Promised
    <2>3. CASE Commits(h, s)
      BY <2>1, <2>3, CommitIsApply DEF Keyed!Next
    <2>4. CASE Moves(h, s) \/ Responds(h, s)
      BY <2>1, <2>4 DEF Moves, Responds
    <2> QED
      BY <2>2, <2>3, <2>4
  <1>4. ASSUME NEW c \in Calls, GiveUp(c) PROVE UNCHANGED <<applied, told, expired>>
    BY <1>4 DEF GiveUp, Fail, inventoryVars
  <1>5. CASE InventoryAlone
    BY <1>5 DEF InventoryAlone, Inv!Crash, Inv!Expire, Inv!Elsewhere, Inv!stock, gatewayVars
  <1>6. CASE UNCHANGED systemVars
    BY <1>6 DEF systemVars, gatewayVars, inventoryVars
  <1> QED
    BY <1>1, <1>2, <1>3, <1>4, <1>5, <1>6 DEF SystemNext

\* The interceptor's record, the middleware's record and the transaction
\* between them, with every crash, timeout and late handler, give a client
\* one effect and one answer per key, the effect first.
THEOREM SystemImplementsKeyedService == SystemSpec => ImplementsKeyedService
  <1>1. SystemInit => Keyed!Init
    BY DEF SystemInit, Init, Inv!Init, Keyed!Init
  <1>2. Promised /\ Promised' /\ [SystemNext]_systemVars => [Keyed!Next]_(Keyed!keyedVars)
    BY StepIsKeyedStep
  <1>3. SystemSpec => []Promised
    BY SystemInvariant, SystemOnce, SystemBacked, PTL DEF Promised
  <1> QED
    BY <1>1, <1>2, <1>3, PTL DEF SystemSpec, ImplementsKeyedService, Keyed!Spec
=============================================================================
