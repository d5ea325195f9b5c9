-------------------------- MODULE FulfilmentProofs --------------------------
(***************************************************************************)
(* Proofs about the choreography, for any workers, any published events    *)
(* and any number of failures: an order's outcome is unique, no  *)
(* order is confirmed without a payment and a shipment, no marked event is *)
(* left without an answer but for the failures that excuse it, and         *)
(* duplicates add no answers.                                              *)
(***************************************************************************)
EXTENDS FulfilmentProperties, FiniteSetTheorems, TLAPS

\* TypeOK's part about the log, the groups, the databases and the DLQs.  A
\* group has pending only what it consumes.
ServersOK ==
    /\ log \in Seq(Events)
    /\ pending \in [Services -> SUBSET DOMAIN log]
    /\ processed \in [Services -> SUBSET Nat]
    /\ shipments \subseteq Orders
    /\ status \in [Orders -> {"PENDING", "CONFIRMED", "CANCELLED"}]
    /\ dlq \subseteq Services \X Events
    /\ \A s \in Services : \A n \in pending[s] : log[n].type \in Consumes(s)

\* And its part about the workers.
WorkersOK ==
    /\ pc \in [Workers -> {"idle", "check", "mark", "apply", "emit", "dlq"}]
    /\ msg \in [Workers -> Nat]
    /\ attempt \in [Workers -> 1..MaxAttempts]
    /\ \A w \in Workers :
          IF pc[w] = "idle" THEN msg[w] = 0
          ELSE msg[w] \in DOMAIN log /\ Event(w).type \in Consumes(w[1])

CountsOK == errors \in 0..MaxErrors /\ restarts \in 0..MaxRestarts

TypeInv == ServersOK /\ WorkersOK /\ CountsOK

\* Events are never taken out of the log, nor changed.
LogGrows ==
    /\ DOMAIN log \subseteq DOMAIN log'
    /\ \A n \in DOMAIN log : log'[n] = log[n]

\* What a step of a handler may do to the servers, and where it may go.
Effect(w) ==
    \/ UNCHANGED servers
    \/ MarkProcessed(w)
    \/ w[1] = "shipping" /\ UpsertShipment(w)
    \/ w[1] = "order" /\ SetStatus(w)
    \/ EmitAnswer(w)
    \/ EmitToDlq(w)
    \/ Redeliver(w)

Move(w) ==
    \/ Finish(w)
    \/ Throw(w)
    \/ /\ \E label \in {"mark", "apply", "emit"} : Goto(w, label)
       /\ UNCHANGED <<msg, attempt>>

LEMMA ServicesAnswer ==
    ASSUME NEW w \in Workers
    PROVE  w[1] \in Services /\ w[1] \in {"payment", "shipping", "order", "messageria"}
BY FulfilmentAssumption DEF Services, Answer

LEMMA AnswerTypes ==
    ASSUME NEW w \in Workers, NEW t \in Consumes(w[1])
    PROVE  Answer[w[1]][t] \in Types
<1>1. w[1] \in DOMAIN Answer
  BY FulfilmentAssumption
<1> QED
  BY <1>1 DEF Types

LEMMA WhatOrderConsumes ==
    Consumes("order") = {"ShipmentCreated", "PaymentFailed"}
BY DEF Consumes, Answer

\* The event of a worker at work.
LEMMA EventOfWorker ==
    ASSUME TypeInv, NEW w \in Workers, pc[w] # "idle"
    PROVE  /\ msg[w] \in DOMAIN log
           /\ Event(w) \in Events
           /\ Event(w).type \in Consumes(w[1])
           /\ Event(w).id \in Nat
           /\ Order(w) \in Orders
<1>1. msg[w] \in DOMAIN log /\ Event(w).type \in Consumes(w[1])
  BY DEF TypeInv, WorkersOK
<1>2. Event(w) \in Events
  BY <1>1 DEF TypeInv, ServersOK, Event
<1> QED
  BY <1>1, <1>2 DEF Events, Order

\* What publishing an event adds to the log, and that it changes nothing else
\* the outcome depends on.
LEMMA AppendAdds ==
    ASSUME TypeInv, NEW e, Appends(e)
    PROVE  /\ UNCHANGED <<processed, dlq, status, shipments>>
           /\ \E k \in Nat :
                 /\ k = Len(log) + 1
                 /\ k \notin DOMAIN log
                 /\ DOMAIN log' = DOMAIN log \cup {k}
                 /\ \A n \in DOMAIN log : log'[n] = log[n]
                 /\ log'[k] = e
<1>1. log' = Append(log, e) /\ UNCHANGED <<processed, dlq, status, shipments>>
  BY DEF Appends
<1>2. log \in Seq(Events)
  BY DEF TypeInv, ServersOK
<1>3. /\ Len(log) + 1 \in Nat
      /\ Len(log) + 1 \notin DOMAIN log
      /\ DOMAIN log' = DOMAIN log \cup {Len(log) + 1}
      /\ \A n \in DOMAIN log : log'[n] = log[n]
      /\ log'[Len(log) + 1] = e
  BY <1>1, <1>2
<1> QED
  BY <1>1, <1>3

LEMMA AppendTypes ==
    ASSUME TypeInv, NEW e \in Events, Appends(e)
    PROVE  ServersOK' /\ LogGrows
<1>0. log \in Seq(Events) /\ pending \in [Services -> SUBSET DOMAIN log]
      /\ \A s \in Services : \A n \in pending[s] : log[n].type \in Consumes(s)
  BY DEF TypeInv, ServersOK
<1>1. log' \in Seq(Events)
  BY <1>0 DEF Appends
<1>2. PICK k \in Nat : /\ k = Len(log) + 1
                       /\ k \notin DOMAIN log
                       /\ DOMAIN log' = DOMAIN log \cup {k}
                       /\ \A n \in DOMAIN log : log'[n] = log[n]
                       /\ log'[k] = e
  BY AppendAdds
<1>3. LogGrows
  BY <1>2 DEF LogGrows
<1>4. pending' = [s \in Services |->
             IF e.type \in Consumes(s) THEN pending[s] \cup {k} ELSE pending[s]]
  BY <1>2 DEF Appends
<1>5. pending' \in [Services -> SUBSET DOMAIN log']
  BY <1>0, <1>2, <1>4
<1>6. ASSUME NEW s \in Services, NEW p \in pending'[s]
      PROVE  log'[p].type \in Consumes(s)
  <2>1. CASE p \in pending[s]
    BY <1>0, <1>2, <2>1
  <2>2. CASE p \notin pending[s]
    <3>1. p = k /\ e.type \in Consumes(s)
      BY <1>4, <1>6, <2>2
    <3>2. log'[p] = e
      BY <1>2, <3>1
    <3> QED
      BY <3>1, <3>2
  <2> QED
    BY <2>1, <2>2
<1> QED
  BY <1>1, <1>3, <1>5, <1>6 DEF Appends, TypeInv, ServersOK

LEMMA FreshIsEvent ==
    ASSUME TypeInv, NEW type \in Types, NEW o \in Orders
    PROVE  /\ Fresh(type, o) \in Events
           /\ Fresh(type, o).type = type
           /\ Fresh(type, o).order = o
<1>1. Len(log) + 1 \in Nat
  BY DEF TypeInv, ServersOK
<1> QED
  BY <1>1 DEF Fresh, Events

LEMMA EffectTypes ==
    ASSUME TypeInv, NEW w \in Workers, pc[w] # "idle", Effect(w)
    PROVE  ServersOK' /\ LogGrows
<1> USE DEF TypeInv, ServersOK
<1>0. /\ w[1] \in Services /\ Event(w) \in Events /\ Event(w).id \in Nat
      /\ Order(w) \in Orders /\ Event(w).type \in Consumes(w[1])
  BY ServicesAnswer, EventOfWorker
<1>1. CASE UNCHANGED servers
  BY <1>1 DEF servers, LogGrows
<1>2. CASE MarkProcessed(w)
  BY <1>0, <1>2 DEF MarkProcessed, LogGrows
<1>3. CASE UpsertShipment(w)
  BY <1>0, <1>3 DEF UpsertShipment, LogGrows
<1>4. CASE w[1] = "order" /\ SetStatus(w)
  <2>1. NewStatus[Event(w).type] \in {"CONFIRMED", "CANCELLED"}
    BY <1>0, <1>4, WhatOrderConsumes DEF NewStatus
  <2> QED
    BY <1>0, <1>4, <2>1 DEF SetStatus, LogGrows
<1>5. CASE EmitAnswer(w)
  <2>1. Answer[w[1]][Event(w).type] \in Types
    BY <1>0, AnswerTypes
  <2>2. Fresh(Answer[w[1]][Event(w).type], Order(w)) \in Events
    BY <1>0, <2>1, FreshIsEvent
  <2> QED
    BY <1>5, <2>2, AppendTypes DEF EmitAnswer
<1>6. CASE EmitToDlq(w)
  BY <1>0, <1>6 DEF EmitToDlq, LogGrows
<1>7. CASE Redeliver(w)
  <2>1. msg[w] \in DOMAIN log /\ log[msg[w]].type \in Consumes(w[1])
    BY EventOfWorker DEF Event
  <2> QED
    BY <1>0, <1>7, <2>1 DEF Redeliver, LogGrows
<1> QED
  BY <1>1, <1>2, <1>3, <1>4, <1>5, <1>6, <1>7 DEF Effect

LEMMA MoveTypes ==
    ASSUME TypeInv, NEW w \in Workers, pc[w] # "idle", Move(w), LogGrows
    PROVE  WorkersOK'
<1> USE FulfilmentAssumption DEF TypeInv, WorkersOK
<1>1. /\ pc' \in [Workers -> {"idle", "check", "mark", "apply", "emit", "dlq"}]
      /\ msg' \in [Workers -> Nat]
      /\ attempt' \in [Workers -> 1..MaxAttempts]
  <2>1. CASE Finish(w)
    BY <2>1 DEF Finish, Goto
  <2>2. CASE Throw(w)
    <3>1. CASE attempt[w] < MaxAttempts
      <4>1. attempt[w] + 1 \in 1..MaxAttempts
        BY <3>1
      <4>2. pc' = [pc EXCEPT ![w] = "mark"] /\ msg' = msg
            /\ attempt' = [attempt EXCEPT ![w] = attempt[w] + 1]
        BY <2>2, <3>1 DEF Throw, Goto
      <4> QED
        BY <4>1, <4>2
    <3>2. CASE ~(attempt[w] < MaxAttempts)
      BY <2>2, <3>2 DEF Throw, Goto
    <3> QED
      BY <3>1, <3>2
  <2>3. CASE (\E label \in {"mark", "apply", "emit"} : Goto(w, label)) /\ UNCHANGED <<msg, attempt>>
    BY <2>3 DEF Goto
  <2> QED
    BY <2>1, <2>2, <2>3 DEF Move
<1>2. ASSUME NEW v \in Workers
      PROVE  \/ pc'[v] = "idle" /\ msg'[v] = 0
             \/ pc'[v] # "idle" /\ pc[v] # "idle" /\ msg'[v] = msg[v]
  BY <1>2 DEF Move, Finish, Throw, Goto
<1>3. ASSUME NEW v \in Workers
      PROVE  IF pc'[v] = "idle" THEN msg'[v] = 0
             ELSE msg'[v] \in DOMAIN log' /\ log'[msg'[v]].type \in Consumes(v[1])
  BY <1>2, <1>3 DEF LogGrows, Event
<1> QED
  BY <1>1, <1>3 DEF Event

\* What another service does: publish an event it answers with.
Publishes(e) ==
    /\ e \in Events
    /\ e.type \in UpstreamTypes
    /\ Caused(e.type, e.order)
    /\ Appends(e)
    /\ UNCHANGED <<worker, errors, restarts>>

LEMMA PublishPublishes ==
    ASSUME TypeInv, NEW type \in UpstreamTypes, NEW o \in Orders, Publish(type, o)
    PROVE  Publishes(Fresh(type, o))
<1>1. type \in Types
  BY DEF Types
<1> QED
  BY <1>1, FreshIsEvent DEF Publish, Publishes

LEMMA PublishAgainPublishes ==
    ASSUME TypeInv, NEW o \in Orders, PublishAgain(o)
    PROVE  \E e : Publishes(e)
<1>1. PICK n \in Emitted("OrderCreated", o) : Appends(log[n])
  BY DEF PublishAgain
<1>2. n \in DOMAIN log /\ log[n] \in Events /\ log[n].type = "OrderCreated"
  BY DEF Emitted, TypeInv, ServersOK
<1>3. Caused(log[n].type, log[n].order)
  BY <1>2 DEF Caused, Cause
<1> QED
  BY <1>1, <1>2, <1>3 DEF Publishes, PublishAgain, UpstreamTypes

LEMMA TypeStep ==
    ASSUME TypeInv, [Next]_vars
    PROVE  TypeInv' /\ LogGrows
<1> USE DEF At
<1>0. ASSUME NEW e, Publishes(e) PROVE TypeInv' /\ LogGrows
  <2>1. ServersOK' /\ LogGrows
    BY <1>0, AppendTypes DEF Publishes
  <2>2. WorkersOK'
    BY <1>0, <2>1 DEF TypeInv, WorkersOK, Publishes, worker, Event, LogGrows
  <2> QED
    BY <1>0, <2>1, <2>2 DEF Publishes, TypeInv, CountsOK
<1>00. ASSUME NEW type \in UpstreamTypes, NEW o \in Orders, Publish(type, o)
       PROVE  TypeInv' /\ LogGrows
  BY <1>0, <1>00, PublishPublishes
<1>01. ASSUME NEW o \in Orders, PublishAgain(o) PROVE TypeInv' /\ LogGrows
  BY <1>0, <1>01, PublishAgainPublishes
<1>1. ASSUME NEW w \in Workers, Receive(w) PROVE TypeInv' /\ LogGrows
  <2>1. PICK n \in pending[w[1]] :
          /\ pending' = [pending EXCEPT ![w[1]] = @ \ {n}]
          /\ msg' = [msg EXCEPT ![w] = n]
    BY <1>1 DEF Receive
  <2>2. w[1] \in Services /\ n \in DOMAIN log /\ n \in Nat /\ log[n].type \in Consumes(w[1])
    BY ServicesAnswer DEF TypeInv, ServersOK
  <2>3. ServersOK' /\ LogGrows
    BY <1>1, <2>1, <2>2 DEF TypeInv, ServersOK, Receive, LogGrows
  <2>4. WorkersOK'
    BY <1>1, <2>1, <2>2 DEF TypeInv, WorkersOK, Receive, Goto, Event
  <2> QED
    BY <1>1, <2>3, <2>4 DEF TypeInv, CountsOK, Receive
<1>2. ASSUME NEW w \in Workers, HandlerStep(w) PROVE TypeInv' /\ LogGrows
  <2>1. pc[w] # "idle"
    BY <1>2 DEF HandlerStep, IsEventProcessed, MarkEventProcessed, CreateShipment, MarkOrder, Emit, SendToDlq
  <2>2. Effect(w)
    BY <1>2 DEF HandlerStep, IsEventProcessed, MarkEventProcessed, CreateShipment, MarkOrder, Emit, SendToDlq, Effect
  <2>3. Move(w)
    BY <1>2 DEF HandlerStep, IsEventProcessed, MarkEventProcessed, CreateShipment, MarkOrder, Emit, SendToDlq, Move
  <2>4. UNCHANGED <<errors, restarts>>
    BY <1>2 DEF HandlerStep, IsEventProcessed, MarkEventProcessed, CreateShipment, MarkOrder, Emit, SendToDlq
  <2> QED
    BY <2>1, <2>2, <2>3, <2>4, EffectTypes, MoveTypes DEF TypeInv, CountsOK
<1>3. ASSUME NEW w \in Workers, CallFails(w) PROVE TypeInv' /\ LogGrows
  <2>1. pc[w] # "idle" /\ Effect(w) /\ Move(w)
    BY <1>3 DEF CallFails, Landed, Effect, Move
  <2>2. CountsOK'
    BY <1>3, FulfilmentAssumption DEF TypeInv, CountsOK, CallFails
  <2> QED
    BY <2>1, <2>2, EffectTypes, MoveTypes DEF TypeInv
<1>4. ASSUME NEW w \in Workers, Crash(w) PROVE TypeInv' /\ LogGrows
  <2>1. pc[w] # "idle" /\ Effect(w) /\ Move(w)
    BY <1>4 DEF Crash, Effect, Move
  <2>2. CountsOK'
    BY <1>4, FulfilmentAssumption DEF TypeInv, CountsOK, Crash
  <2> QED
    BY <2>1, <2>2, EffectTypes, MoveTypes DEF TypeInv
<1>5. ASSUME NEW s \in Services, Rejoin(s) PROVE TypeInv' /\ LogGrows
  <2>1. ServersOK' /\ LogGrows
    BY <1>5 DEF TypeInv, ServersOK, Rejoin, LogGrows
  <2>2. WorkersOK'
    BY <1>5 DEF TypeInv, WorkersOK, Rejoin, worker, Event
  <2>3. CountsOK'
    BY <1>5, FulfilmentAssumption DEF TypeInv, CountsOK, Rejoin
  <2> QED
    BY <2>1, <2>2, <2>3 DEF TypeInv
<1>6. CASE UNCHANGED vars
  BY <1>6 DEF TypeInv, ServersOK, WorkersOK, CountsOK, vars, servers, worker, Event, LogGrows
<1> QED
  BY <1>00, <1>01, <1>1, <1>2, <1>3, <1>4, <1>5, <1>6 DEF Next, ServiceStep

LEMMA TypeInit == Init => TypeInv
BY FulfilmentAssumption DEF Init, TypeInv, ServersOK, WorkersOK, CountsOK

LEMMA TypesInvariant == Spec => []TypeInv
BY TypeInit, TypeStep, PTL DEF Spec

\* Every variable keeps its type, and a worker at work handles an event that
\* its service consumes.
THEOREM FulfilmentTypeCorrect == Spec => []TypeOK
<1>1. TypeInv => TypeOK
  BY DEF TypeInv, ServersOK, WorkersOK, CountsOK, TypeOK
<1> QED
  BY <1>1, TypesInvariant, PTL

-----------------------------------------------------------------------------
\* updateMany's condition on PENDING (markConfirmed, markCancelled): no step
\* takes an order out of CONFIRMED or CANCELLED.
LEMMA StatusKept ==
    ASSUME TypeInv, [Next]_vars, NEW o \in Orders, status[o] # "PENDING"
    PROVE  status'[o] = status[o]
<1>1. status' = status \/ \E w \in Workers : SetStatus(w)
  BY DEF Next, ServiceStep, Publish, PublishAgain, Appends, Receive, HandlerStep, CallFails,
     Crash, Rejoin, vars, servers, IsEventProcessed, MarkEventProcessed, CreateShipment,
     MarkOrder, Emit, SendToDlq, Landed, Redeliver, MarkProcessed, UpsertShipment, EmitAnswer, EmitToDlq
<1> QED
  BY <1>1 DEF SetStatus, TypeInv, ServersOK

-----------------------------------------------------------------------------
(* The steps, by what the outcome of an order depends on.                  *)

\* A worker about to emit after the step was so before it.
Stays(v) == pc'[v] = "emit" => pc[v] = "emit" /\ msg'[v] = msg[v]

OthersStay(w) == \A v \in Workers : v = w \/ Stays(v)

Decides(w) ==
    /\ w[1] = "order"
    /\ pc[w] = "apply"
    /\ SetStatus(w)
    /\ msg'[w] = msg[w]
    /\ OthersStay(w)

Ships(w) ==
    /\ w[1] = "shipping"
    /\ pc[w] = "apply"
    /\ UpsertShipment(w)
    /\ msg'[w] = msg[w]
    /\ OthersStay(w)

Emits(w) ==
    /\ pc[w] = "emit"
    /\ EmitAnswer(w)
    /\ pc'[w] # "emit"
    /\ OthersStay(w)

Quiet ==
    /\ UNCHANGED <<log, status, shipments>>
    /\ \A v \in Workers : Stays(v) \/ v[1] \notin {"shipping", "order"}

LEMMA Shape ==
    ASSUME TypeInv, [Next]_vars
    PROVE  \/ Quiet
           \/ \E w \in Workers : Decides(w) \/ Ships(w) \/ Emits(w)
           \/ \E e : Publishes(e)
<1> USE DEF At
<1>0. pc \in [Workers -> {"idle", "check", "mark", "apply", "emit", "dlq"}] /\ msg \in [Workers -> Nat]
  BY DEF TypeInv, WorkersOK
<1> DEFINE Goal == \/ Quiet
                   \/ \E w \in Workers : Decides(w) \/ Ships(w) \/ Emits(w)
                   \/ \E e : Publishes(e)
<1>00. ASSUME NEW type \in UpstreamTypes, NEW o \in Orders, Publish(type, o) PROVE Goal
  BY <1>00, PublishPublishes
<1>01. ASSUME NEW o \in Orders, PublishAgain(o) PROVE Goal
  BY <1>01, PublishAgainPublishes
<1>1. ASSUME NEW w \in Workers, Receive(w) PROVE Goal
  BY <1>0, <1>1 DEF Receive, Goto, Quiet, Stays
<1>2. ASSUME NEW w \in Workers, HandlerStep(w) PROVE Goal
  <2>1. CASE IsEventProcessed(w)
    BY <1>0, <2>1 DEF IsEventProcessed, Finish, Goto, servers, Quiet, Stays
  <2>2. CASE MarkEventProcessed(w)
    BY <1>0, <2>2 DEF MarkEventProcessed, MarkProcessed, Goto, Quiet, Stays
  <2>3. CASE CreateShipment(w)
    <3>1. Ships(w)
      BY <1>0, <2>3 DEF CreateShipment, Goto, Ships, OthersStay, Stays
    <3> QED
      BY <3>1
  <2>4. CASE MarkOrder(w)
    <3>1. CASE SetStatus(w) /\ Goto(w, "emit") /\ UNCHANGED <<msg, attempt>>
      <4>1. Decides(w)
        BY <1>0, <2>4, <3>1 DEF MarkOrder, Goto, Decides, OthersStay, Stays
      <4> QED
        BY <4>1
    <3>2. CASE Finish(w) /\ UNCHANGED servers
      BY <1>0, <3>2 DEF Finish, Goto, servers, Quiet, Stays
    <3> QED
      BY <2>4, <3>1, <3>2 DEF MarkOrder
  <2>5. CASE Emit(w)
    <3>1. Emits(w)
      BY <1>0, <2>5 DEF Emit, Finish, Goto, Emits, OthersStay, Stays
    <3> QED
      BY <3>1
  <2>6. CASE SendToDlq(w)
    BY <1>0, <2>6 DEF SendToDlq, EmitToDlq, Finish, Goto, Quiet, Stays
  <2> QED
    BY <1>2, <2>1, <2>2, <2>3, <2>4, <2>5, <2>6 DEF HandlerStep
<1>3. ASSUME NEW w \in Workers, CallFails(w) PROVE Goal
  <2>1. pc'[w] # "emit" /\ OthersStay(w)
    BY <1>0, <1>3 DEF CallFails, Throw, Finish, Goto, OthersStay, Stays
  <2>2. pc[w] \in {"mark", "apply", "emit"} => msg'[w] = msg[w]
    BY <1>3 DEF CallFails, Throw, Finish
  <2>3. CASE UNCHANGED servers
    BY <2>1, <2>3 DEF servers, Quiet, OthersStay, Stays
  <2>4. CASE MarkProcessed(w) \/ EmitToDlq(w) \/ Redeliver(w)
    BY <2>1, <2>4 DEF MarkProcessed, EmitToDlq, Redeliver, Quiet, OthersStay, Stays
  <2>5. CASE pc[w] = "apply" /\ w[1] = "shipping" /\ UpsertShipment(w)
    BY <2>1, <2>2, <2>5 DEF Ships
  <2>6. CASE pc[w] = "apply" /\ w[1] = "order" /\ SetStatus(w)
    BY <2>1, <2>2, <2>6 DEF Decides
  <2>7. CASE pc[w] = "emit" /\ EmitAnswer(w)
    BY <2>1, <2>7 DEF Emits
  <2> QED
    BY <1>3, <2>3, <2>4, <2>5, <2>6, <2>7 DEF CallFails, Landed
<1>4. ASSUME NEW w \in Workers, Crash(w) PROVE Goal
  BY <1>0, <1>4 DEF Crash, Finish, Goto, servers, Quiet, Stays
<1>5. ASSUME NEW s \in Services, Rejoin(s) PROVE Goal
  BY <1>5 DEF Rejoin, worker, Quiet, Stays
<1>6. CASE UNCHANGED vars
  BY <1>6 DEF vars, servers, worker, Quiet, Stays
<1> QED
  BY <1>00, <1>01, <1>1, <1>2, <1>3, <1>4, <1>5, <1>6 DEF Next, ServiceStep

LEMMA EmitAdds ==
    ASSUME TypeInv, NEW w \in Workers, Emits(w)
    PROVE  /\ UNCHANGED <<status, shipments>>
           /\ \E k \in Nat :
                 /\ k \notin DOMAIN log
                 /\ DOMAIN log' = DOMAIN log \cup {k}
                 /\ \A n \in DOMAIN log : log'[n] = log[n]
                 /\ log'[k].type = Answer[w[1]][Event(w).type]
                 /\ log'[k].order = Order(w)
<1>1. PICK e : /\ Appends(e)
               /\ e.type = Answer[w[1]][Event(w).type]
               /\ e.order = Order(w)
  BY DEF Emits, EmitAnswer, Fresh
<1>2. PICK k \in Nat : /\ k \notin DOMAIN log
                       /\ DOMAIN log' = DOMAIN log \cup {k}
                       /\ \A n \in DOMAIN log : log'[n] = log[n]
                       /\ log'[k] = e
  BY <1>1, AppendAdds
<1>3. UNCHANGED <<status, shipments>>
  BY <1>1, AppendAdds
<1>4. log'[k].type = Answer[w[1]][Event(w).type] /\ log'[k].order = Order(w)
  BY <1>1, <1>2
<1> QED
  BY <1>2, <1>3, <1>4

-----------------------------------------------------------------------------
\* ConfirmedIsShipped is not inductive: the order service relies on what is in
\* the log, and that on what the shipping service did before it emitted.
Shipped(o) == o \in shipments /\ Emitted("PaymentCaptured", o) # {}

ShipInv ==
    /\ \A n \in DOMAIN log : log[n].type = "ShipmentCreated" => Shipped(log[n].order)
    /\ \A w \in Workers : w[1] = "shipping" /\ pc[w] = "emit" => Order(w) \in shipments
    /\ ConfirmedIsShipped

LEMMA ShippedStays ==
    ASSUME NEW o, Shipped(o), LogGrows, shipments \subseteq shipments'
    PROVE  Shipped(o)'
BY DEF Shipped, Emitted, LogGrows

LEMMA WhoShips ==
    ASSUME NEW w \in Workers, NEW t \in Consumes(w[1]), Answer[w[1]][t] = "ShipmentCreated"
    PROVE  w[1] = "shipping" /\ t = "PaymentCaptured"
<1>1. w[1] \in {"payment", "shipping", "order", "messageria"}
  BY ServicesAnswer
<1> QED
  BY <1>1 DEF Consumes, Answer

LEMMA ShipStep ==
    ASSUME TypeInv, TypeInv', LogGrows, ShipInv, [Next]_vars
    PROVE  ShipInv'
<1>0. \A v \in Workers : pc[v] # "idle" => msg[v] \in DOMAIN log /\ Order(v) = log[msg[v]].order
  BY EventOfWorker DEF Order, Event
<1>1. CASE Quiet
  <2>1. \A o : Shipped(o) => Shipped(o)'
    BY <1>1, ShippedStays DEF Quiet
  <2>2. \A v \in Workers : v[1] = "shipping" /\ pc'[v] = "emit" => pc[v] = "emit" /\ Order(v)' = Order(v)
    BY <1>1 DEF Quiet, Stays, Order, Event
  <2> QED
    BY <1>1, <2>1, <2>2 DEF Quiet, ShipInv, ConfirmedIsShipped, Shipped
<1>2. ASSUME NEW w \in Workers, Decides(w) PROVE ShipInv'
  <2>1. UNCHANGED <<log, shipments>>
    BY <1>2 DEF Decides, SetStatus
  <2>2. \A o : Shipped(o) => Shipped(o)'
    BY <2>1, ShippedStays
  <2>3. \A v \in Workers : v[1] = "shipping" /\ pc'[v] = "emit" => pc[v] = "emit" /\ Order(v)' = Order(v)
    BY <1>2, <2>1 DEF Decides, OthersStay, Stays, Order, Event
  <2>4. ASSUME NEW o \in Orders, status'[o] = "CONFIRMED" PROVE Shipped(o)
    <3>1. CASE status[o] = "CONFIRMED"
      BY <3>1 DEF ShipInv, ConfirmedIsShipped, Shipped
    <3>2. CASE status[o] # "CONFIRMED"
      <4>1. o = Order(w) /\ NewStatus[Event(w).type] = "CONFIRMED"
        BY <1>2, <2>4, <3>2 DEF Decides, SetStatus, TypeInv, ServersOK
      <4>2. Event(w).type \in {"ShipmentCreated", "PaymentFailed"}
        BY <1>2, EventOfWorker, WhatOrderConsumes DEF Decides
      <4>3. Event(w).type = "ShipmentCreated" /\ msg[w] \in DOMAIN log
        BY <1>0, <1>2, <4>1, <4>2 DEF NewStatus, Decides
      <4> QED
        BY <4>1, <4>3 DEF ShipInv, Event, Order
    <3> QED
      BY <3>1, <3>2
  <2>5. ConfirmedIsShipped'
    BY <2>2, <2>4 DEF ConfirmedIsShipped, Shipped
  <2> QED
    BY <2>1, <2>2, <2>3, <2>5 DEF ShipInv
<1>3. ASSUME NEW w \in Workers, Ships(w) PROVE ShipInv'
  <2>1. UNCHANGED <<log, status>> /\ shipments' = shipments \cup {Order(w)}
    BY <1>3 DEF Ships, UpsertShipment
  <2>2. \A o : Shipped(o) => Shipped(o)'
    BY <2>1, ShippedStays
  <2>3. \A v \in Workers : pc'[v] = "emit" => Order(v)' = Order(v) /\ (v = w \/ pc[v] = "emit")
    BY <1>3, <2>1 DEF Ships, OthersStay, Stays, Order, Event
  <2> QED
    BY <2>1, <2>2, <2>3 DEF ShipInv, ConfirmedIsShipped, Shipped
<1>4. ASSUME NEW w \in Workers, Emits(w) PROVE ShipInv'
  <2>0. UNCHANGED <<status, shipments>>
    BY <1>4, EmitAdds
  <2>1. PICK k \in Nat :
           /\ DOMAIN log' = DOMAIN log \cup {k}
           /\ \A n \in DOMAIN log : log'[n] = log[n]
           /\ log'[k].type = Answer[w[1]][Event(w).type]
           /\ log'[k].order = Order(w)
    BY <1>4, EmitAdds
  <2>2. \A o : Shipped(o) => Shipped(o)'
    BY <2>0, ShippedStays
  <2>3. \A v \in Workers : pc'[v] = "emit" => pc[v] = "emit" /\ Order(v)' = Order(v)
    BY <1>0, <1>4, <2>1 DEF Emits, OthersStay, Stays, Order, Event
  <2>4. Answer[w[1]][Event(w).type] = "ShipmentCreated" => Shipped(Order(w))
    <3> SUFFICES ASSUME Answer[w[1]][Event(w).type] = "ShipmentCreated" PROVE Shipped(Order(w))
      OBVIOUS
    <3>1. w[1] = "shipping" /\ Event(w).type = "PaymentCaptured" /\ msg[w] \in DOMAIN log
      BY <1>4, WhoShips, EventOfWorker DEF Emits
    <3>2. msg[w] \in Emitted("PaymentCaptured", Order(w))
      BY <3>1 DEF Emitted, Event, Order
    <3> QED
      BY <1>4, <3>1, <3>2 DEF ShipInv, Shipped, Emits
  <2>5. ASSUME NEW n \in DOMAIN log', log'[n].type = "ShipmentCreated"
        PROVE  Shipped(log[n].order)'
    <3>1. CASE n \in DOMAIN log
      BY <2>1, <2>2, <2>5, <3>1 DEF ShipInv
    <3>2. CASE n \notin DOMAIN log
      BY <2>1, <2>2, <2>4, <2>5, <3>2
    <3> QED
      BY <3>1, <3>2
  <2> QED
    BY <2>0, <2>2, <2>3, <2>5 DEF ShipInv, ConfirmedIsShipped, Shipped
<1>5. ASSUME NEW e, Publishes(e) PROVE ShipInv'
  <2>1. PICK k \in Nat :
           /\ DOMAIN log' = DOMAIN log \cup {k}
           /\ \A n \in DOMAIN log : log'[n] = log[n]
           /\ log'[k].type # "ShipmentCreated"
           /\ UNCHANGED <<status, shipments>>
    BY <1>5, AppendAdds DEF Publishes, UpstreamTypes
  <2>2. \A o : Shipped(o) => Shipped(o)'
    BY <2>1, ShippedStays
  <2>3. \A v \in Workers : pc'[v] = "emit" => pc[v] = "emit" /\ Order(v)' = Order(v)
    BY <1>0, <1>5, <2>1 DEF Publishes, worker, Order, Event
  <2> QED
    BY <2>1, <2>2, <2>3 DEF ShipInv, ConfirmedIsShipped, Shipped
<1> QED
  BY <1>1, <1>2, <1>3, <1>4, <1>5, Shape

LEMMA ShipInvariant == Spec => []ShipInv
<1>1. Init => ShipInv
  <2> SUFFICES ASSUME Init PROVE ShipInv
    OBVIOUS
  <2>1. DOMAIN log = {}
    BY DEF Init
  <2>2. \A o \in Orders : status[o] # "CONFIRMED"
    BY DEF Init
  <2>3. \A w \in Workers : pc[w] # "emit"
    BY DEF Init
  <2> QED
    BY <2>1, <2>2, <2>3 DEF ShipInv, ConfirmedIsShipped
<1>2. TypeInv /\ ShipInv /\ [Next]_vars => ShipInv'
  BY TypeStep, ShipStep
<1> QED
  BY <1>1, <1>2, TypesInvariant, PTL DEF Spec

\* No order is confirmed that was not paid and shipped, whatever is lost,
\* retried, duplicated or skipped between the three services.
THEOREM ConfirmedAreShipped == Spec => []ConfirmedIsShipped
<1>1. ShipInv => ConfirmedIsShipped
  BY DEF ShipInv
<1> QED
  BY <1>1, ShipInvariant, PTL

-----------------------------------------------------------------------------
\* OneOutcome holds because the update that takes an order out of PENDING
\* gives one worker the right to announce it, and emitting uses it up.
Outcomes == {"OrderConfirmed", "OrderCancelled"}
Announced(n, o) == log[n].type \in Outcomes /\ log[n].order = o
Announcing(w, o) == w[1] = "order" /\ pc[w] = "emit" /\ Order(w) = o

\* The outcome that goes with a status.
OutcomeOf == [OrderConfirmed |-> "CONFIRMED", OrderCancelled |-> "CANCELLED"]

OutcomeInv ==
    /\ \A n \in DOMAIN log :
          log[n].type \in Outcomes => status[log[n].order] = OutcomeOf[log[n].type]
    /\ \A o \in Orders : \A m, n \in DOMAIN log :
          Announced(m, o) /\ Announced(n, o) => m = n
    /\ \A w \in Workers : w[1] = "order" /\ pc[w] = "emit" =>
          status[Order(w)] = NewStatus[Event(w).type]
    /\ \A o \in Orders : \A w \in Workers : \A n \in DOMAIN log :
          ~(Announcing(w, o) /\ Announced(n, o))
    /\ \A o \in Orders : \A v, w \in Workers :
          Announcing(v, o) /\ Announcing(w, o) => v = w

LEMMA WhoAnnounces ==
    ASSUME NEW w \in Workers, NEW t \in Consumes(w[1])
    PROVE  /\ Answer[w[1]][t] \in Outcomes => w[1] = "order"
           /\ w[1] = "order" => /\ Answer[w[1]][t] \in Outcomes
                                /\ OutcomeOf[Answer[w[1]][t]] = NewStatus[t]
                                /\ NewStatus[t] # "PENDING"
<1>1. CASE w[1] = "order"
  BY <1>1, WhatOrderConsumes DEF Answer, Outcomes, OutcomeOf, NewStatus
<1>2. CASE w[1] \in {"payment", "shipping", "messageria"}
  BY <1>2 DEF Consumes, Answer, Outcomes
<1> QED
  BY <1>1, <1>2, ServicesAnswer

LEMMA OutcomeStep ==
    ASSUME TypeInv, TypeInv', LogGrows, OutcomeInv, [Next]_vars
    PROVE  OutcomeInv'
<1>0. \A v \in Workers : pc[v] # "idle" => msg[v] \in DOMAIN log /\ Order(v) \in Orders
  BY EventOfWorker
<1>1. CASE Quiet
  <2>1. ASSUME NEW v \in Workers, v[1] = "order", pc'[v] = "emit"
        PROVE  pc[v] = "emit" /\ Event(v)' = Event(v) /\ Order(v)' = Order(v)
    BY <1>1, <2>1 DEF Quiet, Stays, Order, Event
  <2>2. \A n, o : Announced(n, o)' <=> Announced(n, o)
    BY <1>1 DEF Quiet, Announced
  <2>3. \A v \in Workers : \A o : Announcing(v, o)' => Announcing(v, o)
    BY <2>1 DEF Announcing
  <2> QED
    BY <1>1, <2>1, <2>2, <2>3 DEF Quiet, OutcomeInv
<1>2. ASSUME NEW w \in Workers, Ships(w) PROVE OutcomeInv'
  <2>0. UNCHANGED <<log, status>>
    BY <1>2 DEF Ships, UpsertShipment
  <2>1. ASSUME NEW v \in Workers, v[1] = "order", pc'[v] = "emit"
        PROVE  pc[v] = "emit" /\ Event(v)' = Event(v) /\ Order(v)' = Order(v)
    BY <1>2, <2>0, <2>1 DEF Ships, OthersStay, Stays, Order, Event
  <2>2. \A n, o : Announced(n, o)' <=> Announced(n, o)
    BY <2>0 DEF Announced
  <2>3. \A v \in Workers : \A o : Announcing(v, o)' => Announcing(v, o)
    BY <2>1 DEF Announcing
  <2> QED
    BY <2>0, <2>1, <2>2, <2>3 DEF OutcomeInv
<1>3. ASSUME NEW w \in Workers, Decides(w) PROVE OutcomeInv'
  <2> DEFINE q == Order(w)
  <2>0. /\ UNCHANGED log /\ q \in Orders /\ status[q] = "PENDING" /\ w[1] = "order"
        /\ Event(w).type \in Consumes(w[1])
        /\ status' = [status EXCEPT ![q] = NewStatus[Event(w).type]]
        /\ status \in [Orders -> {"PENDING", "CONFIRMED", "CANCELLED"}]
    BY <1>3, EventOfWorker DEF Decides, SetStatus, TypeInv, ServersOK
  \* Nobody has announced the order, nor is about to.
  <2>1. \A n \in DOMAIN log : ~Announced(n, q)
    BY <2>0 DEF OutcomeInv, Announced, Outcomes, OutcomeOf
  <2>2. \A v \in Workers : ~Announcing(v, q)
    <3> SUFFICES ASSUME NEW v \in Workers, Announcing(v, q) PROVE FALSE
      OBVIOUS
    <3>1. status[q] = NewStatus[Event(v).type] /\ Event(v).type \in Consumes(v[1]) /\ v[1] = "order"
      BY EventOfWorker DEF OutcomeInv, Announcing
    <3> QED
      BY <2>0, <3>1, WhoAnnounces
  <2>3. ASSUME NEW v \in Workers, v[1] = "order", pc'[v] = "emit"
        PROVE  /\ v = w \/ pc[v] = "emit"
               /\ Event(v)' = Event(v) /\ Order(v)' = Order(v)
    BY <1>3, <2>0, <2>3 DEF Decides, OthersStay, Stays, Order, Event
  <2>4. \A n, o : Announced(n, o)' <=> Announced(n, o)
    BY <2>0 DEF Announced
  <2>5. \A v \in Workers : \A o : Announcing(v, o)' => Announcing(v, o) \/ (v = w /\ o = q)
    BY <2>3 DEF Announcing
  <2> HIDE DEF q
  <2>6. \A n \in DOMAIN log' : log'[n].type \in Outcomes => status'[log'[n].order] = OutcomeOf[log'[n].type]
    <3> SUFFICES ASSUME NEW n \in DOMAIN log, log[n].type \in Outcomes
                 PROVE  status'[log[n].order] = OutcomeOf[log[n].type]
      BY <2>0
    <3>1. log[n].order # q
      BY <2>1 DEF Announced
    <3>2. log[n].order \in Orders
      <4>1. log[n] \in Events
        BY DEF TypeInv, ServersOK
      <4> QED
        BY <4>1 DEF Events
    <3> QED
      BY <2>0, <3>1, <3>2 DEF OutcomeInv
  <2>7. ASSUME NEW v \in Workers, v[1] = "order", pc'[v] = "emit"
        PROVE  (status[Order(v)] = NewStatus[Event(v).type])'
    <3>1. CASE v = w
      BY <2>0, <2>3, <2>7, <3>1 DEF q
    <3>2. CASE v # w
      <4>1. Order(v) # q /\ Order(v) \in Orders /\ status[Order(v)] = NewStatus[Event(v).type]
        BY <1>0, <2>2, <2>3, <2>7, <3>2 DEF OutcomeInv, Announcing
      <4> QED
        BY <2>0, <2>3, <2>7, <4>1
    <3> QED
      BY <3>1, <3>2
  <2> QED
    BY <2>0, <2>1, <2>2, <2>4, <2>5, <2>6, <2>7 DEF OutcomeInv
<1>4. ASSUME NEW w \in Workers, Emits(w) PROVE OutcomeInv'
  <2> DEFINE q == Order(w)
  <2>00. UNCHANGED status
    BY <1>4, EmitAdds
  <2>0. PICK k \in Nat :
           /\ k \notin DOMAIN log
           /\ DOMAIN log' = DOMAIN log \cup {k}
           /\ \A n \in DOMAIN log : log'[n] = log[n]
           /\ log'[k].type = Answer[w[1]][Event(w).type]
           /\ log'[k].order = q
    BY <1>4, EmitAdds
  <2>1. q \in Orders /\ Event(w).type \in Consumes(w[1])
    BY <1>4, EventOfWorker DEF Emits
  <2>2. ASSUME NEW v \in Workers, pc'[v] = "emit"
        PROVE  v # w /\ pc[v] = "emit" /\ Event(v)' = Event(v) /\ Order(v)' = Order(v)
    BY <1>0, <1>4, <2>0, <2>2 DEF Emits, OthersStay, Stays, Order, Event
  <2>3. log'[k].type \in Outcomes =>
           /\ Announcing(w, q)
           /\ OutcomeOf[log'[k].type] = status[q]
    BY <1>4, <2>0, <2>1, WhoAnnounces DEF Announcing, Emits, OutcomeInv
  <2> HIDE DEF q
  <2>4. \A n \in DOMAIN log : \A o : Announced(n, o)' <=> Announced(n, o)
    BY <2>0 DEF Announced
  <2>5. \A o : Announced(k, o)' => o = q /\ Announcing(w, q)
    BY <2>0, <2>3 DEF Announced
  <2>6. \A v \in Workers : \A o : Announcing(v, o)' => Announcing(v, o) /\ v # w
    BY <2>2 DEF Announcing
  <2>7. \A n \in DOMAIN log' : log'[n].type \in Outcomes => status'[log'[n].order] = OutcomeOf[log'[n].type]
    BY <2>00, <2>0, <2>3 DEF OutcomeInv
  <2>8. \A v \in Workers : v[1] = "order" /\ pc'[v] = "emit" =>
           (status[Order(v)] = NewStatus[Event(v).type])'
    BY <2>00, <2>2 DEF OutcomeInv
  <2>9. ASSUME NEW o \in Orders, NEW m \in DOMAIN log', NEW n \in DOMAIN log',
               Announced(m, o)', Announced(n, o)'
        PROVE  m = n
    BY <2>0, <2>1, <2>4, <2>5, <2>9 DEF OutcomeInv
  <2>10. ASSUME NEW o \in Orders, NEW v \in Workers, NEW n \in DOMAIN log',
                Announcing(v, o)', Announced(n, o)'
         PROVE  FALSE
    BY <2>0, <2>1, <2>4, <2>5, <2>6, <2>10 DEF OutcomeInv
  <2>11. \A o \in Orders : \A u, v \in Workers :
            Announcing(u, o)' /\ Announcing(v, o)' => u = v
    BY <2>6 DEF OutcomeInv
  <2> QED
    BY <2>7, <2>8, <2>9, <2>10, <2>11 DEF OutcomeInv
<1>5. ASSUME NEW e, Publishes(e) PROVE OutcomeInv'
  <2>1. PICK k \in Nat :
           /\ DOMAIN log' = DOMAIN log \cup {k}
           /\ \A n \in DOMAIN log : log'[n] = log[n]
           /\ log'[k].type \notin Outcomes
           /\ UNCHANGED status
    BY <1>5, AppendAdds DEF Publishes, UpstreamTypes, Outcomes
  <2>2. \A n \in DOMAIN log' : \A o : Announced(n, o)' => n \in DOMAIN log /\ Announced(n, o)
    BY <2>1 DEF Announced
  <2>3. \A v \in Workers : pc'[v] = "emit" =>
           pc[v] = "emit" /\ Event(v)' = Event(v) /\ Order(v)' = Order(v)
    BY <1>0, <1>5, <2>1 DEF Publishes, worker, Order, Event
  <2>4. \A v \in Workers : \A o : Announcing(v, o)' => Announcing(v, o)
    BY <2>3 DEF Announcing
  <2> QED
    BY <2>1, <2>2, <2>3, <2>4 DEF OutcomeInv
<1> QED
  BY <1>1, <1>2, <1>3, <1>4, <1>5, Shape

LEMMA AtMostOne ==
    ASSUME NEW S, \A m, n \in S : m = n
    PROVE  Cardinality(S) <= 1
<1>1. CASE S = {}
  BY <1>1, FS_EmptySet
<1>2. CASE S # {}
  <2>1. PICK n \in S : S = {n}
    BY <1>2
  <2>2. Cardinality({n}) = 1
    BY FS_Singleton, Zenon
  <2> QED
    BY <2>1, <2>2
<1> QED
  BY <1>1, <1>2

LEMMA OutcomeInvariant == Spec => []OutcomeInv
<1>1. Init => OutcomeInv
  <2> SUFFICES ASSUME Init PROVE OutcomeInv
    OBVIOUS
  <2>1. DOMAIN log = {}
    BY DEF Init
  <2>2. \A w \in Workers : pc[w] # "emit"
    BY DEF Init
  <2> QED
    BY <2>1, <2>2 DEF OutcomeInv, Announced, Announcing
<1>2. TypeInv /\ OutcomeInv /\ [Next]_vars => OutcomeInv'
  BY TypeStep, OutcomeStep
<1> QED
  BY <1>1, <1>2, TypesInvariant, PTL DEF Spec

\* An order has one outcome, announced once at most, and its row agrees with
\* it: for any number of workers, duplicates, failed calls and restarts.
THEOREM OrdersHaveOneOutcome == Spec => []OneOutcome
<1>1. OutcomeInv => OneOutcome
  <2> SUFFICES ASSUME OutcomeInv, NEW o \in Orders
               PROVE  LET confirmed == Emitted("OrderConfirmed", o)
                          cancelled == Emitted("OrderCancelled", o)
                      IN  /\ Cardinality(confirmed \cup cancelled) <= 1
                          /\ confirmed # {} => status[o] = "CONFIRMED"
                          /\ cancelled # {} => status[o] = "CANCELLED"
    BY DEF OneOutcome
  <2> DEFINE S == Emitted("OrderConfirmed", o) \cup Emitted("OrderCancelled", o)
  <2>1. \A m, n \in S : m = n
    BY DEF OutcomeInv, Emitted, Announced, Outcomes
  <2>2. Cardinality(S) <= 1
    BY <2>1, AtMostOne
  <2>3. /\ Emitted("OrderConfirmed", o) # {} => status[o] = "CONFIRMED"
        /\ Emitted("OrderCancelled", o) # {} => status[o] = "CANCELLED"
    BY DEF OutcomeInv, Emitted, Outcomes, OutcomeOf
  <2> QED
    BY <2>2, <2>3
<1> QED
  BY <1>1, OutcomeInvariant, PTL

-----------------------------------------------------------------------------
(* The refinement of OrderLifecycle.                                       *)

\* What one more event in the log changes of what was emitted.
LEMMA EmittedGrows ==
    ASSUME TypeInv, NEW k, NEW t, NEW q,
           k \notin DOMAIN log, DOMAIN log' = DOMAIN log \cup {k},
           \A n \in DOMAIN log : log'[n] = log[n],
           log'[k].type = t, log'[k].order = q
    PROVE  /\ Emitted(t, q)' = Emitted(t, q) \cup {k}
           /\ \A type, o : type # t \/ o # q => Emitted(type, o)' = Emitted(type, o)
BY DEF Emitted

\* An event that is no outcome changes nothing of what was told.
LEMMA ToldStays ==
    ASSUME \A type \in Outcomes : \A o : Emitted(type, o)' = Emitted(type, o)
    PROVE  Told' = Told
<1>1. \A d \in DOMAIN Telling : Telling[d] \in Outcomes
  BY DEF Telling, Outcomes
<1>2. \A o : \A d \in DOMAIN Telling :
         Cardinality(Emitted(Telling[d], o))' = Cardinality(Emitted(Telling[d], o))
  BY <1>1
<1> QED
  BY <1>2 DEF Told

LEMMA LifecycleInit == Init => Lifecycle!Init
<1> SUFFICES ASSUME Init PROVE Lifecycle!Init
  OBVIOUS
<1>1. \A type, o : Emitted(type, o) = {}
  BY DEF Init, Emitted
<1>2. \A type : Of(type) = {}
  BY <1>1 DEF Of
<1>3. Told = [o \in Orders |-> [d \in Lifecycle!Decisions |-> 0]]
  BY <1>1, FS_EmptySet DEF Told, Telling, Lifecycle!Decisions
<1> QED
  BY <1>2, <1>3 DEF Init, Lifecycle!Init

LEMMA LifecycleStep ==
    ASSUME TypeInv, LogGrows, ShipInv, OutcomeInv, [Next]_vars
    PROVE  [Lifecycle!Next]_Lifecycle!vars
<1> DEFINE Goal == Lifecycle!Next \/ UNCHANGED Lifecycle!vars
<1>0. \A v \in Workers : pc[v] # "idle" =>
         /\ msg[v] \in DOMAIN log /\ Order(v) \in Orders /\ Event(v).type \in Consumes(v[1])
         /\ msg[v] \in Emitted(Event(v).type, Order(v))
  BY EventOfWorker DEF Emitted, Event, Order
<1>1. CASE Quiet
  BY <1>1 DEF Quiet, Lifecycle!vars, Of, Told, Emitted
<1>2. ASSUME NEW w \in Workers, Decides(w) PROVE Goal
  <2> DEFINE q == Order(w)
             d == NewStatus[Event(w).type]
  <2>1. /\ UNCHANGED <<log, shipments>> /\ q \in Orders /\ status[q] = "PENDING"
        /\ status' = [status EXCEPT ![q] = d]
        /\ msg[w] \in DOMAIN log /\ msg[w] \in Emitted(Event(w).type, q)
        /\ Event(w).type \in {"ShipmentCreated", "PaymentFailed"}
    BY <1>0, <1>2, WhatOrderConsumes DEF Decides, SetStatus
  <2>2. q \in IF d = "CONFIRMED" THEN shipments ELSE Of("PaymentFailed")
    <3>1. CASE Event(w).type = "ShipmentCreated"
      BY <2>1, <3>1 DEF ShipInv, Shipped, Event, Order, NewStatus
    <3>2. CASE Event(w).type = "PaymentFailed"
      BY <2>1, <3>2 DEF Of, NewStatus
    <3> QED
      BY <2>1, <3>1, <3>2
  <2>3. d \in Lifecycle!Decisions
    BY <2>1 DEF NewStatus, Lifecycle!Decisions
  <2>4. UNCHANGED <<Of("StockReserved"), Of("PaymentCaptured"), Of("PaymentFailed"), Told>>
    BY <2>1 DEF Of, Told, Emitted
  <2> HIDE DEF q, d
  <2>5. Lifecycle!Decide(q, d)
    BY <2>1, <2>2, <2>4 DEF Lifecycle!Decide
  <2> QED
    BY <2>1, <2>3, <2>5 DEF Lifecycle!Next
<1>3. ASSUME NEW w \in Workers, Ships(w) PROVE Goal
  <2>1. /\ UNCHANGED <<log, status>> /\ shipments' = shipments \cup {Order(w)}
        /\ Order(w) \in Orders /\ Event(w).type = "PaymentCaptured"
        /\ msg[w] \in Emitted(Event(w).type, Order(w))
    BY <1>0, <1>3 DEF Ships, UpsertShipment, Consumes, Answer
  <2>2. UNCHANGED <<Of("StockReserved"), Of("PaymentCaptured"), Of("PaymentFailed"), Told>>
    BY <2>1 DEF Of, Told, Emitted
  <2>3. Order(w) \in Of("PaymentCaptured")
    BY <2>1 DEF Of
  <2>4. Lifecycle!Ship(Order(w))
    BY <2>1, <2>2, <2>3 DEF Lifecycle!Ship
  <2> QED
    BY <2>1, <2>4 DEF Lifecycle!Next
<1>4. ASSUME NEW w \in Workers, Emits(w) PROVE Goal
  <2>q. PICK q \in Orders, t \in Types :
           q = Order(w) /\ t = Answer[w[1]][Event(w).type]
    BY <1>0, <1>4, AnswerTypes DEF Emits
  <2>0. /\ UNCHANGED <<status, shipments>>
        /\ msg[w] \in Emitted(Event(w).type, q)
        /\ Event(w).type \in Consumes(w[1])
    BY <1>0, <1>4, <2>q, EmitAdds DEF Emits
  <2>1. PICK k \in Nat :
           /\ k \notin DOMAIN log
           /\ DOMAIN log' = DOMAIN log \cup {k}
           /\ \A n \in DOMAIN log : log'[n] = log[n]
           /\ log'[k].type = t
           /\ log'[k].order = q
    BY <1>4, <2>q, EmitAdds
  <2>2. /\ Emitted(t, q)' = Emitted(t, q) \cup {k}
        /\ \A type, o : type # t \/ o # q => Emitted(type, o)' = Emitted(type, o)
    BY <2>1, EmittedGrows
  <2>3. CASE w[1] = "payment"
    <3>1. t = "PaymentCaptured" /\ Event(w).type = "StockReserved"
      BY <2>q, <2>0, <2>3 DEF Consumes, Answer
    <3>2. Told' = Told
      BY <2>2, <3>1, ToldStays DEF Outcomes
    <3>3. /\ Of("PaymentCaptured")' = Of("PaymentCaptured") \cup {q}
          /\ UNCHANGED <<Of("StockReserved"), Of("PaymentFailed")>>
      BY <2>0, <2>2, <3>1 DEF Of
    <3>4. q \in Of("StockReserved")
      BY <2>0, <3>1 DEF Of
    <3>5. Lifecycle!Pay(q)
      BY <2>0, <3>2, <3>3, <3>4 DEF Lifecycle!Pay
    <3> QED
      BY <2>0, <3>5 DEF Lifecycle!Next
  <2>4. CASE w[1] \in {"shipping", "messageria"}
    <3>1. t \notin Outcomes \cup {"StockReserved", "PaymentCaptured", "PaymentFailed"}
      BY <2>q, <2>0, <2>4 DEF Consumes, Answer, Outcomes
    <3>2. Told' = Told
      BY <2>2, <3>1, ToldStays
    <3>3. UNCHANGED <<Of("StockReserved"), Of("PaymentCaptured"), Of("PaymentFailed")>>
      BY <2>2, <3>1 DEF Of
    <3> QED
      BY <2>0, <3>2, <3>3 DEF Lifecycle!vars
  <2>5. CASE w[1] = "order"
    <3>1. t \in Outcomes /\ OutcomeOf[t] = status[q] /\ status[q] # "PENDING"
      BY <1>4, <2>q, <2>0, <2>5, WhoAnnounces DEF OutcomeInv, Emits
    <3>2. \A n \in DOMAIN log : ~Announced(n, q)
      BY <1>4, <2>q, <2>0, <2>5 DEF OutcomeInv, Announcing, Emits
    <3>3. \A type \in Outcomes : Emitted(type, q) = {}
      BY <3>2 DEF Announced, Emitted
    <3>4. Telling[status[q]] = t /\ status[q] \in DOMAIN Telling
      BY <3>1 DEF Telling, Outcomes, OutcomeOf
    <3>5. \A d \in DOMAIN Telling : Telling[d] \in Outcomes /\ (Telling[d] = t <=> d = status[q])
      BY <3>4 DEF Telling, Outcomes
    <3>6. \A d \in DOMAIN Telling : Told[q][d] = 0
      BY <2>0, <3>3, <3>5, FS_EmptySet DEF Told
    <3>7. Cardinality(Emitted(t, q)') = 1
      <4>1. Emitted(t, q)' = {k}
        BY <2>2, <3>1, <3>3
      <4>2. Cardinality({k}) = 1
        BY FS_Singleton, Zenon
      <4> QED
        BY <4>1, <4>2
    <3>8. ASSUME NEW o \in Orders, NEW d \in DOMAIN Telling
          PROVE  Told'[o][d] = IF o = q /\ d = status[q] THEN 1 ELSE Told[o][d]
      <4>1. CASE o = q /\ d = status[q]
        BY <3>4, <3>7, <4>1 DEF Told
      <4>2. CASE ~(o = q /\ d = status[q])
        BY <2>2, <3>5, <4>2 DEF Told
      <4> QED
        BY <4>1, <4>2
    <3>9. Told' = [Told EXCEPT ![q][status[q]] = 1]
      <4> DEFINE New == [Told EXCEPT ![q][status[q]] = 1]
      <4>1. /\ DOMAIN Told = Orders /\ DOMAIN Told' = Orders
            /\ Told = [o \in Orders |-> Told[o]] /\ Told' = [o \in Orders |-> Told'[o]]
            /\ \A o \in Orders : Told[o] = [d \in DOMAIN Telling |-> Told[o][d]]
            /\ \A o \in Orders : Told'[o] = [d \in DOMAIN Telling |-> Told'[o][d]]
        BY DEF Told
      <4>2. Told'[q] = [Told[q] EXCEPT ![status[q]] = 1]
        BY <3>4, <3>8, <4>1
      <4>3. \A o \in Orders : o # q => Told'[o] = Told[o]
        BY <3>8, <4>1
      <4> HIDE DEF Told
      <4> QED
        BY <4>1, <4>2, <4>3
    <3>10. UNCHANGED <<Of("StockReserved"), Of("PaymentCaptured"), Of("PaymentFailed")>>
      BY <2>2, <3>1 DEF Of, Outcomes
    <3>11. Lifecycle!Tell(q)
      BY <2>0, <3>1, <3>6, <3>9, <3>10 DEF Lifecycle!Tell, Lifecycle!Decisions, Telling
    <3> QED
      BY <2>0, <3>11 DEF Lifecycle!Next
  <2> QED
    BY <2>3, <2>4, <2>5, ServicesAnswer
<1>5. ASSUME NEW e, Publishes(e) PROVE Goal
  <2> DEFINE q == e.order
             t == e.type
  <2>0. /\ UNCHANGED <<status, shipments>> /\ q \in Orders /\ t \in UpstreamTypes
        /\ Caused(t, q)
    BY <1>5, AppendAdds DEF Publishes, Events
  <2>1. PICK k \in Nat :
           /\ k \notin DOMAIN log
           /\ DOMAIN log' = DOMAIN log \cup {k}
           /\ \A n \in DOMAIN log : log'[n] = log[n]
           /\ log'[k].type = t
           /\ log'[k].order = q
    BY <1>5, AppendAdds DEF Publishes
  <2> HIDE DEF t, q
  <2>2. /\ Emitted(t, q)' = Emitted(t, q) \cup {k}
        /\ \A type, o : type # t \/ o # q => Emitted(type, o)' = Emitted(type, o)
    BY <2>1, EmittedGrows
  <2>3. Told' = Told
    BY <2>0, <2>2, ToldStays DEF Outcomes, UpstreamTypes
  <2>4. CASE t = "OrderCreated"
    <3>1. UNCHANGED <<Of("StockReserved"), Of("PaymentCaptured"), Of("PaymentFailed")>>
      BY <2>2, <2>4 DEF Of
    <3> QED
      BY <2>0, <2>3, <3>1 DEF Lifecycle!vars
  <2>5. CASE t = "StockReserved"
    <3>1. /\ Of("StockReserved")' = Of("StockReserved") \cup {q}
          /\ UNCHANGED <<Of("PaymentCaptured"), Of("PaymentFailed")>>
      BY <2>0, <2>2, <2>5 DEF Of
    <3>2. Lifecycle!ReserveStock(q)
      BY <2>0, <2>3, <3>1 DEF Lifecycle!ReserveStock
    <3> QED
      BY <2>0, <3>2 DEF Lifecycle!Next
  <2>6. CASE t = "PaymentFailed"
    <3>1. /\ Of("PaymentFailed")' = Of("PaymentFailed") \cup {q}
          /\ UNCHANGED <<Of("StockReserved"), Of("PaymentCaptured")>>
      BY <2>0, <2>2, <2>6 DEF Of
    <3>2. q \in Of("StockReserved")
      BY <2>0, <2>6 DEF Of, Caused, Cause
    <3>3. Lifecycle!Decline(q)
      BY <2>0, <2>3, <3>1, <3>2 DEF Lifecycle!Decline
    <3> QED
      BY <2>0, <3>3 DEF Lifecycle!Next
  <2> QED
    BY <2>0, <2>4, <2>5, <2>6 DEF UpstreamTypes
<1> QED
  BY <1>1, <1>2, <1>3, <1>4, <1>5, Shape

\* Every step of the four services, whatever fails, is duplicated, retried or
\* skipped, is a step of an order's life, or changes nothing of it.
THEOREM FulfilmentImplementsLifecycle == Spec => ImplementsLifecycle
<1>1. TypeInv /\ ShipInv /\ OutcomeInv /\ [Next]_vars => [Lifecycle!Next]_Lifecycle!vars
  BY TypeStep, LifecycleStep
<1> QED
  BY <1>1, TypesInvariant, ShipInvariant, OutcomeInvariant, LifecycleInit, PTL
  DEF Spec, ImplementsLifecycle, Lifecycle!Spec
-----------------------------------------------------------------------------
(* What the composition with the inventory needs to know.                  *)

LifecycleInv == TypeInv /\ ShipInv /\ OutcomeInv

LEMMA LifecycleInvariant == Spec => []LifecycleInv
BY TypesInvariant, ShipInvariant, OutcomeInvariant, PTL DEF LifecycleInv

LEMMA LifecycleInvStep ==
    ASSUME LifecycleInv, [Next]_vars
    PROVE  [Lifecycle!Next]_Lifecycle!vars /\ LogGrows
BY TypeStep, LifecycleStep DEF LifecycleInv

\* Nobody is charged for stock that was not announced.
LEMMA PaidIsReserved == Spec => [](Of("PaymentCaptured") \subseteq Of("StockReserved"))
<1>1. Init => Of("PaymentCaptured") \subseteq Of("StockReserved")
  BY DEF Init, Of, Emitted
<1>2. /\ Of("PaymentCaptured") \subseteq Of("StockReserved")
      /\ [Lifecycle!Next]_Lifecycle!vars
      => (Of("PaymentCaptured") \subseteq Of("StockReserved"))'
  BY DEF Lifecycle!Next, Lifecycle!vars, Lifecycle!ReserveStock, Lifecycle!Pay,
       Lifecycle!Decline, Lifecycle!Ship, Lifecycle!Decide, Lifecycle!Tell
<1> QED
  BY <1>1, <1>2, FulfilmentImplementsLifecycle, PTL DEF Spec, ImplementsLifecycle, Lifecycle!Spec

\* Another event adds no StockReserved of an order.
LEMMA AppendEmits ==
    ASSUME NEW e, NEW o, TypeInv, Appends(e), e.type = "StockReserved" => e.order # o
    PROVE  Emitted("StockReserved", o)' = Emitted("StockReserved", o)
<1>1. PICK k \in Nat : /\ k \notin DOMAIN log
                       /\ DOMAIN log' = DOMAIN log \cup {k}
                       /\ \A n \in DOMAIN log : log'[n] = log[n]
                       /\ log'[k] = e
  BY AppendAdds
<1> QED
  BY <1>1 DEF Emitted

\* No service here emits what the inventory emits.
LEMMA ServiceEmits ==
    ASSUME TypeInv, ServiceStep, NEW o
    PROVE  Emitted("StockReserved", o)' = Emitted("StockReserved", o)
<1>1. log' = log \/ \E w \in Workers : pc[w] = "emit" /\ EmitAnswer(w)
  BY DEF ServiceStep, Receive, HandlerStep, CallFails, Crash, Rejoin, servers,
     IsEventProcessed, MarkEventProcessed, CreateShipment, MarkOrder, Emit, SendToDlq,
     Landed, Redeliver, MarkProcessed, UpsertShipment, SetStatus, EmitToDlq, At
<1>2. ASSUME NEW w \in Workers, pc[w] = "emit"
      PROVE  Answer[w[1]][Event(w).type] # "StockReserved"
  BY <1>2, EventOfWorker, ServicesAnswer DEF Consumes, Answer
<1>3. ASSUME NEW w \in Workers, pc[w] = "emit", EmitAnswer(w)
      PROVE  Emitted("StockReserved", o)' = Emitted("StockReserved", o)
  <2> DEFINE e == Fresh(Answer[w[1]][Event(w).type], Order(w))
  <2>1. Appends(e) /\ e.type # "StockReserved"
    BY <1>2, <1>3 DEF EmitAnswer, Fresh
  <2> HIDE DEF e
  <2> QED
    BY <2>1, AppendEmits
<1> QED
  BY <1>1, <1>3 DEF Emitted
-----------------------------------------------------------------------------
(* Handled events are answered.                                            *)

\* Two events of the log with one id are one event: only the outbox worker
\* publishes an event again, and an event's id is where it first was.
SameIds == \A n \in DOMAIN log : log[n].id \in DOMAIN log /\ log[log[n].id] = log[n]

MarkedWasPublished == \A s \in Services : processed[s] \subseteq DOMAIN log

IdsInv == SameIds /\ MarkedWasPublished

\* Past its look at processed_events.
AtWork(w) == pc[w] \in {"mark", "apply", "emit", "dlq"}
WorkedOn(s, id) == \E w \in Workers : w[1] = s /\ AtWork(w) /\ Event(w).id = id

\* Gone is not inductive: whoever still handles a marked event may be about to
\* find it marked, so only a worker past the check counts as being at it.
Untraced(s, n) ==
    /\ log[n].type \in Consumes(s)
    /\ ~Answered(s, n)
    /\ ~InDlq(s, n)
    /\ IF log[n].id \in processed[s] THEN ~WorkedOn(s, log[n].id)
       ELSE \A m \in CopiesOf(n) : m \notin pending[s] /\ ~Handling(s, m)
UntracedEvents ==
    {e \in Services \X DOMAIN log : log[e[2]].id = e[2] /\ Untraced(e[1], e[2])}

\* What each worker has paid so far: a failed call for every attempt behind it.
Spent ==
    {t \in Workers \X (1..MaxAttempts) : t[2] < attempt[t[1]] \/ pc[t[1]] = "dlq"}

\* An event leaves no trace when emitToDlq fails, and then takes with it what its
\* worker has spent.
LossInv ==
    restarts = 0 =>
        (MaxAttempts + 1) * Cardinality(UntracedEvents) + Cardinality(Spent) <= errors

\* What a step adds to the log has a new id, or was there before.
LEMMA AppendedIds ==
    ASSUME TypeInv, [Next]_vars
    PROVE  \/ log' = log
           \/ \E e : /\ Appends(e)
                     /\ e.id = Len(log) + 1 \/ \E n \in DOMAIN log : e = log[n]
<1> DEFINE Goal == \/ log' = log
                   \/ \E e : /\ Appends(e)
                             /\ e.id = Len(log) + 1 \/ \E n \in DOMAIN log : e = log[n]
<1>1. ASSUME NEW type, NEW o, Appends(Fresh(type, o)) PROVE Goal
  BY <1>1 DEF Fresh
<1>2. ASSUME NEW n \in DOMAIN log, Appends(log[n]) PROVE Goal
  BY <1>2
<1> HIDE DEF Goal
<1>3. ASSUME NEW type \in UpstreamTypes, NEW o \in Orders, Publish(type, o) PROVE Goal
  BY <1>1, <1>3 DEF Publish
<1>4. ASSUME NEW o \in Orders, PublishAgain(o) PROVE Goal
  BY <1>2, <1>4 DEF PublishAgain, Emitted
<1>5. ASSUME NEW w \in Workers, EmitAnswer(w) PROVE Goal
  BY <1>1, <1>5 DEF EmitAnswer
<1>6. ASSUME ServiceStep PROVE log' = log \/ \E w \in Workers : EmitAnswer(w)
  BY <1>6 DEF ServiceStep, Receive, HandlerStep, CallFails, Crash, Rejoin, servers,
     IsEventProcessed, MarkEventProcessed, CreateShipment, MarkOrder, Emit, SendToDlq,
     Landed, Redeliver, MarkProcessed, UpsertShipment, SetStatus, EmitToDlq
<1>7. log' = log => Goal
  BY DEF Goal
<1>8. ASSUME UNCHANGED vars PROVE Goal
  BY <1>7, <1>8 DEF vars, servers
<1>9. Goal
  BY <1>3, <1>4, <1>5, <1>6, <1>7, <1>8 DEF Next
<1> QED
  BY <1>9 DEF Goal

LEMMA SameIdsStep ==
    ASSUME TypeInv, SameIds, LogGrows, [Next]_vars
    PROVE  SameIds'
<1>1. CASE log' = log
  BY <1>1 DEF SameIds
<1>2. ASSUME NEW e, Appends(e), e.id = Len(log) + 1 \/ \E n \in DOMAIN log : e = log[n]
      PROVE  SameIds'
  <2>1. PICK k \in Nat : /\ k = Len(log) + 1
                         /\ k \notin DOMAIN log
                         /\ DOMAIN log' = DOMAIN log \cup {k}
                         /\ \A n \in DOMAIN log : log'[n] = log[n]
                         /\ log'[k] = e
    BY <1>2, AppendAdds
  <2>2. \A n \in DOMAIN log : log'[n].id \in DOMAIN log' /\ log'[log'[n].id] = log'[n]
    BY <2>1 DEF SameIds
  <2>3. CASE e.id = Len(log) + 1
    BY <2>1, <2>2, <2>3 DEF SameIds
  <2>4. ASSUME NEW n \in DOMAIN log, e = log[n] PROVE SameIds'
    BY <2>1, <2>2, <2>4 DEF SameIds
  <2> QED
    BY <1>2, <2>3, <2>4
<1> QED
  BY <1>1, <1>2, AppendedIds

\* Only the worker that marks an event changes what is processed.
LEMMA WhoMarks ==
    ASSUME TypeInv, [Next]_vars
    PROVE  \/ processed' = processed
           \/ \E w \in Workers :
                 /\ pc[w] = "mark" /\ AtWork(w)' /\ msg'[w] = msg[w]
                 /\ log' = log
                 /\ processed' = [processed EXCEPT ![w[1]] = @ \cup {Event(w).id}]
<1>0. pc \in [Workers -> {"idle", "check", "mark", "apply", "emit", "dlq"}]
  BY DEF TypeInv, WorkersOK
<1> DEFINE Goal(w) == /\ pc[w] = "mark" /\ AtWork(w)' /\ msg'[w] = msg[w]
                      /\ log' = log
                      /\ processed' = [processed EXCEPT ![w[1]] = @ \cup {Event(w).id}]
<1>1. ASSUME NEW w \in Workers, MarkEventProcessed(w) PROVE Goal(w)
  BY <1>0, <1>1 DEF MarkEventProcessed, MarkProcessed, Goto, At, AtWork
<1>2. ASSUME NEW w \in Workers, CallFails(w), At(w, "mark"), MarkProcessed(w) PROVE Goal(w)
  BY <1>0, <1>2 DEF CallFails, Throw, MarkProcessed, Goto, At, AtWork
<1> HIDE DEF Goal
<1>3. ASSUME NEW w \in Workers, CallFails(w) PROVE processed' = processed \/ Goal(w)
  BY <1>2, <1>3 DEF CallFails, Landed, Redeliver, servers, UpsertShipment, SetStatus, EmitAnswer, Appends,
     EmitToDlq
<1>4. ASSUME NEW w \in Workers, HandlerStep(w) PROVE processed' = processed \/ Goal(w)
  BY <1>1, <1>4 DEF HandlerStep, IsEventProcessed, CreateShipment, MarkOrder, Emit, SendToDlq,
     servers, UpsertShipment, SetStatus, EmitAnswer, Appends, EmitToDlq
<1>5. processed' = processed \/ \E w \in Workers : Goal(w)
  BY <1>3, <1>4 DEF Next, ServiceStep, Publish, PublishAgain, Appends, Receive, Crash, Rejoin,
     vars, servers
<1> QED
  BY <1>5 DEF Goal

LEMMA MarkedStep ==
    ASSUME TypeInv, SameIds, MarkedWasPublished, LogGrows, [Next]_vars
    PROVE  MarkedWasPublished'
<1>1. CASE processed' = processed
  BY <1>1 DEF MarkedWasPublished, LogGrows
<1>2. ASSUME NEW w \in Workers, pc[w] = "mark",
             processed' = [processed EXCEPT ![w[1]] = @ \cup {Event(w).id}]
      PROVE  MarkedWasPublished'
  <2>1. Event(w).id \in DOMAIN log
    BY <1>2, EventOfWorker DEF SameIds, Event
  <2>2. processed \in [Services -> SUBSET Nat]
    BY DEF TypeInv, ServersOK
  <2> QED
    BY <1>2, <2>1, <2>2 DEF MarkedWasPublished, LogGrows
<1> QED
  BY <1>1, <1>2, WhoMarks

\* An answer, and what is in a DLQ, is there to stay.
LEMMA AnsweredStays ==
    ASSUME TypeInv, LogGrows, [Next]_vars, NEW s, NEW n \in DOMAIN log
    PROVE  /\ Answered(s, n) => Answered(s, n)'
           /\ InDlq(s, n) => InDlq(s, n)'
<1>1. log[n].order \in Orders
  <2>1. log[n] \in Events
    BY DEF TypeInv, ServersOK
  <2> QED
    BY <2>1 DEF Events
<1>2. \A o \in Orders : status[o] # "PENDING" => status'[o] # "PENDING"
  BY StatusKept
<1>3. log'[n] = log[n]
  BY DEF LogGrows
<1>4. \A type, o : Emitted(type, o) # {} => Emitted(type, o)' # {}
  BY DEF LogGrows, Emitted
<1>5. dlq \subseteq dlq'
  BY DEF Next, ServiceStep, Publish, PublishAgain, Appends, Receive, HandlerStep, CallFails,
     Crash, Rejoin, vars, servers, IsEventProcessed, MarkEventProcessed, CreateShipment,
     MarkOrder, Emit, SendToDlq, Landed, Redeliver, MarkProcessed, UpsertShipment, SetStatus, EmitAnswer,
     EmitToDlq
<1>6. Answered(s, n) => Answered(s, n)'
  BY <1>1, <1>2, <1>3, <1>4 DEF Answered
<1>7. InDlq(s, n) => InDlq(s, n)'
  BY <1>3, <1>5 DEF InDlq
<1> QED
  BY <1>6, <1>7

\* Emitting is an answer: the order service has decided by then.
LEMMA EmittingAnswers ==
    ASSUME TypeInv, OutcomeInv, LogGrows, NEW w \in Workers, NEW n, msg[w] = n,
           pc[w] = "emit", EmitAnswer(w)
    PROVE  Answered(w[1], n)'
<1>1. n \in DOMAIN log /\ Event(w).type \in Consumes(w[1])
  BY EventOfWorker
<1>2. log'[n] = Event(w)
  BY <1>1 DEF LogGrows, Event
<1>3. CASE w[1] = "order"
  <2>1. status[Order(w)] # "PENDING"
    BY <1>1, <1>3, WhoAnnounces DEF OutcomeInv
  <2>2. status' = status
    BY DEF EmitAnswer, Appends
  <2> QED
    BY <1>2, <1>3, <2>1, <2>2 DEF Answered, Order
<1>4. CASE w[1] # "order"
  <2> DEFINE e == Fresh(Answer[w[1]][Event(w).type], Order(w))
  <2>1. Appends(e)
    BY DEF EmitAnswer
  <2>2. e.type = Answer[w[1]][Event(w).type] /\ e.order = Event(w).order
    BY DEF Fresh, Order
  <2> HIDE DEF e
  <2>3. \E k \in DOMAIN log' : log'[k] = e
    BY <2>1, AppendAdds
  <2> QED
    BY <1>2, <1>4, <2>2, <2>3 DEF Answered, Emitted
<1> QED
  BY <1>3, <1>4

\* Only its own steps change where a worker is and what it handles.
LEMMA OwnSteps ==
    ASSUME TypeInv, [Next]_vars, NEW w \in Workers
    PROVE  \/ pc'[w] = pc[w] /\ msg'[w] = msg[w]
           \/ Receive(w) \/ HandlerStep(w) \/ CallFails(w) \/ Crash(w)
<1> DEFINE Keeps == pc'[w] = pc[w] /\ msg'[w] = msg[w]
           Moves(v) == Receive(v) \/ HandlerStep(v) \/ CallFails(v) \/ Crash(v)
<1>0. /\ pc \in [Workers -> {"idle", "check", "mark", "apply", "emit", "dlq"}]
      /\ msg \in [Workers -> Nat]
  BY DEF TypeInv, WorkersOK
<1>1. ASSUME NEW v \in Workers, v # w, Moves(v) PROVE Keeps
  BY <1>0, <1>1 DEF Receive, HandlerStep, CallFails, Crash, Finish, Throw, Goto,
     IsEventProcessed, MarkEventProcessed, CreateShipment, MarkOrder, Emit, SendToDlq
<1>2. ASSUME NEW type \in UpstreamTypes, NEW o \in Orders, Publish(type, o) PROVE Keeps
  BY <1>2 DEF Publish, worker
<1>3. ASSUME NEW o \in Orders, PublishAgain(o) PROVE Keeps
  BY <1>3 DEF PublishAgain, worker
<1>4. ASSUME NEW s \in Services, Rejoin(s) PROVE Keeps
  BY <1>4 DEF Rejoin, worker
<1>5. ASSUME UNCHANGED vars PROVE Keeps
  BY <1>5 DEF vars, worker
<1>6. ASSUME NEW v \in Workers, Moves(v) PROVE Keeps \/ Moves(w)
  BY <1>1, <1>6
<1> HIDE DEF Keeps
<1>7. Keeps \/ Moves(w)
  BY <1>2, <1>3, <1>4, <1>5, <1>6 DEF Next, ServiceStep
<1> QED
  BY <1>7 DEF Keeps

\* A step is the failed call of one worker at most.
LEMMA OneFails ==
    ASSUME TypeInv, NEW v \in Workers, NEW w \in Workers, CallFails(v), CallFails(w)
    PROVE  v = w
<1>0. /\ pc \in [Workers -> {"idle", "check", "mark", "apply", "emit", "dlq"}]
      /\ attempt \in [Workers -> Nat]
  BY DEF TypeInv, WorkersOK
<1>1. ASSUME v # w PROVE pc'[w] = pc[w] /\ attempt'[w] = attempt[w]
  BY <1>0, <1>1 DEF CallFails, Throw, Finish, Goto
<1>2. pc'[w] # pc[w] \/ attempt'[w] # attempt[w]
  <2>1. CASE pc[w] \in {"mark", "apply", "emit"} /\ Throw(w)
    BY <1>0, <2>1 DEF Throw, Goto
  <2>2. CASE pc[w] \in {"check", "dlq"} /\ Finish(w)
    BY <1>0, <2>2 DEF Finish, Goto
  <2> QED
    BY <2>1, <2>2 DEF CallFails
<1> QED
  BY <1>1, <1>2

LEMMA ErrorsGrow ==
    ASSUME TypeInv, [Next]_vars
    PROVE  /\ errors \in Nat /\ errors' \in Nat /\ errors <= errors'
           /\ \A w \in Workers : /\ CallFails(w) => errors' = errors + 1
                                 /\ Emit(w) => errors' = errors
<1>1. errors \in Nat
  BY DEF TypeInv, CountsOK
<1>2. errors' = errors \/ errors' = errors + 1
  BY DEF Next, ServiceStep, Publish, PublishAgain, Receive, HandlerStep, CallFails, Crash,
     Rejoin, vars, IsEventProcessed, MarkEventProcessed, CreateShipment, MarkOrder, Emit, SendToDlq
<1>3. \A w \in Workers : /\ CallFails(w) => errors' = errors + 1
                         /\ Emit(w) => errors' = errors
  BY DEF CallFails, Emit
<1> QED
  BY <1>1, <1>2, <1>3

LEMMA TimesGrows ==
    ASSUME NEW k \in Nat, NEW m \in Nat, NEW n \in Nat
    PROVE  /\ k * m \in Nat
           /\ m <= n => k * m <= k * n
           /\ m + 1 <= n => k * m + k <= k * n
<1>1. k * m \in Nat
  OBVIOUS
<1>2. ASSUME m <= n PROVE k * m <= k * n
  <2>1. n = m + (n - m) /\ n - m \in Nat
    BY <1>2
  <2>2. k * (m + (n - m)) = k * m + k * (n - m) /\ k * (n - m) \in Nat
    BY <2>1
  <2> QED
    BY <1>1, <2>1, <2>2
<1>3. ASSUME m + 1 <= n PROVE k * m + k <= k * n
  <2>1. n = m + 1 + (n - m - 1) /\ n - m - 1 \in Nat
    BY <1>3
  <2>2. k * (m + 1 + (n - m - 1)) = k * m + k + k * (n - m - 1) /\ k * (n - m - 1) \in Nat
    BY <2>1
  <2> QED
    BY <1>1, <2>1, <2>2
<1> QED
  BY <1>1, <1>2, <1>3

\* A worker past its look at processed_events goes on with its event until it
\* is answered or in the DLQ, unless something crashes or emitToDlq fails.
LEMMA WorkGoesOn ==
    ASSUME TypeInv, OutcomeInv, LogGrows, [Next]_vars, restarts' = 0,
           NEW w \in Workers, AtWork(w), NEW n, msg[w] = n
    PROVE  \/ AtWork(w)' /\ msg'[w] = n
           \/ Answered(w[1], n)'
           \/ InDlq(w[1], n)'
           \/ pc[w] = "dlq" /\ CallFails(w)
<1> USE DEF At
<1>0. /\ pc \in [Workers -> {"idle", "check", "mark", "apply", "emit", "dlq"}]
      /\ msg \in [Workers -> Nat] /\ restarts \in Nat
  BY DEF TypeInv, WorkersOK, CountsOK
<1>1. n \in DOMAIN log /\ log'[n] = log[n]
  BY EventOfWorker DEF AtWork, LogGrows
<1> DEFINE Goal == \/ AtWork(w)' /\ msg'[w] = n
                   \/ Answered(w[1], n)'
                   \/ InDlq(w[1], n)'
                   \/ pc[w] = "dlq" /\ CallFails(w)
<1>2. ASSUME pc'[w] = pc[w], msg'[w] = msg[w] PROVE Goal
  BY <1>2 DEF AtWork
<1>3. ASSUME HandlerStep(w) PROVE Goal
  <2>1. CASE IsEventProcessed(w)
    BY <2>1 DEF IsEventProcessed, AtWork
  <2>2. CASE MarkEventProcessed(w)
    BY <1>0, <2>2 DEF MarkEventProcessed, Goto, AtWork
  <2>3. CASE CreateShipment(w)
    BY <1>0, <2>3 DEF CreateShipment, Goto, AtWork
  <2>4. CASE MarkOrder(w)
    <3>1. CASE Goto(w, "emit") /\ UNCHANGED <<msg, attempt>>
      BY <1>0, <3>1 DEF Goto, AtWork
    <3>2. CASE status[Order(w)] # "PENDING" /\ UNCHANGED servers
      BY <2>4, <3>2 DEF MarkOrder, servers, Answered, Order, Event
    <3> QED
      BY <2>4, <3>1, <3>2 DEF MarkOrder
  <2>5. CASE Emit(w)
    BY <2>5, EmittingAnswers DEF Emit
  <2>6. CASE SendToDlq(w)
    BY <1>1, <2>6 DEF SendToDlq, EmitToDlq, InDlq, Event
  <2> QED
    BY <1>3, <2>1, <2>2, <2>3, <2>4, <2>5, <2>6 DEF HandlerStep
<1>4. ASSUME CallFails(w), pc[w] # "dlq" PROVE Goal
  <2>1. Throw(w)
    BY <1>4 DEF CallFails, AtWork
  <2> QED
    BY <1>0, <2>1 DEF Throw, Goto, AtWork
<1>5. ~Crash(w) /\ ~Receive(w)
  BY <1>0 DEF Crash, Receive, AtWork
<1> HIDE DEF Goal
<1>6. Goal
  BY <1>2, <1>3, <1>4, <1>5, OwnSteps DEF Goal
<1> QED
  BY <1>6 DEF Goal

\* A copy of an event that is not marked goes on being handled or waiting,
\* likewise.
LEMMA CopyGoesOn ==
    ASSUME TypeInv, OutcomeInv, LogGrows, [Next]_vars, restarts' = 0,
           NEW s \in Services, NEW m \in DOMAIN log, log[m].id \notin processed[s],
           m \in pending[s] \/ Handling(s, m)
    PROVE  \/ m \in pending'[s] \/ Handling(s, m)'
           \/ Answered(s, m)'
           \/ InDlq(s, m)'
           \/ \E w \in Workers : w[1] = s /\ msg[w] = m /\ pc[w] = "dlq" /\ CallFails(w)
<1> USE DEF At
<1>0. /\ pc \in [Workers -> {"idle", "check", "mark", "apply", "emit", "dlq"}]
      /\ msg \in [Workers -> Nat] /\ restarts \in Nat /\ log \in Seq(Events)
      /\ pending \in [Services -> SUBSET DOMAIN log]
      /\ \A w \in Workers : pc[w] = "idle" => msg[w] = 0
  BY DEF TypeInv, ServersOK, WorkersOK, CountsOK
<1>1. ASSUME NEW w \in Workers, w[1] = s, msg[w] = m, pc[w] = "check"
      PROVE  m \in pending'[s] \/ Handling(s, m)'
  <2>1. CASE msg'[w] = msg[w]
    BY <1>1, <2>1 DEF Handling
  <2>2. CASE HandlerStep(w)
    <3>1. IsEventProcessed(w)
      BY <1>1, <2>2 DEF HandlerStep, IsEventProcessed, MarkEventProcessed, CreateShipment,
         MarkOrder, Emit, SendToDlq
    <3>2. msg' = msg
      BY <1>1, <3>1 DEF IsEventProcessed, Event
    <3> QED
      BY <1>1, <3>2 DEF Handling
  <2>3. CASE CallFails(w)
    <3>1. Redeliver(w)
      BY <1>1, <2>3 DEF CallFails
    <3> QED
      BY <1>0, <1>1, <3>1 DEF Redeliver
  <2>4. ~Crash(w) /\ ~Receive(w)
    BY <1>0, <1>1 DEF Crash, Receive
  <2> QED
    BY <1>1, <2>1, <2>2, <2>3, <2>4, OwnSteps
<1>2. CASE Handling(s, m)
  <2>1. PICK w \in Workers : w[1] = s /\ msg[w] = m
    BY <1>2 DEF Handling
  <2>2. CASE pc[w] = "check"
    BY <1>1, <2>1, <2>2
  <2>3. CASE AtWork(w)
    BY <2>1, <2>3, WorkGoesOn DEF Handling
  <2>4. pc[w] # "idle"
    <3>1. m # 0
      BY <1>0
    <3> QED
      BY <1>0, <2>1, <3>1
  <2> QED
    BY <1>0, <2>2, <2>3, <2>4 DEF AtWork
<1>3. CASE m \in pending[s]
  <2> DEFINE Goal == m \in pending'[s] \/ Handling(s, m)'
  <2>1. ASSUME NEW w \in Workers, Receive(w) PROVE Goal
    <3>1. PICK n \in pending[w[1]] : /\ pending' = [pending EXCEPT ![w[1]] = @ \ {n}]
                                     /\ msg' = [msg EXCEPT ![w] = n]
      BY <2>1 DEF Receive
    <3>2. w[1] = s /\ n = m => Handling(s, m)'
      BY <1>0, <3>1 DEF Handling
    <3> QED
      BY <1>0, <1>3, <3>1, <3>2
  <2>2. ASSUME NEW e, Appends(e) PROVE Goal
    BY <1>3, <2>2 DEF Appends
  <2>3. ASSUME NEW w \in Workers, HandlerStep(w) \/ CallFails(w) PROVE Goal
    <3>1. pending' = pending \/ EmitAnswer(w) \/ Redeliver(w)
      BY <2>3 DEF HandlerStep, IsEventProcessed, MarkEventProcessed, CreateShipment, MarkOrder,
         Emit, SendToDlq, CallFails, Landed, servers, MarkProcessed, UpsertShipment, SetStatus,
         EmitToDlq
    <3>2. CASE Redeliver(w)
      BY <1>0, <1>3, <3>2 DEF Redeliver
    <3> QED
      BY <1>3, <2>2, <3>1, <3>2 DEF EmitAnswer
  <2>4. ~(\E w \in Workers : Crash(w)) /\ ~(\E r \in Services : Rejoin(r))
    BY <1>0 DEF Crash, Rejoin
  <2>5. ASSUME UNCHANGED vars PROVE Goal
    BY <1>3, <2>5 DEF vars, servers
  <2> HIDE DEF Goal
  <2>6. ASSUME NEW type, NEW o, Publish(type, o) \/ PublishAgain(o) PROVE Goal
    BY <2>2, <2>6 DEF Publish, PublishAgain
  <2>7. Goal
    BY <2>1, <2>3, <2>4, <2>5, <2>6 DEF Next, ServiceStep
  <2> QED
    BY <2>7 DEF Goal
<1> QED
  BY <1>2, <1>3

\* What a step publishes waits for every service that consumes it.
LEMMA NewIsTraced ==
    ASSUME TypeInv, IdsInv, [Next]_vars, NEW s \in Services, NEW n \in DOMAIN log' \ DOMAIN log,
           log'[n].id = n
    PROVE  ~Untraced(s, n)'
<1>1. PICK e : Appends(e)
  BY AppendedIds
<1>2. PICK k \in Nat : /\ k = Len(log) + 1
                       /\ k \notin DOMAIN log
                       /\ DOMAIN log' = DOMAIN log \cup {k}
                       /\ \A i \in DOMAIN log : log'[i] = log[i]
                       /\ log'[k] = e
  BY <1>1, AppendAdds
<1>3. n = k /\ processed' = processed
  BY <1>1, <1>2 DEF Appends
<1>4. e.id \notin processed'[s]
  BY <1>2, <1>3 DEF IdsInv, MarkedWasPublished
<1>5. e.type \in Consumes(s) => n \in pending'[s] /\ n \in CopiesOf(n)'
  BY <1>1, <1>2, <1>3 DEF Appends, CopiesOf
<1> QED
  BY <1>2, <1>3, <1>4, <1>5 DEF Untraced

LEMMA SameAnswered ==
    ASSUME LogGrows, NEW s, NEW n \in DOMAIN log, NEW m \in DOMAIN log, log[m] = log[n]
    PROVE  /\ Answered(s, m)' => Answered(s, n)'
           /\ InDlq(s, m)' => InDlq(s, n)'
BY DEF LogGrows, Answered, InDlq

\* An event loses its last trace by a failed emitToDlq, and in no other way.
LEMMA NewlyUntraced ==
    ASSUME TypeInv, OutcomeInv, IdsInv, LogGrows, [Next]_vars, restarts' = 0,
           NEW e \in UntracedEvents'
    PROVE  \/ e \in UntracedEvents
           \/ \E w \in Workers : pc[w] = "dlq" /\ CallFails(w) /\ e = <<w[1], Event(w).id>>
<1>1. PICK s \in Services, n \in DOMAIN log' :
          e = <<s, n>> /\ log'[n].id = n /\ Untraced(s, n)'
  BY DEF UntracedEvents
<1>2. n \in DOMAIN log /\ log'[n] = log[n] /\ log[n].id = n
  BY <1>1, NewIsTraced DEF LogGrows
<1>3. ~Answered(s, n)' /\ ~InDlq(s, n)'
  BY <1>1 DEF Untraced
<1>4. log[n].type \in Consumes(s) /\ ~Answered(s, n) /\ ~InDlq(s, n)
  BY <1>1, <1>2, <1>3, AnsweredStays DEF Untraced
<1>5. \A m \in CopiesOf(n) : m \in DOMAIN log /\ log[m] = log[n] /\ m \in CopiesOf(n)'
  BY <1>2 DEF CopiesOf, IdsInv, SameIds, LogGrows
<1> DEFINE Fails == \E w \in Workers :
                       pc[w] = "dlq" /\ CallFails(w) /\ e = <<w[1], Event(w).id>>
<1>6. CASE n \in processed[s] /\ WorkedOn(s, n)
  <2>1. PICK w \in Workers : w[1] = s /\ AtWork(w) /\ Event(w).id = n
    BY <1>6 DEF WorkedOn
  <2>2. msg[w] \in DOMAIN log
    BY <2>1, EventOfWorker DEF AtWork
  <2>3. PICK m : m = msg[w]
    OBVIOUS
  <2>4. m \in CopiesOf(n)
    BY <1>2, <2>1, <2>2, <2>3 DEF CopiesOf, Event
  <2>5. ASSUME AtWork(w)', msg'[w] = m PROVE FALSE
    <3>1. log'[msg'[w]] = log[m] /\ log[m].id = n
      BY <2>1, <2>2, <2>3, <2>5 DEF LogGrows, Event
    <3>2. WorkedOn(s, n)'
      BY <2>1, <2>5, <3>1 DEF WorkedOn, Event
    <3>3. n \in processed'[s]
      BY <1>6, WhoMarks DEF TypeInv, ServersOK
    <3> QED
      BY <1>1, <3>2, <3>3 DEF Untraced
  <2>6. ~Answered(s, m)' /\ ~InDlq(s, m)'
    BY <1>2, <1>3, <1>5, <2>4, SameAnswered
  <2>7. pc[w] = "dlq" /\ CallFails(w)
    BY <2>1, <2>3, <2>5, <2>6, WorkGoesOn
  <2> QED
    BY <1>1, <2>1, <2>7
<1>7. ASSUME n \notin processed[s], NEW m \in CopiesOf(n), m \in pending[s] \/ Handling(s, m)
      PROVE  Fails
  <2>1. m \in DOMAIN log /\ log[m] = log[n] /\ log[m].id = n
    BY <1>2, <1>5, <1>7
  <2>2. ASSUME m \in pending'[s] \/ Handling(s, m)' PROVE FALSE
    <3>1. n \in processed'[s]
      BY <1>1, <1>5, <1>7, <2>2 DEF Untraced
    <3>2. PICK w \in Workers :
             /\ pc[w] = "mark" /\ AtWork(w)' /\ msg'[w] = msg[w]
             /\ processed' = [processed EXCEPT ![w[1]] = @ \cup {Event(w).id}]
      BY <1>7, <3>1, WhoMarks
    <3>3. w[1] = s /\ Event(w).id = n
      BY <1>7, <3>1, <3>2 DEF TypeInv, ServersOK
    <3>4. msg[w] \in DOMAIN log
      BY <3>2, EventOfWorker
    <3>5. log'[msg'[w]] = log[msg[w]]
      BY <3>2, <3>4 DEF LogGrows
    <3>6. WorkedOn(s, n)'
      BY <3>2, <3>3, <3>5 DEF WorkedOn, Event
    <3> QED
      BY <1>1, <3>1, <3>6 DEF Untraced
  <2>3. ~Answered(s, m)' /\ ~InDlq(s, m)'
    BY <1>2, <1>3, <2>1, SameAnswered
  <2>4. PICK w \in Workers : w[1] = s /\ msg[w] = m /\ pc[w] = "dlq" /\ CallFails(w)
    BY <1>7, <2>1, <2>2, <2>3, CopyGoesOn
  <2> QED
    BY <1>1, <2>1, <2>4 DEF Event
<1>8. CASE Untraced(s, n)
  BY <1>1, <1>2, <1>8 DEF UntracedEvents
<1> QED
  BY <1>2, <1>4, <1>6, <1>7, <1>8 DEF Untraced

LEMMA ServicesFinite == IsFiniteSet(Services)
<1>1. IsFiniteSet({"payment"}) /\ IsFiniteSet({"shipping"})
      /\ IsFiniteSet({"order"}) /\ IsFiniteSet({"messageria"})
  BY FS_Singleton
<1>2. IsFiniteSet({"payment"} \cup {"shipping"}) /\ IsFiniteSet({"order"} \cup {"messageria"})
  BY <1>1, FS_Union
<1>3. IsFiniteSet(({"payment"} \cup {"shipping"}) \cup ({"order"} \cup {"messageria"}))
  BY <1>2, FS_Union
<1>4. Services \subseteq ({"payment"} \cup {"shipping"}) \cup ({"order"} \cup {"messageria"})
  BY FulfilmentAssumption DEF Services, Answer
<1> QED
  BY <1>3, <1>4, FS_Subset

LEMMA LossFinite ==
    ASSUME IsFiniteSet(Workers), log \in Seq(Events)
    PROVE  /\ IsFiniteSet(UntracedEvents) /\ Cardinality(UntracedEvents) \in Nat
           /\ IsFiniteSet(Spent) /\ Cardinality(Spent) \in Nat
<1>1. Len(log) \in Nat /\ DOMAIN log = 1..Len(log) /\ MaxAttempts \in Nat
  BY FulfilmentAssumption
<1>2. IsFiniteSet(DOMAIN log) /\ IsFiniteSet(1..MaxAttempts)
  BY <1>1, FS_Interval
<1>3. IsFiniteSet(Services \X DOMAIN log) /\ IsFiniteSet(Workers \X (1..MaxAttempts))
  BY <1>2, ServicesFinite, FS_Product
<1>4. UntracedEvents \subseteq Services \X DOMAIN log /\ Spent \subseteq Workers \X (1..MaxAttempts)
  BY DEF UntracedEvents, Spent
<1> QED
  BY <1>3, <1>4, FS_Subset, FS_CardinalityType

\* What a worker has spent on an event it gives up.
LEMMA SpentAtDlq ==
    ASSUME IsFiniteSet(Workers), TypeInv, NEW w \in Workers, pc[w] = "dlq", CallFails(w)
    PROVE  Cardinality(Spent') <= Cardinality(Spent) - MaxAttempts
<1> DEFINE Own == {w} \X (1..MaxAttempts)
<1>0. /\ pc \in [Workers -> {"idle", "check", "mark", "apply", "emit", "dlq"}]
      /\ attempt \in [Workers -> 1..MaxAttempts]
      /\ log \in Seq(Events) /\ MaxAttempts \in Nat
  BY FulfilmentAssumption DEF TypeInv, ServersOK, WorkersOK
<1>1. Finish(w)
  BY DEF CallFails
<1>2. Own \subseteq Spent
  BY DEF Spent
<1>3. Spent' \subseteq Spent \ Own
  <2>1. ASSUME NEW t \in Spent' PROVE t \in Spent /\ t[1] # w
    <3>1. t \in Workers \X (1..MaxAttempts) /\ (t[2] < attempt'[t[1]] \/ pc'[t[1]] = "dlq")
      BY <2>1 DEF Spent
    <3>2. attempt'[w] = 1 /\ pc'[w] = "idle" /\ t[1] \in Workers /\ t[2] \in 1..MaxAttempts
      BY <1>0, <1>1, <3>1 DEF Finish, Goto
    <3>3. t[1] # w
      BY <1>0, <3>1, <3>2
    <3>4. attempt'[t[1]] = attempt[t[1]] /\ pc'[t[1]] = pc[t[1]]
      BY <1>0, <1>1, <3>2, <3>3 DEF Finish, Goto
    <3> QED
      BY <3>1, <3>3, <3>4 DEF Spent
  <2>2. \A t \in Own : t[1] = w
    OBVIOUS
  <2> QED
    BY <2>1, <2>2
<1>4. IsFiniteSet(Spent) /\ Cardinality(Spent) \in Nat
  BY <1>0, LossFinite
<1>5. IsFiniteSet(Own) /\ Cardinality(Own) = MaxAttempts
  <2>1. IsFiniteSet(1..MaxAttempts) /\ Cardinality(1..MaxAttempts) = MaxAttempts
    BY <1>0, FS_Interval
  <2>2. IsFiniteSet({w}) /\ Cardinality({w}) = 1
    BY FS_Singleton
  <2>3. IsFiniteSet(Own) /\ Cardinality(Own) = 1 * MaxAttempts
    BY <2>1, <2>2, FS_Product
  <2> QED
    BY <1>0, <2>3
<1>6. Cardinality(Spent \ Own) = Cardinality(Spent) - MaxAttempts /\ IsFiniteSet(Spent \ Own)
  <2>1. Spent \cap Own = Own
    BY <1>2
  <2> HIDE DEF Own
  <2>2. IsFiniteSet(Spent \ Own)
        /\ Cardinality(Spent \ Own) = Cardinality(Spent) - Cardinality(Spent \cap Own)
    BY <1>4, FS_Difference
  <2> QED
    BY <1>5, <2>1, <2>2
<1>7. Cardinality(Spent') <= Cardinality(Spent \ Own)
  BY <1>3, <1>6, FS_Subset
<1>8. Cardinality(Spent') \in Nat
  BY <1>3, <1>6, FS_Subset, FS_CardinalityType
<1> QED
  BY <1>6, <1>7

\* A failed call is spent on its worker's attempt, and nothing else is.
LEMMA SpentOtherwise ==
    ASSUME IsFiniteSet(Workers), TypeInv, [Next]_vars, restarts' = 0,
           \A w \in Workers : pc[w] = "dlq" => ~CallFails(w)
    PROVE  Cardinality(Spent') + errors <= Cardinality(Spent) + errors'
<1> USE DEF At
<1>0. /\ pc \in [Workers -> {"idle", "check", "mark", "apply", "emit", "dlq"}]
      /\ attempt \in [Workers -> 1..MaxAttempts]
      /\ log \in Seq(Events) /\ MaxAttempts \in Nat /\ restarts \in Nat
  BY FulfilmentAssumption DEF TypeInv, ServersOK, WorkersOK, CountsOK
<1>1. IsFiniteSet(Spent) /\ Cardinality(Spent) \in Nat
  BY <1>0, LossFinite
<1>2. errors \in Nat /\ errors' \in Nat /\ errors <= errors'
  BY ErrorsGrow
<1>3. ASSUME NEW w \in Workers, Throw(w), pc[w] # "dlq" PROVE Spent' \subseteq Spent \cup {<<w, attempt[w]>>}
  <2>1. CASE attempt[w] < MaxAttempts
    BY <1>0, <1>3, <2>1 DEF Spent, Throw, Goto
  <2>2. CASE ~(attempt[w] < MaxAttempts)
    BY <1>0, <1>3, <2>2 DEF Spent, Throw, Goto
  <2> QED
    BY <2>1, <2>2
<1>4. ASSUME NEW w \in Workers, Finish(w) PROVE Spent' \subseteq Spent
  BY <1>0, <1>4 DEF Spent, Finish, Goto
<1>5. ASSUME NEW w \in Workers, NEW label \in {"idle", "check", "mark", "apply", "emit"},
             Goto(w, label), attempt' = attempt
      PROVE  Spent' \subseteq Spent
  BY <1>0, <1>5 DEF Spent, Goto
<1>6. ASSUME NEW w \in Workers, CallFails(w) PROVE Cardinality(Spent') <= Cardinality(Spent) + 1
  <2>1. CASE Throw(w)
    <3>1. pc[w] # "dlq"
      BY <1>6
    <3>2. PICK t : t = <<w, attempt[w]>>
      OBVIOUS
    <3>3. Spent' \subseteq Spent \cup {t}
      BY <1>3, <2>1, <3>1, <3>2
    <3>4. IsFiniteSet(Spent \cup {t}) /\ Cardinality(Spent \cup {t}) <= Cardinality(Spent) + 1
      <4>1. /\ IsFiniteSet(Spent \cup {t})
            /\ Cardinality(Spent \cup {t})
                  = IF t \in Spent THEN Cardinality(Spent) ELSE Cardinality(Spent) + 1
        BY <1>1, FS_AddElement
      <4> QED
        BY <1>1, <4>1
    <3>5. Cardinality(Spent') <= Cardinality(Spent \cup {t}) /\ Cardinality(Spent') \in Nat
          /\ Cardinality(Spent \cup {t}) \in Nat
      BY <3>3, <3>4, FS_Subset, FS_CardinalityType
    <3> QED
      BY <1>1, <3>4, <3>5
  <2>2. CASE Finish(w)
    <3>1. Cardinality(Spent') <= Cardinality(Spent) /\ Cardinality(Spent') \in Nat
      BY <1>1, <1>4, <2>2, FS_Subset, FS_CardinalityType
    <3> QED
      BY <1>1, <3>1
  <2> QED
    BY <1>6, <2>1, <2>2 DEF CallFails
<1>7. (\A w \in Workers : ~CallFails(w)) => Spent' \subseteq Spent
  <2> SUFFICES ASSUME \A w \in Workers : ~CallFails(w) PROVE Spent' \subseteq Spent
    OBVIOUS
  <2>1. ASSUME NEW w \in Workers, HandlerStep(w) PROVE Spent' \subseteq Spent
    <3>1. Finish(w) \/ ((\E label \in {"mark", "apply", "emit"} : Goto(w, label))
                         /\ attempt' = attempt)
      BY <2>1 DEF HandlerStep, IsEventProcessed, MarkEventProcessed, CreateShipment, MarkOrder,
         Emit, SendToDlq
    <3> QED
      BY <1>4, <1>5, <3>1
  <2>2. ASSUME NEW w \in Workers, Receive(w) PROVE Spent' \subseteq Spent
    BY <1>5, <2>2 DEF Receive
  <2>3. ASSUME pc' = pc, attempt' = attempt PROVE Spent' \subseteq Spent
    BY <2>3 DEF Spent
  <2>4. ~(\E w \in Workers : Crash(w)) /\ ~(\E r \in Services : Rejoin(r))
    BY <1>0 DEF Crash, Rejoin
  <2> QED
    BY <2>1, <2>2, <2>3, <2>4 DEF Next, ServiceStep, Publish, PublishAgain, worker, vars
<1>8. CASE \E w \in Workers : CallFails(w)
  <2>1. PICK w \in Workers : CallFails(w)
    BY <1>8
  <2>2. PICK e, f, a, b : /\ e = errors /\ f = errors'
                          /\ a = Cardinality(Spent) /\ b = Cardinality(Spent')
    OBVIOUS
  <2>3. f = e + 1 /\ b <= a + 1 /\ e \in Nat /\ a \in Nat
    BY <1>1, <1>2, <1>6, <2>1, <2>2, ErrorsGrow
  <2>4. b \in Nat
    <3>1. log' \in Seq(Events)
      BY TypeStep DEF TypeInv, ServersOK
    <3>2. IsFiniteSet(Spent')
      <4>1. IsFiniteSet(Workers \X (1..MaxAttempts))
        <5>1. IsFiniteSet(1..MaxAttempts)
          BY <1>0, FS_Interval
        <5> QED
          BY <5>1, FS_Product
      <4>2. Spent' \subseteq Workers \X (1..MaxAttempts)
        BY DEF Spent
      <4> QED
        BY <4>1, <4>2, FS_Subset
    <3> QED
      BY <2>2, <3>2, FS_CardinalityType
  <2> QED
    BY <2>2, <2>3, <2>4
<1>9. CASE \A w \in Workers : ~CallFails(w)
  <2>1. Cardinality(Spent') <= Cardinality(Spent) /\ Cardinality(Spent') \in Nat
    BY <1>1, <1>7, <1>9, FS_Subset, FS_CardinalityType
  <2>2. PICK e, f, a, b : /\ e = errors /\ f = errors'
                          /\ a = Cardinality(Spent) /\ b = Cardinality(Spent')
    OBVIOUS
  <2>3. e \in Nat /\ f \in Nat /\ e <= f /\ a \in Nat /\ b \in Nat /\ b <= a
    BY <1>1, <1>2, <2>1, <2>2
  <2> QED
    BY <2>2, <2>3
<1> QED
  BY <1>8, <1>9

LEMMA LossStep ==
    ASSUME IsFiniteSet(Workers), TypeInv, TypeInv', OutcomeInv, IdsInv, LogGrows, LossInv,
           [Next]_vars
    PROVE  LossInv'
<1> SUFFICES ASSUME restarts' = 0
             PROVE  (MaxAttempts + 1) * Cardinality(UntracedEvents') + Cardinality(Spent')
                       <= errors'
  BY DEF LossInv
<1>0. MaxAttempts \in Nat /\ MaxAttempts + 1 \in Nat /\ log \in Seq(Events)
      /\ log' \in Seq(Events) /\ restarts \in Nat
  BY FulfilmentAssumption DEF TypeInv, ServersOK, CountsOK
<1>1. restarts = 0
  BY <1>0 DEF Next, ServiceStep, Publish, PublishAgain, Receive, HandlerStep, CallFails, Crash,
     Rejoin, vars, IsEventProcessed, MarkEventProcessed, CreateShipment, MarkOrder, Emit, SendToDlq
<1>2. PICK u, v, a, b, e, f, K :
         /\ u = Cardinality(UntracedEvents) /\ v = Cardinality(UntracedEvents')
         /\ a = Cardinality(Spent) /\ b = Cardinality(Spent')
         /\ e = errors /\ f = errors' /\ K = MaxAttempts + 1
  OBVIOUS
<1>3. IsFiniteSet(UntracedEvents) /\ u \in Nat /\ a \in Nat
  BY <1>0, <1>2, LossFinite
<1>4. IsFiniteSet(UntracedEvents') /\ v \in Nat /\ b \in Nat
  <2>1. IsFiniteSet(DOMAIN log')
    <3>1. Len(log') \in Nat /\ DOMAIN log' = 1..Len(log')
      BY <1>0
    <3> QED
      BY <3>1, FS_Interval
  <2>2. IsFiniteSet(Services \X DOMAIN log')
    BY <2>1, ServicesFinite, FS_Product
  <2>3. UntracedEvents' \subseteq Services \X DOMAIN log'
    BY DEF UntracedEvents
  <2>4. IsFiniteSet(1..MaxAttempts)
    BY <1>0, FS_Interval
  <2>5. IsFiniteSet(Workers \X (1..MaxAttempts))
    BY <2>4, FS_Product
  <2>6. Spent' \subseteq Workers \X (1..MaxAttempts)
    BY DEF Spent
  <2>7. IsFiniteSet(UntracedEvents') /\ IsFiniteSet(Spent')
    BY <2>2, <2>3, <2>5, <2>6, FS_Subset
  <2> QED
    BY <1>2, <2>7, FS_CardinalityType
<1>5. e \in Nat /\ f \in Nat /\ e <= f
  BY <1>2, ErrorsGrow
<1>6. K * u + a <= e /\ K \in Nat
  BY <1>0, <1>1, <1>2 DEF LossInv
<1>7. CASE \E w \in Workers : pc[w] = "dlq" /\ CallFails(w)
  <2>1. PICK w \in Workers : pc[w] = "dlq" /\ CallFails(w)
    BY <1>7
  <2>2. PICK x : x = <<w[1], Event(w).id>>
    OBVIOUS
  <2>3. UntracedEvents' \subseteq UntracedEvents \cup {x}
    BY <2>1, <2>2, NewlyUntraced, OneFails
  <2>4. IsFiniteSet(UntracedEvents \cup {x}) /\ Cardinality(UntracedEvents \cup {x}) <= u + 1
        /\ Cardinality(UntracedEvents \cup {x}) \in Nat
    <3>1. /\ IsFiniteSet(UntracedEvents \cup {x})
          /\ Cardinality(UntracedEvents \cup {x}) = IF x \in UntracedEvents THEN u ELSE u + 1
      BY <1>2, <1>3, FS_AddElement
    <3> QED
      BY <1>3, <3>1
  <2>5. v <= Cardinality(UntracedEvents \cup {x})
    BY <1>2, <2>3, <2>4, FS_Subset
  <2>6. v <= u + 1
    BY <1>3, <1>4, <2>4, <2>5
  <2>7. b <= a - MaxAttempts /\ f = e + 1
    BY <1>2, <2>1, SpentAtDlq, ErrorsGrow
  <2>8. PICK p, q, r : p = K * u /\ q = K * v /\ r = K * (u + 1)
    OBVIOUS
  <2>9. /\ p \in Nat /\ q \in Nat /\ r \in Nat /\ q <= r /\ r = p + K
    <3>1. u + 1 \in Nat
      BY <1>3
    <3>2. q <= r /\ p \in Nat /\ q \in Nat /\ r \in Nat
      BY <1>3, <1>4, <1>6, <2>6, <2>8, <3>1, TimesGrows
    <3>3. r = p + K
      BY <1>3, <1>6, <2>8
    <3> QED
      BY <3>2, <3>3
  <2>10. p + a <= e
    BY <1>6, <2>8
  <2>11. K = MaxAttempts + 1
    BY <1>2
  <2>12. q + b <= f
    BY <1>0, <1>3, <1>4, <1>5, <2>7, <2>9, <2>10, <2>11
  <2> QED
    BY <1>2, <2>8, <2>12
<1>8. CASE \A w \in Workers : pc[w] = "dlq" => ~CallFails(w)
  <2>1. UntracedEvents' \subseteq UntracedEvents
    BY <1>8, NewlyUntraced
  <2>2. v <= u
    BY <1>2, <1>3, <2>1, FS_Subset
  <2>3. b + e <= a + f
    BY <1>2, <1>8, SpentOtherwise
  <2>4. PICK p, q : p = K * u /\ q = K * v
    OBVIOUS
  <2>5. q <= p /\ p \in Nat /\ q \in Nat
    BY <1>3, <1>4, <1>6, <2>2, <2>4, TimesGrows
  <2>6. p + a <= e
    BY <1>6, <2>4
  <2>7. q + b <= f
    BY <1>3, <1>4, <1>5, <2>3, <2>5, <2>6
  <2> QED
    BY <1>2, <2>4, <2>7
<1> QED
  BY <1>7, <1>8

LEMMA IdsInvariant == Spec => []IdsInv
<1>1. Init => IdsInv
  BY DEF Init, IdsInv, SameIds, MarkedWasPublished
<1>2. TypeInv /\ IdsInv /\ [Next]_vars => IdsInv'
  BY TypeStep, SameIdsStep, MarkedStep DEF IdsInv
<1> QED
  BY <1>1, <1>2, TypesInvariant, PTL DEF Spec

LEMMA LossInvariant ==
    ASSUME IsFiniteSet(Workers)
    PROVE  Spec => []LossInv
<1>1. Init => LossInv
  <2> SUFFICES ASSUME Init
               PROVE  (MaxAttempts + 1) * Cardinality(UntracedEvents) + Cardinality(Spent) <= errors
    BY DEF LossInv
  <2>1. UntracedEvents = {}
    BY DEF Init, UntracedEvents
  <2>2. Spent = {}
    BY FulfilmentAssumption DEF Init, Spent
  <2>3. Cardinality({}) = 0
    BY FS_EmptySet
  <2>4. (MaxAttempts + 1) * 0 = 0
    BY FulfilmentAssumption
  <2> QED
    BY <2>1, <2>2, <2>3, <2>4 DEF Init
<1>2. TypeInv /\ OutcomeInv /\ IdsInv /\ LossInv /\ [Next]_vars => LossInv'
  BY TypeStep, LossStep
<1> QED
  BY <1>1, <1>2, TypesInvariant, OutcomeInvariant, IdsInvariant, PTL DEF Spec

\* Marking an event before it is answered loses nothing without a crash, and
\* little with failing calls: for any number of workers, orders and duplicates,
\* every event that a service neither answered nor sent to its DLQ, and that
\* nobody is at, cost MaxAttempts failed calls and a failed emitToDlq.
THEOREM HandledAreAnswered ==
    ASSUME IsFiniteSet(Workers)
    PROVE  Spec => []AnsweredOrDlq
<1>1. TypeInv /\ IdsInv /\ LossInv => AnsweredOrDlq
  <2> SUFFICES ASSUME TypeInv, IdsInv, LossInv, restarts = 0
               PROVE  (MaxAttempts + 1) * Cardinality(GoneEvents) <= errors
    BY DEF AnsweredOrDlq
  <2>1. GoneEvents \subseteq UntracedEvents
    <3> SUFFICES ASSUME NEW s \in Services, NEW n \in DOMAIN log, Gone(s, n)
                 PROVE  <<s, log[n].id>> \in UntracedEvents
      BY DEF GoneEvents
    <3>1. PICK k : k = log[n].id
      OBVIOUS
    <3>2. k \in DOMAIN log /\ log[k] = log[n] /\ log[k].id = k
      BY <3>1 DEF IdsInv, SameIds
    <3>3. /\ log[k].type \in Consumes(s)
          /\ ~Answered(s, k)
          /\ ~InDlq(s, k)
          /\ \A m \in CopiesOf(k) : ~Handling(s, m)
          /\ k \in processed[s] \/ CopiesOf(k) \cap pending[s] = {}
      BY <3>1, <3>2 DEF Gone, Answered, InDlq, CopiesOf
    <3>4. ~WorkedOn(s, k)
      <4>1. ASSUME NEW w \in Workers, w[1] = s, AtWork(w), Event(w).id = k PROVE FALSE
        <5>1. msg[w] \in CopiesOf(k)
          BY <3>2, <4>1, EventOfWorker DEF AtWork, CopiesOf, Event
        <5> QED
          BY <3>3, <4>1, <5>1 DEF Handling
      <4> QED
        BY <4>1 DEF WorkedOn
    <3>5. Untraced(s, k)
      BY <3>2, <3>3, <3>4 DEF Untraced
    <3> QED
      BY <3>1, <3>2, <3>5 DEF UntracedEvents
  <2> DEFINE g == Cardinality(GoneEvents)
             u == Cardinality(UntracedEvents)
             a == Cardinality(Spent)
             K == MaxAttempts + 1
             P == K * g
             Q == K * u
  <2>2. errors \in Nat /\ K \in Nat /\ log \in Seq(Events)
    BY FulfilmentAssumption DEF TypeInv, ServersOK, CountsOK
  <2>3. IsFiniteSet(UntracedEvents) /\ u \in Nat /\ a \in Nat
    BY <2>2, LossFinite
  <2>4. g \in Nat /\ g <= u
    BY <2>1, <2>3, FS_Subset, FS_CardinalityType
  <2>5. P \in Nat /\ Q \in Nat /\ P <= Q
    BY <2>2, <2>3, <2>4, TimesGrows
  <2>6. Q + a <= errors
    BY DEF LossInv
  <2> HIDE DEF g, u, a, K, P, Q
  <2>7. P <= errors
    BY <2>2, <2>3, <2>5, <2>6
  <2> QED
    BY <2>7 DEF P, K, g
<1> QED
  BY <1>1, TypesInvariant, IdsInvariant, LossInvariant, PTL
-----------------------------------------------------------------------------
(* Duplicates are skipped, as far as the workers of a service can see.      *)

\* The ids of an order's events of a type that a service has marked.
Marked(s, t, o) == {log[n].id : n \in Emitted(t, o)} \cap processed[s]

\* A worker that is going to answer an event that is already marked.
Owes(w, t, o) ==
    /\ pc[w] \in {"mark", "apply", "emit"}
    /\ Event(w).type = t /\ Order(w) = o
    /\ pc[w] = "mark" => Event(w).id \in processed[w[1]]
Owing(s, t, o) == {w \in WorkersOf(s) : Owes(w, t, o)}

\* An answer is paid for by marking an id that was not marked before, which
\* lets each worker of the service past the check once, or by a failed call; a
\* worker at work owes the one it has not yet emitted.
Paid(s, t, o) ==
    Cardinality(Emitted(Answer[s][t], o)) + Cardinality(Owing(s, t, o))
        <= Cardinality(WorkersOf(s)) * Cardinality(Marked(s, t, o)) + errors

SkipInv == \A s \in Services : \A t \in Consumes(s) : \A o \in Orders : Paid(s, t, o)

\* What is in the log is finite.
LEMMA EmittedFinite ==
    ASSUME log \in Seq(Events), NEW type, NEW o
    PROVE  IsFiniteSet(Emitted(type, o)) /\ Cardinality(Emitted(type, o)) \in Nat
<1>1. Len(log) \in Nat /\ DOMAIN log = 1..Len(log)
  OBVIOUS
<1>2. IsFiniteSet(1..Len(log))
  BY <1>1, FS_Interval
<1>3. IsFiniteSet(Emitted(type, o))
  BY <1>1, <1>2, FS_Subset DEF Emitted
<1> QED
  BY <1>3, FS_CardinalityType

LEMMA MarkedFinite ==
    ASSUME log \in Seq(Events), SameIds, NEW s, NEW t, NEW o
    PROVE  /\ IsFiniteSet({log[n].id : n \in Emitted(t, o)})
           /\ IsFiniteSet(Marked(s, t, o))
           /\ Cardinality(Marked(s, t, o)) \in Nat
<1>1. Len(log) \in Nat /\ DOMAIN log = 1..Len(log)
  OBVIOUS
<1>2. IsFiniteSet(DOMAIN log)
  BY <1>1, FS_Interval
<1>3. {log[n].id : n \in Emitted(t, o)} \subseteq DOMAIN log
  BY DEF Emitted, SameIds
<1>4. Marked(s, t, o) \subseteq DOMAIN log
  BY <1>3 DEF Marked
<1> QED
  BY <1>2, <1>3, <1>4, FS_Subset, FS_CardinalityType

LEMMA OwingFinite ==
    ASSUME IsFiniteSet(Workers), NEW s, NEW t, NEW o
    PROVE  /\ IsFiniteSet(WorkersOf(s)) /\ Cardinality(WorkersOf(s)) \in Nat
           /\ IsFiniteSet(Owing(s, t, o)) /\ Cardinality(Owing(s, t, o)) \in Nat
           /\ Cardinality(Owing(s, t, o)) <= Cardinality(WorkersOf(s))
<1>1. IsFiniteSet(WorkersOf(s))
  BY FS_Subset DEF WorkersOf
<1>2. Owing(s, t, o) \subseteq WorkersOf(s)
  BY DEF Owing
<1> QED
  BY <1>1, <1>2, FS_Subset, FS_CardinalityType

\* No two services, and no two events of one service, have the same answer,
\* and the other services publish no answers.
LEMMA AnswersDiffer ==
    ASSUME NEW v \in Workers, NEW w \in Workers,
           NEW t \in Consumes(v[1]), NEW u \in Consumes(w[1])
    PROVE  /\ Answer[v[1]][t] = Answer[w[1]][u] => v[1] = w[1] /\ t = u
           /\ Answer[w[1]][u] \notin UpstreamTypes
<1>1. ASSUME NEW x \in Workers, NEW a \in Consumes(x[1])
      PROVE  <<x[1], a, Answer[x[1]][a]>> \in
                {<<"payment", "StockReserved", "PaymentCaptured">>,
                 <<"shipping", "PaymentCaptured", "ShipmentCreated">>,
                 <<"order", "ShipmentCreated", "OrderConfirmed">>,
                 <<"order", "PaymentFailed", "OrderCancelled">>,
                 <<"messageria", "OrderCreated", "ORDER_CREATED">>,
                 <<"messageria", "OrderConfirmed", "ORDER_CONFIRMED">>,
                 <<"messageria", "OrderCancelled", "ORDER_CANCELLED">>,
                 <<"messageria", "PaymentCaptured", "ORDER_PAID">>,
                 <<"messageria", "ShipmentCreated", "ORDER_SHIPPED">>}
  BY ServicesAnswer DEF Consumes, Answer
<1>2. Answer[v[1]][t] = Answer[w[1]][u] => v[1] = w[1] /\ t = u
  BY <1>1
<1>3. Answer[w[1]][u] \notin UpstreamTypes
  BY <1>1 DEF UpstreamTypes
<1> QED
  BY <1>2, <1>3

\* A worker comes to owe an answer because its call failed, or because its
\* event, which was not marked, is marked now.
LEMMA NewDebt ==
    ASSUME TypeInv, LogGrows, [Next]_vars, NEW w \in Workers, NEW t, NEW o,
           ~Owes(w, t, o), Owes(w, t, o)'
    PROVE  \/ CallFails(w)
           \/ /\ pc[w] = "mark" /\ Event(w).type = t /\ Order(w) = o
              /\ Event(w).id \notin processed[w[1]]
              /\ Event(w).id \in processed'[w[1]]
              /\ log' = log
<1> USE DEF At
<1>0. /\ pc \in [Workers -> {"idle", "check", "mark", "apply", "emit", "dlq"}]
      /\ msg \in [Workers -> Nat] /\ processed \in [Services -> SUBSET Nat]
      /\ w[1] \in Services
  BY ServicesAnswer DEF TypeInv, WorkersOK, ServersOK
<1>1. pc[w] # "idle" => \A n : n = msg[w] => log'[n] = log[n]
  BY EventOfWorker DEF LogGrows
<1>2. pc[w] # "idle" /\ msg'[w] = msg[w] => Event(w)' = Event(w) /\ Order(w)' = Order(w)
  BY <1>1 DEF Event, Order
<1>3. pc'[w] \in {"mark", "apply", "emit"}
  BY DEF Owes
<1>4. processed' # processed => log' = log
  BY WhoMarks
<1>5. CASE pc'[w] = pc[w] /\ msg'[w] = msg[w]
  BY <1>2, <1>3, <1>4, <1>5 DEF Owes
<1>6. ~Receive(w) /\ ~Crash(w)
  BY <1>0, <1>3 DEF Receive, Crash, Finish, Goto
<1>7. CASE HandlerStep(w)
  <2>1. CASE IsEventProcessed(w)
    <3>1. /\ pc'[w] = "mark" /\ msg'[w] = msg[w] /\ pc[w] # "idle"
          /\ Event(w).id \notin processed[w[1]] /\ processed' = processed
      BY <1>0, <1>3, <2>1 DEF IsEventProcessed, Finish, Goto, servers
    <3> QED
      BY <1>2, <3>1 DEF Owes
  <2>2. CASE MarkEventProcessed(w)
    <3>1. pc[w] = "mark" /\ msg'[w] = msg[w] /\ MarkProcessed(w)
      BY <2>2 DEF MarkEventProcessed
    <3>2. Event(w).id \in processed'[w[1]] /\ log' = log
      BY <1>0, <3>1 DEF MarkProcessed
    <3> QED
      BY <1>2, <3>1, <3>2 DEF Owes
  <2>3. CASE CreateShipment(w)
    <3>1. pc[w] = "apply" /\ msg'[w] = msg[w]
      BY <2>3 DEF CreateShipment
    <3> QED
      BY <1>2, <3>1 DEF Owes
  <2>4. CASE MarkOrder(w)
    <3>1. pc[w] = "apply" /\ msg'[w] = msg[w]
      BY <1>0, <1>3, <2>4 DEF MarkOrder, Finish, Goto
    <3> QED
      BY <1>2, <3>1 DEF Owes
  <2>5. ~Emit(w) /\ ~SendToDlq(w)
    BY <1>0, <1>3 DEF Emit, SendToDlq, Finish, Goto
  <2> QED
    BY <1>7, <2>1, <2>2, <2>3, <2>4, <2>5 DEF HandlerStep
<1> QED
  BY <1>5, <1>6, <1>7, OwnSteps

\* Ids stay marked.
LEMMA MarkedGrows ==
    ASSUME TypeInv, ServersOK', SameIds', LogGrows, [Next]_vars,
           NEW s \in Services, NEW t, NEW o
    PROVE  /\ Marked(s, t, o) \subseteq Marked(s, t, o)'
           /\ IsFiniteSet(Marked(s, t, o)')
           /\ Cardinality(Marked(s, t, o)') \in Nat
           /\ Cardinality(Marked(s, t, o)) <= Cardinality(Marked(s, t, o)')
<1>0. processed \in [Services -> SUBSET Nat]
  BY DEF TypeInv, ServersOK
<1>1. processed[s] \subseteq processed'[s]
  BY <1>0, WhoMarks
<1>2. \A n \in Emitted(t, o) : n \in Emitted(t, o)' /\ log'[n].id = log[n].id
  BY DEF LogGrows, Emitted
<1>3. Marked(s, t, o) \subseteq Marked(s, t, o)'
  BY <1>1, <1>2 DEF Marked
<1>4. log' \in Seq(Events)
  BY DEF ServersOK
<1>5. IsFiniteSet(Marked(s, t, o)')
  <2>1. Len(log') \in Nat /\ DOMAIN log' = 1..Len(log')
    BY <1>4
  <2>2. IsFiniteSet(DOMAIN log')
    BY <2>1, FS_Interval
  <2>3. Marked(s, t, o)' \subseteq DOMAIN log'
    BY DEF Marked, Emitted, SameIds
  <2> QED
    BY <2>2, <2>3, FS_Subset
<1> QED
  BY <1>3, <1>5, FS_Subset, FS_CardinalityType

\* The answers of a service to an order's events grow by one when a worker that
\* owes one emits it, and by no other step.
LEMMA AnswersStep ==
    ASSUME TypeInv, [Next]_vars,
           NEW s \in Services, NEW t \in Consumes(s), NEW o \in Orders
    PROVE  \/ Emitted(Answer[s][t], o)' = Emitted(Answer[s][t], o)
           \/ /\ log' # log
              /\ Cardinality(Emitted(Answer[s][t], o)')
                   = Cardinality(Emitted(Answer[s][t], o)) + 1
              /\ \E w \in WorkersOf(s) : /\ Owes(w, t, o)
                                         /\ \/ Emit(w) /\ ~Owes(w, t, o)'
                                            \/ CallFails(w)
<1> DEFINE a == Answer[s][t]
           Pays(w) == /\ Owes(w, t, o)
                      /\ (Emit(w) /\ ~Owes(w, t, o)') \/ CallFails(w)
<1>0. log \in Seq(Events) /\ pc \in [Workers -> {"idle", "check", "mark", "apply", "emit", "dlq"}]
  BY DEF TypeInv, ServersOK, WorkersOK
<1>00. PICK u \in Workers : s = u[1]
  BY DEF Services
<1>1. CASE log' = log
  BY <1>1 DEF Emitted
<1>2. ASSUME NEW e, Appends(e), e.type # a \/ e.order # o
      PROVE  Emitted(a, o)' = Emitted(a, o)
  <2>1. PICK k \in Nat : /\ k \notin DOMAIN log
                         /\ DOMAIN log' = DOMAIN log \cup {k}
                         /\ \A n \in DOMAIN log : log'[n] = log[n]
                         /\ log'[k] = e
    BY <1>2, AppendAdds
  <2> QED
    BY <1>2, <2>1 DEF Emitted
<1>3. ASSUME NEW e, Appends(e), e.type = a /\ e.order = o
      PROVE  log' # log /\ Cardinality(Emitted(a, o)') = Cardinality(Emitted(a, o)) + 1
  <2>1. PICK k \in Nat : /\ k \notin DOMAIN log
                         /\ DOMAIN log' = DOMAIN log \cup {k}
                         /\ \A n \in DOMAIN log : log'[n] = log[n]
                         /\ log'[k] = e
    BY <1>3, AppendAdds
  <2>2. Emitted(a, o)' = Emitted(a, o) \cup {k} /\ k \notin Emitted(a, o)
    BY <1>3, <2>1 DEF Emitted
  <2>3. log' # log
    BY <2>1
  <2> QED
    BY <1>0, <2>2, <2>3, EmittedFinite, FS_AddElement
<1>4. a \notin UpstreamTypes
  BY <1>00, AnswersDiffer
<1>5. ASSUME NEW e, Publishes(e) PROVE Emitted(a, o)' = Emitted(a, o)
  BY <1>2, <1>4, <1>5 DEF Publishes
<1>6. ASSUME NEW v \in Workers, pc[v] = "emit", EmitAnswer(v), Emit(v) \/ CallFails(v)
      PROVE  \/ Emitted(a, o)' = Emitted(a, o)
             \/ /\ log' # log
                /\ Cardinality(Emitted(a, o)') = Cardinality(Emitted(a, o)) + 1
                /\ v \in WorkersOf(s) /\ Pays(v)
  <2> DEFINE e == Fresh(Answer[v[1]][Event(v).type], Order(v))
  <2>1. Appends(e) /\ e.type = Answer[v[1]][Event(v).type] /\ e.order = Order(v)
    BY <1>6 DEF EmitAnswer, Fresh
  <2> HIDE DEF e
  <2>2. CASE e.type # a \/ e.order # o
    BY <1>2, <2>1, <2>2
  <2>3. CASE e.type = a /\ e.order = o
    <3>1. Event(v).type \in Consumes(v[1])
      BY <1>6, EventOfWorker
    <3>2. \A b \in Consumes(v[1]) : Answer[v[1]][b] = a => v[1] = s /\ b = t
      BY <1>00, AnswersDiffer
    <3>3. v[1] = s /\ Event(v).type = t
      BY <2>1, <2>3, <3>1, <3>2
    <3>4. v \in WorkersOf(s) /\ Owes(v, t, o)
      BY <1>6, <2>1, <2>3, <3>3 DEF Owes, WorkersOf
    <3>5. Emit(v) => ~Owes(v, t, o)'
      BY <1>0 DEF Emit, Finish, Goto, Owes
    <3> QED
      BY <1>3, <1>6, <2>1, <2>3, <3>4, <3>5
  <2> QED
    BY <2>2, <2>3
<1>7. \/ log' = log
      \/ \E v \in Workers : pc[v] = "emit" /\ EmitAnswer(v) /\ (Emit(v) \/ CallFails(v))
      \/ \E e : Publishes(e)
  <2>1. ASSUME ServiceStep
        PROVE  \/ log' = log
               \/ \E v \in Workers : pc[v] = "emit" /\ EmitAnswer(v) /\ (Emit(v) \/ CallFails(v))
    <3>1. ASSUME NEW v \in Workers, CallFails(v)
          PROVE  log' = log \/ (pc[v] = "emit" /\ EmitAnswer(v))
      BY <3>1 DEF CallFails, Landed, Redeliver, servers, MarkProcessed, UpsertShipment, SetStatus,
         EmitToDlq, At
    <3>2. ASSUME NEW v \in Workers, HandlerStep(v)
          PROVE  log' = log \/ (pc[v] = "emit" /\ EmitAnswer(v) /\ Emit(v))
      BY <3>2 DEF HandlerStep, IsEventProcessed, MarkEventProcessed, CreateShipment, MarkOrder,
         Emit, SendToDlq, servers, MarkProcessed, UpsertShipment, SetStatus, EmitToDlq, At
    <3>3. ASSUME NEW v \in Workers, Receive(v) \/ Crash(v) PROVE log' = log
      BY <3>3 DEF Receive, Crash, servers
    <3>4. ASSUME NEW g \in Services, Rejoin(g) PROVE log' = log
      BY <3>4 DEF Rejoin
    <3> QED
      BY <2>1, <3>1, <3>2, <3>3, <3>4 DEF ServiceStep
  <2>2. UNCHANGED vars => log' = log
    BY DEF vars, servers
  <2> QED
    BY <2>1, <2>2, PublishPublishes, PublishAgainPublishes DEF Next
<1> HIDE DEF a, Pays
<1>8. \/ Emitted(a, o)' = Emitted(a, o)
      \/ /\ log' # log
         /\ Cardinality(Emitted(a, o)') = Cardinality(Emitted(a, o)) + 1
         /\ \E v \in WorkersOf(s) : Pays(v)
  BY <1>1, <1>5, <1>6, <1>7 DEF Emitted
<1> QED
  BY <1>8 DEF a, Pays

\* Errors are only added to, and a failed call is one.
LEMMA PaidStep ==
    ASSUME IsFiniteSet(Workers),
           TypeInv, TypeInv', SameIds, SameIds', LogGrows, [Next]_vars,
           NEW s \in Services, NEW t \in Consumes(s), NEW o \in Orders, Paid(s, t, o)
    PROVE  Paid(s, t, o)'
<1> DEFINE A == Cardinality(Emitted(Answer[s][t], o))
           B == Cardinality(Emitted(Answer[s][t], o)')
           C == Cardinality(Owing(s, t, o))
           D == Cardinality(Owing(s, t, o)')
           M == Cardinality(Marked(s, t, o))
           N == Cardinality(Marked(s, t, o)')
           K == Cardinality(WorkersOf(s))
           P == K * M
           Q == K * N
           New(w) == ~Owes(w, t, o) /\ Owes(w, t, o)'
           Marks(w) == /\ pc[w] = "mark" /\ Event(w).type = t /\ Order(w) = o
                       /\ Event(w).id \notin processed[s]
                       /\ Event(w).id \in processed'[s]
                       /\ log' = log
<1>1. log \in Seq(Events) /\ A \in Nat
  BY EmittedFinite DEF TypeInv, ServersOK
<1>2. M \in Nat
  BY <1>1, MarkedFinite
<1>3. N \in Nat /\ M <= N /\ IsFiniteSet(Marked(s, t, o)')
  BY MarkedGrows DEF TypeInv
<1>4. /\ IsFiniteSet(WorkersOf(s)) /\ K \in Nat
      /\ IsFiniteSet(Owing(s, t, o)) /\ C \in Nat
  BY OwingFinite
<1>5. Owing(s, t, o)' \subseteq WorkersOf(s)
  BY DEF Owing, WorkersOf
<1>6. D \in Nat /\ D <= K /\ IsFiniteSet(Owing(s, t, o)')
  BY <1>4, <1>5, FS_Subset, FS_CardinalityType
<1>7. errors \in Nat /\ errors' \in Nat /\ errors <= errors'
  BY ErrorsGrow
<1>8. A + C <= P + errors
  BY DEF Paid
<1>9. P \in Nat /\ Q \in Nat /\ P <= Q /\ (M + 1 <= N => P + K <= Q)
  BY <1>2, <1>3, <1>4, TimesGrows
<1>10. \A w \in WorkersOf(s) : New(w) => CallFails(w) \/ Marks(w)
  BY NewDebt DEF WorkersOf
<1>11. B + D <= Q + errors' => Paid(s, t, o)'
  BY DEF Paid, Owing, WorkersOf
<1>12. PICK e, f : e = errors /\ f = errors'
  OBVIOUS
<1>13. B = A \/ B = A + 1
  BY AnswersStep
<1>14. /\ A \in Nat /\ B \in Nat /\ C \in Nat /\ D \in Nat /\ K \in Nat
       /\ P \in Nat /\ Q \in Nat /\ e \in Nat /\ f \in Nat
       /\ A + C <= P + e /\ P <= Q /\ e <= f /\ D <= K
  <2> HIDE DEF A, B, C, D, K, M, N, P, Q
  <2> QED
    BY <1>1, <1>4, <1>6, <1>7, <1>8, <1>9, <1>13, <1>12
<1>15. ASSUME NEW w \in WorkersOf(s), Marks(w) PROVE M + 1 <= N /\ B = A
  <2>1. w \in Workers /\ w[1] = s
    BY DEF WorkersOf
  <2>2. msg[w] \in DOMAIN log
    BY <1>15, <2>1, EventOfWorker
  <2>3. msg[w] \in Emitted(t, o) /\ log[msg[w]].id = Event(w).id
    BY <1>15, <2>2 DEF Emitted, Event, Order
  <2>4. Marked(s, t, o)' = {log[n].id : n \in Emitted(t, o)} \cap processed'[s]
    BY <1>15 DEF Marked, Emitted
  <2>5. Event(w).id \in Marked(s, t, o)' /\ Event(w).id \notin Marked(s, t, o)
    BY <1>15, <2>3, <2>4 DEF Marked
  <2>6. Marked(s, t, o) \cup {Event(w).id} \subseteq Marked(s, t, o)'
    BY <2>5, MarkedGrows DEF TypeInv
  <2>7. Cardinality(Marked(s, t, o) \cup {Event(w).id}) = M + 1
    BY <1>1, <2>5, MarkedFinite, FS_AddElement
  <2>8. M + 1 <= N
    BY <1>3, <2>6, <2>7, FS_Subset
  <2>9. B = A
    BY <1>15 DEF Emitted
  <2> QED
    BY <2>8, <2>9
<1>16. ASSUME \A w \in WorkersOf(s) : ~New(w)
       PROVE  D <= C
  <2>1. Owing(s, t, o)' \subseteq Owing(s, t, o)
    BY <1>16 DEF Owing, WorkersOf
  <2> QED
    BY <1>4, <2>1, FS_Subset
<1>17. ASSUME NEW v \in WorkersOf(s), CallFails(v), \A w \in WorkersOf(s) : New(w) => CallFails(w)
       PROVE  D <= C + 1
  <2>1. v \in Workers /\ \A w \in WorkersOf(s) : New(w) => w = v
    BY <1>17, OneFails DEF WorkersOf
  <2>2. Owing(s, t, o)' \subseteq Owing(s, t, o) \cup {v}
    BY <2>1 DEF Owing, WorkersOf
  <2>3. /\ IsFiniteSet(Owing(s, t, o) \cup {v})
        /\ Cardinality(Owing(s, t, o) \cup {v}) <= C + 1
    <3>1. Cardinality(Owing(s, t, o) \cup {v}) \in {C, C + 1}
      BY <1>4, FS_AddElement
    <3> QED
      BY <1>4, <3>1, FS_AddElement
  <2>4. Cardinality(Owing(s, t, o) \cup {v}) \in Nat /\ D <= Cardinality(Owing(s, t, o) \cup {v})
    BY <2>2, <2>3, FS_Subset, FS_CardinalityType
  <2> QED
    BY <1>4, <1>6, <2>3, <2>4
<1>18. CASE \E w \in WorkersOf(s) : Marks(w)
  <2>1. M + 1 <= N /\ B = A
    BY <1>15, <1>18
  <2> HIDE DEF A, B, C, D, K, M, N, P, Q
  <2>2. B + D <= Q + f
    BY <1>9, <1>14, <2>1
  <2> QED
    BY <1>12, <1>11, <2>2
<1>19. CASE /\ \A w \in WorkersOf(s) : ~Marks(w)
            /\ Emitted(Answer[s][t], o)' = Emitted(Answer[s][t], o)
  <2>1. B = A
    BY <1>19
  <2>2. D <= C \/ (f = e + 1 /\ D <= C + 1)
    <3>1. CASE \A w \in WorkersOf(s) : ~New(w)
      BY <1>16, <3>1
    <3>2. CASE \E w \in WorkersOf(s) : New(w)
      <4>1. PICK v \in WorkersOf(s) : CallFails(v)
        BY <1>10, <1>19, <3>2
      <4>2. f = e + 1
        BY <1>12, <4>1, ErrorsGrow DEF WorkersOf
      <4>3. D <= C + 1
        BY <1>10, <1>17, <1>19, <4>1
      <4> QED
        BY <4>2, <4>3
    <3> QED
      BY <3>1, <3>2
  <2> HIDE DEF A, B, C, D, K, M, N, P, Q
  <2>3. B + D <= Q + f
    BY <1>14, <2>1, <2>2
  <2> QED
    BY <1>12, <1>11, <2>3
<1>20. ASSUME B = A + 1, log' # log,
              NEW v \in WorkersOf(s), Owes(v, t, o),
              (Emit(v) /\ ~Owes(v, t, o)') \/ CallFails(v)
       PROVE  Paid(s, t, o)'
  <2>1. v \in Workers /\ ~New(v)
    BY <1>20 DEF WorkersOf
  <2>2. \A w \in WorkersOf(s) : ~New(w)
    <3>1. SUFFICES ASSUME NEW w \in WorkersOf(s), New(w) PROVE FALSE
      OBVIOUS
    <3>2. w \in Workers /\ CallFails(w)
      BY <1>10, <1>20, <3>1 DEF WorkersOf
    <3>3. CallFails(v)
      BY <1>7, <1>20, <2>1, <3>2, ErrorsGrow
    <3> QED
      BY <2>1, <3>1, <3>2, <3>3, OneFails
  <2>3. D <= C
    BY <1>16, <2>2
  <2>4. f = e + 1 \/ D + 1 <= C
    <3>1. CASE CallFails(v)
      BY <1>12, <2>1, <3>1, ErrorsGrow
    <3>2. CASE ~Owes(v, t, o)'
      <4>1. Owing(s, t, o)' \subseteq Owing(s, t, o) \ {v} /\ v \in Owing(s, t, o)
        BY <1>20, <2>2, <3>2 DEF Owing, WorkersOf
      <4>2. /\ IsFiniteSet(Owing(s, t, o) \ {v})
            /\ Cardinality(Owing(s, t, o) \ {v}) = C - 1
        BY <1>4, <4>1, FS_RemoveElement
      <4>3. D <= C - 1
        BY <4>1, <4>2, FS_Subset
      <4> QED
        BY <1>4, <1>6, <4>3
    <3> QED
      BY <1>20, <3>1, <3>2
  <2> HIDE DEF A, B, C, D, K, M, N, P, Q
  <2>5. B + D <= Q + f
    BY <1>20, <1>14, <2>3, <2>4
  <2> QED
    BY <1>12, <1>11, <2>5
<1>21. CASE Emitted(Answer[s][t], o)' = Emitted(Answer[s][t], o)
  BY <1>18, <1>19, <1>21
<1> QED
  BY <1>20, <1>21, AnswersStep

LEMMA SkipInvariant ==
    ASSUME IsFiniteSet(Workers)
    PROVE  Spec => []SkipInv
<1>1. Init => SkipInv
  <2> SUFFICES ASSUME Init, NEW s \in Services, NEW t \in Consumes(s), NEW o \in Orders
               PROVE  Paid(s, t, o)
    BY DEF SkipInv
  <2>1. Emitted(Answer[s][t], o) = {} /\ Emitted(t, o) = {}
    BY DEF Init, Emitted
  <2>2. Owing(s, t, o) = {}
    BY DEF Init, Owing, Owes, WorkersOf
  <2>3. Marked(s, t, o) = {}
    BY <2>1 DEF Marked
  <2>4. Cardinality({}) = 0
    BY FS_EmptySet
  <2>5. errors = 0
    BY DEF Init
  <2>6. Cardinality(WorkersOf(s)) \in Nat
    BY OwingFinite
  <2>7. Cardinality(WorkersOf(s)) * 0 = 0
    BY <2>6
  <2> QED
    BY <2>1, <2>2, <2>3, <2>4, <2>5, <2>7 DEF Paid
<1>2. TypeInv /\ IdsInv /\ IdsInv' /\ SkipInv /\ [Next]_vars => SkipInv'
  BY TypeStep, PaidStep DEF SkipInv, IdsInv, Services
<1> QED
  BY <1>1, <1>2, TypesInvariant, IdsInvariant, PTL DEF Spec

\* Duplicate events are skipped as far as the workers of a service see each
\* other's marks: for any number of orders, workers, duplicates and crashes, an
\* order gets at most one answer of a kind for each different event to answer
\* and each worker of the service, and one more for each failed call.
THEOREM DuplicatesSkipped ==
    ASSUME IsFiniteSet(Workers)
    PROVE  Spec => []DuplicatesAreSkipped
<1>1. TypeInv /\ IdsInv /\ SkipInv => DuplicatesAreSkipped
  <2> SUFFICES ASSUME TypeInv, IdsInv, SkipInv,
                      NEW s \in Services, NEW t \in Consumes(s), NEW o \in Orders
               PROVE  Cardinality(Emitted(Answer[s][t], o))
                         <= Cardinality(WorkersOf(s))
                              * Cardinality({log[n].id : n \in Emitted(t, o)}) + errors
    BY DEF DuplicatesAreSkipped
  <2> DEFINE ids == {log[n].id : n \in Emitted(t, o)}
             A == Cardinality(Emitted(Answer[s][t], o))
             C == Cardinality(Owing(s, t, o))
             K == Cardinality(WorkersOf(s))
             M == Cardinality(Marked(s, t, o))
             N == Cardinality(ids)
             P == K * M
             Q == K * N
  <2>1. log \in Seq(Events) /\ SameIds /\ errors \in Nat
    BY DEF TypeInv, ServersOK, CountsOK, IdsInv
  <2>2. IsFiniteSet(ids) /\ Marked(s, t, o) \subseteq ids
    BY <2>1, MarkedFinite DEF Marked
  <2>3. M <= N /\ N \in Nat
    BY <2>2, FS_Subset, FS_CardinalityType
  <2>4. M \in Nat /\ A \in Nat
    BY <2>1, MarkedFinite, EmittedFinite
  <2>5. C \in Nat /\ K \in Nat
    BY OwingFinite
  <2>6. P \in Nat /\ Q \in Nat /\ P <= Q
    BY <2>3, <2>4, <2>5, TimesGrows
  <2>7. A + C <= P + errors
    BY DEF SkipInv, Paid
  <2> HIDE DEF ids, A, C, K, M, N, P, Q
  <2>8. A <= Q + errors
    BY <2>1, <2>3, <2>4, <2>5, <2>6, <2>7
  <2> QED
    BY <2>8 DEF ids, A, K, N, Q
<1> QED
  BY <1>1, SkipInvariant, TypesInvariant, IdsInvariant, PTL
=============================================================================
