----------------------------- MODULE Fulfilment -----------------------------
(***************************************************************************)
(* The choreography after the stock is reserved: the payment, shipping,    *)
(* order and messageria consumers, each a group of workers that share a    *)
(* database and answer the events of one service with events for the next. *)
(*                                                                         *)
(* All four run the same handler: look for the event among the processed   *)
(* ones, then, under withRetryAndDlq, mark it processed, update the        *)
(* service's own table (shipping and order only), and emit the answer.     *)
(* Each of these is an await, and a step here.                             *)
(*                                                                         *)
(* The log is all the topics in one sequence.  A group has the positions   *)
(* of the log it has yet to handle: their order does not matter here, as   *)
(* no two events of one topic that a group answers differently are about   *)
(* the same order, those of messageria apart, which keeps no state.  No    *)
(* consumer commits an offset (autoCommit: false) and every group starts   *)
(* at the end of its topics (fromBeginning: false).                        *)
(***************************************************************************)
EXTENDS Naturals, Sequences, FiniteSets

CONSTANTS
    Orders,        \* the orders of the orders table
    Workers,       \* <<service, number>>; each handles one message at a time
    MaxPublished,  \* bound on the events of each other service, per order
    MaxAttempts,   \* maxAttempts of withRetryAndDlq
    MaxErrors,     \* bound on failed calls
    MaxRestarts    \* bound on crashes and on groups that rejoin

\* What each service answers an event with.  Messageria's NotificationSent
\* goes by its kind.
Answer ==
    [payment    |-> [StockReserved   |-> "PaymentCaptured"],
     shipping   |-> [PaymentCaptured |-> "ShipmentCreated"],
     order      |-> [ShipmentCreated |-> "OrderConfirmed",
                     PaymentFailed   |-> "OrderCancelled"],
     messageria |-> [OrderCreated    |-> "ORDER_CREATED",
                     OrderConfirmed  |-> "ORDER_CONFIRMED",
                     OrderCancelled  |-> "ORDER_CANCELLED",
                     PaymentCaptured |-> "ORDER_PAID",
                     ShipmentCreated |-> "ORDER_SHIPPED"]]

Services == {w[1] : w \in Workers}
Consumes(s) == DOMAIN Answer[s]
NewStatus == [ShipmentCreated |-> "CONFIRMED", PaymentFailed |-> "CANCELLED"]

\* What these services consume and others publish: the outbox worker, the
\* inventory, and whoever declines a payment.
UpstreamTypes == {"OrderCreated", "StockReserved", "PaymentFailed"}
Types == UpstreamTypes \cup UNION {{Answer[s][t] : t \in Consumes(s)} : s \in DOMAIN Answer}

\* The event that each of them answers.
Cause == [StockReserved |-> "OrderCreated", PaymentFailed |-> "StockReserved"]

ASSUME FulfilmentAssumption ==
    /\ Workers \subseteq (DOMAIN Answer) \X Nat
    /\ MaxPublished \in [UpstreamTypes -> Nat]
    /\ MaxAttempts \in Nat \ {0}
    /\ MaxErrors \in Nat
    /\ MaxRestarts \in Nat

VARIABLES
    log,                   \* every event published, in order
    pending,               \* positions of the log each group has yet to handle
    processed,             \* processed_events of each service's database
    shipments,             \* the orders with a row in shipments
    status,                \* orders.status
    dlq,                   \* <<service, event>> sent to a DLQ
    pc, msg, attempt,      \* each worker: where it is, the position it handles
    errors, restarts

servers == <<log, pending, processed, shipments, status, dlq>>
worker == <<pc, msg, attempt>>
vars == <<servers, worker, errors, restarts>>

Init ==
    /\ log = <<>>
    /\ pending = [s \in Services |-> {}]
    /\ processed = [s \in Services |-> {}]
    /\ shipments = {}
    /\ status = [o \in Orders |-> "PENDING"]
    /\ dlq = {}
    /\ pc = [w \in Workers |-> "idle"]
    /\ msg = [w \in Workers |-> 0]
    /\ attempt = [w \in Workers |-> 1]
    /\ errors = 0
    /\ restarts = 0

At(w, label) == pc[w] = label
Event(w) == log[msg[w]]
Order(w) == Event(w).order
Goto(w, label) == pc' = [pc EXCEPT ![w] = label]

Finish(w) ==
    /\ Goto(w, "idle")
    /\ msg' = [msg EXCEPT ![w] = 0]
    /\ attempt' = [attempt EXCEPT ![w] = 1]

\* Mutated form: the DLQ is never reached.
GiveUpSilently(w) ==
    IF attempt[w] < MaxAttempts
    THEN /\ Goto(w, "mark")
         /\ attempt' = [attempt EXCEPT ![w] = @ + 1]
         /\ UNCHANGED msg
    ELSE Finish(w)

\* Mutated form: one attempt too many.
ThrowLate(w) ==
    /\ IF attempt[w] <= MaxAttempts
       THEN /\ Goto(w, "mark")
            /\ attempt' = [attempt EXCEPT ![w] = @ + 1]
       ELSE /\ Goto(w, "dlq")
            /\ UNCHANGED attempt
    /\ UNCHANGED msg

\* process() threw: withRetryAndDlq calls it again, or turns to the DLQ.
Throw(w) ==
    /\ IF attempt[w] < MaxAttempts
       THEN /\ Goto(w, "mark")
            /\ attempt' = [attempt EXCEPT ![w] = @ + 1]
       ELSE /\ Goto(w, "dlq")
            /\ UNCHANGED attempt
    /\ UNCHANGED msg

-----------------------------------------------------------------------------
(* What a call does to the server it is made to.                           *)

MarkProcessed(w) ==
    /\ processed' = [processed EXCEPT ![w[1]] = @ \cup {Event(w).id}]
    /\ UNCHANGED <<log, pending, shipments, status, dlq>>

UpsertShipment(w) ==
    /\ shipments' = shipments \cup {Order(w)}
    /\ UNCHANGED <<log, pending, processed, status, dlq>>

\* Mutated form: updateMany without status: 'PENDING'.
SetStatusAnyway(w) ==
    /\ status' = [status EXCEPT ![Order(w)] = NewStatus[Event(w).type]]
    /\ UNCHANGED <<log, pending, processed, shipments, dlq>>

SetStatus(w) ==
    /\ status[Order(w)] = "PENDING"
    /\ status' = [status EXCEPT ![Order(w)] = NewStatus[Event(w).type]]
    /\ UNCHANGED <<log, pending, processed, shipments, dlq>>

\* An event goes to its topic, and so to every group that reads it.
Appends(e) ==
    /\ log' = Append(log, e)
    /\ pending' = [s \in Services |->
           IF e.type \in Consumes(s) THEN pending[s] \cup {Len(log) + 1} ELSE pending[s]]
    /\ UNCHANGED <<processed, shipments, status, dlq>>

\* emit: a fresh event id, whoever emits the answer a second time.
Fresh(type, o) == [id |-> Len(log) + 1, type |-> type, order |-> o]
EmitAnswer(w) == Appends(Fresh(Answer[w[1]][Event(w).type], Order(w)))

EmitToDlq(w) ==
    /\ dlq' = dlq \cup {<<w[1], Event(w)>>}
    /\ UNCHANGED <<log, pending, processed, shipments, status>>
-----------------------------------------------------------------------------
(* The other services.                                                     *)

Emitted(type, o) == {n \in DOMAIN log : log[n].type = type /\ log[n].order = o}
Caused(type, o) == type \in DOMAIN Cause => Emitted(Cause[type], o) # {}

Publish(type, o) ==
    /\ Caused(type, o)
    /\ Cardinality(Emitted(type, o)) < MaxPublished[type]
    /\ Appends(Fresh(type, o))
    /\ UNCHANGED <<worker, errors, restarts>>

\* The outbox worker emits a row again, with the row's event id.
PublishAgain(o) ==
    /\ Cardinality(Emitted("OrderCreated", o)) < MaxPublished["OrderCreated"]
    /\ \E n \in Emitted("OrderCreated", o) : Appends(log[n])
    /\ UNCHANGED <<worker, errors, restarts>>
-----------------------------------------------------------------------------
(* The handler.                                                            *)

Receive(w) ==
    /\ At(w, "idle")
    /\ \E n \in pending[w[1]] :
          /\ pending' = [pending EXCEPT ![w[1]] = @ \ {n}]
          /\ msg' = [msg EXCEPT ![w] = n]
    /\ Goto(w, "check")
    /\ UNCHANGED <<log, processed, shipments, status, dlq, attempt, errors, restarts>>

\* Mutated form: every event is new.
NoCheck(w) ==
    /\ At(w, "check")
    /\ Goto(w, "mark")
    /\ UNCHANGED <<servers, msg, attempt, errors, restarts>>

\* Outside of withRetryAndDlq: not repeated by a retry.
IsEventProcessed(w) ==
    /\ At(w, "check")
    /\ IF Event(w).id \in processed[w[1]]
       THEN Finish(w)
       ELSE Goto(w, "mark") /\ UNCHANGED <<msg, attempt>>
    /\ UNCHANGED <<servers, errors, restarts>>

\* Mutated form: shipping emits first.
MarkAndEmit(w) ==
    /\ At(w, "mark")
    /\ MarkProcessed(w)
    /\ Goto(w, IF w[1] = "order" THEN "apply" ELSE "emit")
    /\ UNCHANGED <<msg, attempt, errors, restarts>>

MarkEventProcessed(w) ==
    /\ At(w, "mark")
    /\ MarkProcessed(w)
    /\ Goto(w, IF w[1] \in {"shipping", "order"} THEN "apply" ELSE "emit")
    /\ UNCHANGED <<msg, attempt, errors, restarts>>

CreateShipment(w) ==
    /\ At(w, "apply")
    /\ w[1] = "shipping"
    /\ UpsertShipment(w)
    /\ Goto(w, "emit")
    /\ UNCHANGED <<msg, attempt, errors, restarts>>

\* Mutated form: nothing is emitted after the update.
MarkOrderQuietly(w) ==
    /\ At(w, "apply")
    /\ w[1] = "order"
    /\ Finish(w)
    /\ \/ SetStatus(w)
       \/ status[Order(w)] # "PENDING" /\ UNCHANGED servers
    /\ UNCHANGED <<errors, restarts>>

\* Mutated form: the count of updateMany is not looked at.
MarkOrderUnchecked(w) ==
    /\ At(w, "apply")
    /\ w[1] = "order"
    /\ \/ SetStatus(w)
       \/ status[Order(w)] # "PENDING" /\ UNCHANGED servers
    /\ Goto(w, "emit")
    /\ UNCHANGED <<msg, attempt, errors, restarts>>

\* markConfirmed and markCancelled: with nothing updated, nothing is emitted.
MarkOrder(w) ==
    /\ At(w, "apply")
    /\ w[1] = "order"
    /\ \/ SetStatus(w) /\ Goto(w, "emit") /\ UNCHANGED <<msg, attempt>>
       \/ status[Order(w)] # "PENDING" /\ Finish(w) /\ UNCHANGED servers
    /\ UNCHANGED <<errors, restarts>>

Emit(w) ==
    /\ At(w, "emit")
    /\ EmitAnswer(w)
    /\ Finish(w)
    /\ UNCHANGED <<errors, restarts>>

SendToDlq(w) ==
    /\ At(w, "dlq")
    /\ EmitToDlq(w)
    /\ Finish(w)
    /\ UNCHANGED <<errors, restarts>>
-----------------------------------------------------------------------------
(* Failures.                                                               *)

\* The effect a failed call may have had all the same.
Landed(w) ==
    \/ UNCHANGED servers
    \/ At(w, "mark") /\ MarkProcessed(w)
    \/ At(w, "apply") /\ w[1] = "shipping" /\ UpsertShipment(w)
    \/ At(w, "apply") /\ w[1] = "order" /\ SetStatus(w)
    \/ At(w, "emit") /\ EmitAnswer(w)
    \/ At(w, "dlq") /\ EmitToDlq(w)

\* Nothing catches an error of isEventProcessed: NestJS hands it to the broker's
\* client, which delivers the message again.
Redeliver(w) ==
    /\ pending' = [pending EXCEPT ![w[1]] = @ \cup {msg[w]}]
    /\ UNCHANGED <<log, processed, shipments, status, dlq>>

\* Only what withRetryAndDlq wraps is tried again by the service itself; the
\* controller swallows an error of emitToDlq.  The check is repeated with the
\* delivery, and when the client gives that up, its consumer restarts, which is
\* a Rejoin.
CallFails(w) ==
    /\ errors < MaxErrors
    /\ errors' = errors + 1
    /\ \/ pc[w] \in {"mark", "apply", "emit"} /\ Landed(w) /\ Throw(w)
       \/ pc[w] = "dlq" /\ Landed(w) /\ Finish(w)
       \/ pc[w] = "check" /\ Redeliver(w) /\ Finish(w)
    /\ UNCHANGED restarts

Crash(w) ==
    /\ restarts < MaxRestarts
    /\ ~At(w, "idle")
    /\ restarts' = restarts + 1
    /\ Finish(w)
    /\ UNCHANGED <<servers, errors>>

\* A group whose members change finds no committed offset, and goes on at the
\* end of the partitions that moved: what waited there is never handled.
Rejoin(s) ==
    /\ restarts < MaxRestarts
    /\ restarts' = restarts + 1
    /\ \E skipped \in SUBSET pending[s] \ {{}} :
          pending' = [pending EXCEPT ![s] = @ \ skipped]
    /\ UNCHANGED <<log, processed, shipments, status, dlq, worker, errors>>

HandlerStep(w) ==
    \/ IsEventProcessed(w) \/ MarkEventProcessed(w) \/ CreateShipment(w)
    \/ MarkOrder(w) \/ Emit(w) \/ SendToDlq(w)

ServiceStep ==
    \/ \E w \in Workers : Receive(w) \/ HandlerStep(w) \/ CallFails(w) \/ Crash(w)
    \/ \E s \in Services : Rejoin(s)

Next ==
    \/ \E type \in UpstreamTypes, o \in Orders : Publish(type, o)
    \/ \E o \in Orders : PublishAgain(o)
    \/ ServiceStep

Spec == Init /\ [][Next]_vars

\* The brokers deliver and the event loop runs the handlers.
FairSpec ==
    Spec /\ \A w \in Workers : WF_vars(Receive(w)) /\ WF_vars(HandlerStep(w))
=============================================================================
