----------------------------- MODULE OrderSaga -----------------------------
(***************************************************************************)
(* The services together: the inventory, and the four consumers that carry *)
(* an order on from StockReserved.  They share nothing but the topics.     *)
(* What the inventory emits is what the payment consumer is delivered, and *)
(* a PaymentFailed goes to the inventory and to the order consumer, which  *)
(* handle it whenever they come to it.                                     *)
(*                                                                         *)
(* A step is a step of Inventory, or of Fulfilment, or one of each: where  *)
(* the inventory emits StockReserved, the log of Fulfilment grows by it.   *)
(***************************************************************************)
EXTENDS InventoryProperties

CONSTANTS Workers, MaxPublished, MaxWorkerErrors, MaxRestarts    \* of Fulfilment

VARIABLES log, pending, shipments, status, restarts,
          handled, deadLetters, workerPc, workerMsg, workerAttempt, workerErrors

Ful == INSTANCE FulfilmentProperties WITH
    MaxErrors <- MaxWorkerErrors,
    processed <- handled,
    dlq <- deadLetters,
    pc <- workerPc,
    msg <- workerMsg,
    attempt <- workerAttempt,
    errors <- workerErrors

ASSUME SagaAssumption ==
    /\ Workers \subseteq (DOMAIN Ful!Answer) \X Nat
    /\ MaxPublished \in [Ful!UpstreamTypes -> Nat]
    /\ MaxWorkerErrors \in Nat
    /\ MaxRestarts \in Nat

fulVars == <<log, pending, shipments, status, restarts, handled, deadLetters,
             workerPc, workerMsg, workerAttempt, workerErrors>>
sagaVars == <<vars, fulVars>>

SagaInit == Init /\ Ful!Init

-----------------------------------------------------------------------------
(* The inventory's side.                                                   *)

\* The topics carry it: the n-th copy of OrderCreated once it was published n
\* times.
IsPublished(m) ==
    IF m.type = "OrderCreated"
    THEN m.copy <= Cardinality(Ful!Emitted("OrderCreated", m.order))
    ELSE Ful!Emitted("PaymentFailed", m.order) # {}

Deliver(i) ==
    /\ \E m \in inbox : IsPublished(m) /\ Receive(i, m)
    /\ UNCHANGED fulVars

\* Mutated form: the topic has it before the transaction, which may yet fail.
AnnounceEarly(i) ==
    \/ /\ At(i, "announce")
       /\ EmitOutcome(i)
       /\ UNCHANGED fulVars
    \/ /\ At(i, "commit")
       /\ Ful!Emitted("StockReserved", Order(i)) = {}
       /\ Ful!Publish("StockReserved", Order(i))
       /\ UNCHANGED vars

\* StockReserved goes to inventory.events, where payment reads it.
AnnounceReserved(i) ==
    /\ At(i, "announce")
    /\ EmitOutcome(i)
    /\ Ful!Publish("StockReserved", Order(i))

\* The failed emit of StockReserved may have reached the topic.
AnnounceFails(i) ==
    /\ At(i, "announce")
    /\ CallFails(i)
    /\ \/ events' = events /\ UNCHANGED fulVars
       \/ Emit("StockReserved", msg[i]) /\ Ful!Publish("StockReserved", Order(i))

InventoryAlone ==
    /\ \/ \E i \in Instances :
             \/ ~At(i, "announce") /\ (HandlerStep(i) \/ CallFails(i))
             \/ Crash(i)
       \/ \E j \in Jobs : JobStep(j) \/ JobCallFails(j) \/ JobCrash(j)
       \/ \E k \in Keys : LockExpires(k)
       \/ \E o \in Orders, n \in Copies : ReservationOverdue(o, n)
    /\ UNCHANGED fulVars

-----------------------------------------------------------------------------
(* The other side.                                                         *)

\* OrderCreated comes from the outbox, PaymentFailed from outside.
FulfilmentAlone ==
    /\ \/ \E type \in {"OrderCreated", "PaymentFailed"}, o \in Orders : Ful!Publish(type, o)
       \/ \E o \in Orders : Ful!PublishAgain(o)
       \/ Ful!ServiceStep
    /\ UNCHANGED vars

SagaNext ==
    \/ \E i \in Instances : Deliver(i) \/ AnnounceReserved(i) \/ AnnounceFails(i)
    \/ InventoryAlone
    \/ FulfilmentAlone

SagaSpec == SagaInit /\ [][SagaNext]_sagaVars

\* What Inventory and Fulfilment are fair to, together.
SagaFairness ==
    /\ \A i \in Instances :
          /\ WF_sagaVars(Deliver(i))
          /\ WF_sagaVars(AnnounceReserved(i))
          /\ WF_sagaVars(~At(i, "announce") /\ HandlerStep(i) /\ UNCHANGED fulVars)
    /\ \A j \in Jobs : WF_sagaVars(JobStep(j) /\ UNCHANGED fulVars)
    /\ \A k \in Keys : WF_sagaVars(LockExpires(k) /\ UNCHANGED fulVars)
    /\ \A w \in Workers : /\ WF_sagaVars(Ful!Receive(w) /\ UNCHANGED vars)
                          /\ WF_sagaVars(Ful!HandlerStep(w) /\ UNCHANGED vars)

FairSagaSpec == SagaSpec /\ SagaFairness

-----------------------------------------------------------------------------
(* What holds of the services together.                                    *)

Declined(o) == Ful!Emitted("PaymentFailed", o) # {}
InTime(o) == \A n \in Copies : <<o, n>> \notin overdue
Holds(o) == \A p \in ProductsOf(o) : \E n \in Copies : reservation[<<o, p, n>>] = "RESERVED"

\* A paid order's stock is there: from the capture of its payment to its
\* confirmation and after, every product of the order is reserved in the
\* inventory's database, unless its payment failed as well or the 15 minutes
\* of a reservation are over.
PaidIsHeld ==
    \A o \in Orders :
        Ful!Emitted("PaymentCaptured", o) # {} /\ ~Declined(o) /\ InTime(o) => Holds(o)

\* An order lives as OrderLifecycle says even if its stock is reserved only
\* when the inventory's database has rows for all of its products.
HasRows(o) == \A p \in ProductsOf(o) : \E n \in Copies : reservation[<<o, p, n>>] # "NONE"

Lifecycle == INSTANCE OrderLifecycle WITH
    reserved <- {o \in Orders : HasRows(o)},
    paid <- Ful!Of("PaymentCaptured"),
    declined <- Ful!Of("PaymentFailed"),
    shipped <- shipments,
    outcome <- status,
    told <- Ful!Told

SagaImplementsLifecycle == Lifecycle!Spec

\* inventory.constants.ts:9: "payment must complete before or job releases".
\* So once an order is paid in time, the job does not release its stock.
PaidStockIsKept ==
    \A o \in Orders :
        [](Ful!Emitted("PaymentCaptured", o) # {} /\ InTime(o)
            => [](\A r \in Rows : r[1] = o => reservation[r] # "EXPIRED"))
=============================================================================
