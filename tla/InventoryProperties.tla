------------------------ MODULE InventoryProperties ------------------------
(***************************************************************************)
(* What the inventory service gets right.                                  *)
(***************************************************************************)
EXTENDS Inventory

Handling(i, type) == msg[i].type = type
Done(type, o) == <<type, o>> \in processed

Outcomes == {Outcome[label] : label \in DOMAIN Outcome}

ServersTypeOK ==
    /\ stock \in [Products -> Nat]
    /\ reservation \in [Rows -> Status]
    /\ processed \subseteq {"OrderCreated", "PaymentFailed"} \X Orders
    /\ redis \in [Keys -> Orders \cup {NoValue, CONSUMER}]
    /\ events \subseteq [type : Outcomes \cup {"StockReleased"},
                         order : Orders, copy : Copies]
    /\ dlq \subseteq Messages

\* A handler is at a label of the method that handles its type of message.
HandlersTypeOK ==
    /\ pc \in [Instances -> Labels]
    /\ msg \in [Instances -> Messages \cup {NoMessage}]
    /\ attempt \in [Instances -> 1..MaxAttempts]
    /\ keys \in [Instances -> SUBSET Products]
    /\ claim \in [Instances -> SUBSET Rows]
    /\ \A i \in Instances :
          /\ pc[i] = "idle" => msg[i] = NoMessage /\ keys[i] = {}
          /\ pc[i] # "idle" => msg[i] \in Messages
          /\ pc[i] \in OrderCreatedLabels => Handling(i, "OrderCreated")
          /\ pc[i] \in PaymentFailedLabels => Handling(i, "PaymentFailed")

JobsTypeOK ==
    /\ jobPc \in [Jobs -> {"off", "scan", "sweep"}]
    /\ jobClaim \in [Jobs -> SUBSET Rows]

\* The values every variable takes.
TypeOK ==
    /\ ServersTypeOK
    /\ HandlersTypeOK
    /\ JobsTypeOK
    /\ overdue \subseteq Orders \X Copies
    /\ inbox \subseteq Messages
    /\ errors \in 0..MaxErrors
    /\ crashes \in 0..MaxCrashes
-----------------------------------------------------------------------------
(* Holds whatever the leases do.                                           *)

\* availableStock and the open reservations add up to the seeded stock, with
\* the expiry job and a failed payment racing to restore the same rows, calls
\* that fail after they took effect, and retries (inventory.service.ts).
Conservation == Ledger!Conservation

\* Every step of the service is a step of the ledger: a reserving transaction
\* takes a whole order that is in stock into rows never used before, and a row
\* leaves RESERVED once, to RELEASED or EXPIRED, with its stock.
ImplementsLedger == Ledger!Spec

\* StockReserved is only ever emitted for an order whose every product has a
\* reservation: payment is never asked for on stock nobody took.
ReservedIsBacked ==
    \A e \in events : e.type = "StockReserved" =>
        \A p \in ProductsOf(e.order) :
            \E n \in Copies : reservation[<<e.order, p, n>>] # "NONE"

\* As long as no call failed and nobody crashed, a lock in Redis has a holder
\* at work that will delete it: no path through handleOrderCreated forgets one.
LocksHaveHolders ==
    errors = 0 /\ crashes = 0 =>
        \A k \in Keys : ~IsAbsent(redis, k) => InUse(k)

WaitsFor(i, k) == pc[i] = "lock" /\ Lowest(k, Wanted(i))

\* No set of handlers wait for each other's locks: PRODUCT_LOCKED tells of
\* load, never of two orders that name the same products the other way round.
NoLockCycle ==
    \A S \in (SUBSET Instances) \ {{}} :
        \E i \in S : ~\E h \in S \ {i}, k \in Products : WaitsFor(i, k) /\ k \in keys[h]

\* What the messages of an order are answered with.  An OrderCreated has an
\* outcome, and a verdict: StockReserved if it reserved, a refusal if it did not,
\* TechnicalFailure being neither.
AnswerTo == [outcome |-> "OrderCreated", verdict |-> "OrderCreated",
             release |-> "PaymentFailed"]
Answers(o) ==
    [outcome |-> Outcomes,
     verdict |-> IF Done("OrderCreated", o) THEN {"StockReserved"}
                 ELSE Outcomes \ {"TechnicalFailure"},
     release |-> {"StockReleased"}]
Told(k, o) == \E e \in events : e.order = o /\ e.type \in Answers(o)[k]

\* The answers nobody is going to give: a message was taken, no handler is at
\* work for its order, and the DLQ does not have it or has it for nothing.
Handled(type, o) ==
    /\ \A i \in Instances : ~(Handling(i, type) /\ Order(i) = o)
    /\ \E m \in Inbox \ inbox :
          m.type = type /\ m.order = o /\ (Done(type, o) \/ m \notin dlq)
Missing ==
    {a \in (DOMAIN AnswerTo) \X Orders : Handled(AnswerTo[a[1]], a[2]) /\ ~Told(a[1], a[2])}

\* A message that was handled was answered, and truthfully, though it was marked
\* before the answer (MarkReleased, CommitReservation): as long as nobody
\* crashes, every answer that is missing cost a failed call of its own.  One
\* failed call leaves a reserved order told TechnicalFailure, or a release told
\* to nobody; it takes two to tell an order nothing.
HandledIsAnswered == crashes = 0 => Cardinality(Missing) <= errors

\* A refusal is the truth about its copy of OrderCreated: as long as no call
\* fails, a copy that was told OutOfStock or ProductLocked has reserved
\* nothing, and is not told StockReserved as well.  (It did not mark the
\* event either, and another copy may reserve.)
RefusalIsFinal ==
    errors = 0 =>
        \A e \in events : e.type \in {"OutOfStock", "ProductLocked"} =>
            /\ \A r \in RowsOf(e.order, e.copy) : reservation[r] = "NONE"
            /\ [e EXCEPT !.type = "StockReserved"] \notin events
-----------------------------------------------------------------------------
(* Holds when no TTL runs out under its holder.                            *)

\* The product lock is a mutex during reserve (inventory.constants.ts:1): of
\* two OrderCreated handlers with the same key, one at least is a duplicate
\* whose event another handler has processed already.  (That one may have lost
\* its lock: handlePaymentFailed deletes it by the order id alone.)
ReserveMutex ==
    \A i, h \in Instances :
        /\ i # h
        /\ Handling(i, "OrderCreated") /\ Handling(h, "OrderCreated")
        /\ keys[i] \cap keys[h] # {}
        => Done("OrderCreated", Order(i)) \/ Done("OrderCreated", Order(h))

\* However often OrderCreated is delivered, and to however many instances at
\* once, one copy of it reserves stock (README.md:132).
ReservedOnce ==
    \A r, q \in Rows :
        r[1] = q[1] /\ reservation[r] # "NONE" /\ reservation[q] # "NONE"
            => r[3] = q[3]

\* Once a PaymentFailed is marked processed, no reservation of its order is
\* open, and none is opened later by a copy of OrderCreated still under way.
FailedPaymentReturnsStock ==
    \A o \in Orders : Done("PaymentFailed", o) => Reserved(o) = {}

\* Only one instance runs the expired-reservations job (inventory.constants.ts:22).
JobExclusive == \A j, g \in Jobs : jobPc[j] # "off" /\ jobPc[g] # "off" => j = g
-----------------------------------------------------------------------------
(* Liveness.                                                               *)

\* The brokers deliver, handlers and the interval job keep being scheduled by
\* the event loop, and time passes.  Nothing obliges a call to fail.
Fairness ==
    /\ \A i \in Instances : /\ WF_vars(\E m \in inbox : Receive(i, m))
                            /\ WF_vars(HandlerStep(i))
    /\ \A j \in Jobs : WF_vars(JobStep(j))
    /\ \A k \in Keys : WF_vars(LockExpires(k))
    /\ \A o \in Orders, n \in Copies : WF_vars(ReservationOverdue(o, n))

FairSpec == Spec /\ Fairness

\* No reservation stays open for ever, whoever crashed with which lock.
ReservationsEnd ==
    \A r \in Rows : reservation[r] = "RESERVED" ~> reservation[r] # "RESERVED"

\* No lock stays in Redis for ever: what a crash or a failed delete leaves
\* behind, the TTL takes away.
LocksGetFreed == \A k \in Keys : redis[k] # NoValue ~> redis[k] = NoValue
=============================================================================
