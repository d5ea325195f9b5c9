------------------------ MODULE FulfilmentProperties ------------------------
(***************************************************************************)
(* What the choreography of payment, shipping, order and messageria gets   *)
(* right, and what its documentation says of it that it does not.          *)
(***************************************************************************)
EXTENDS Fulfilment

InDlq(s, n) == <<s, log[n]>> \in dlq
Handling(s, n) == \E w \in Workers : w[1] = s /\ msg[w] = n

Events == [id : Nat, type : Types, order : Orders]

\* The values every variable takes; a worker at work holds an event that its
\* service consumes.
TypeOK ==
    /\ log \in Seq(Events)
    /\ pending \in [Services -> SUBSET DOMAIN log]
    /\ processed \in [Services -> SUBSET Nat]
    /\ shipments \subseteq Orders
    /\ status \in [Orders -> {"PENDING", "CONFIRMED", "CANCELLED"}]
    /\ dlq \subseteq Services \X Events
    /\ pc \in [Workers -> {"idle", "check", "mark", "apply", "emit", "dlq"}]
    /\ msg \in [Workers -> Nat]
    /\ attempt \in [Workers -> 1..MaxAttempts]
    /\ \A w \in Workers :
          IF pc[w] = "idle" THEN msg[w] = 0
          ELSE msg[w] \in DOMAIN log /\ Event(w).type \in Consumes(w[1])
    /\ errors \in 0..MaxErrors
    /\ restarts \in 0..MaxRestarts
-----------------------------------------------------------------------------
(* Safety.                                                                 *)

\* An order is told to have one outcome once, and it is the one in its row:
\* however many ShipmentCreated and PaymentFailed events there are, handled by
\* however many workers at once, and retried (markConfirmed, markCancelled).
OneOutcome ==
    \A o \in Orders :
        LET confirmed == Emitted("OrderConfirmed", o)
            cancelled == Emitted("OrderCancelled", o)
        IN  /\ Cardinality(confirmed \cup cancelled) <= 1
            /\ confirmed # {} => status[o] = "CONFIRMED"
            /\ cancelled # {} => status[o] = "CANCELLED"

\* A confirmed order has a shipment in the shipping database, and a captured
\* payment in the log, whatever was lost, retried or skipped on the way.
ConfirmedIsShipped ==
    \A o \in Orders : status[o] = "CONFIRMED" =>
        o \in shipments /\ Emitted("PaymentCaptured", o) # {}

\* Every step of the choreography is a step of an order's life: the topics say
\* what was reserved, paid and declined and how often it was told, the two
\* tables what was shipped and decided.
Of(type) == {o \in Orders : Emitted(type, o) # {}}
Telling == [CONFIRMED |-> "OrderConfirmed", CANCELLED |-> "OrderCancelled"]
Told == [o \in Orders |->
            [d \in DOMAIN Telling |-> Cardinality(Emitted(Telling[d], o))]]

Lifecycle == INSTANCE OrderLifecycle WITH
    reserved <- Of("StockReserved"),
    paid <- Of("PaymentCaptured"),
    declined <- Of("PaymentFailed"),
    shipped <- shipments,
    outcome <- status,
    told <- Told

ImplementsLifecycle == Lifecycle!Spec

Answered(s, n) ==
    IF s = "order" THEN status[log[n].order] # "PENDING"
    ELSE Emitted(Answer[s][log[n].type], log[n].order) # {}

\* An event that a service has nothing left of: it is not answered, not in the
\* DLQ, no copy of it is being handled, and a copy that is yet to come would be
\* skipped, or there is none.
CopiesOf(n) == {m \in DOMAIN log : log[m].id = log[n].id}
Gone(s, n) ==
    /\ log[n].type \in Consumes(s)
    /\ ~Answered(s, n)
    /\ ~InDlq(s, n)
    /\ \A m \in CopiesOf(n) : ~Handling(s, m)
    /\ log[n].id \in processed[s] \/ CopiesOf(n) \cap pending[s] = {}

\* Marking an event before its answer is emitted loses nothing as long as
\* nobody crashes and no group rejoins: the answer comes, or the event goes to
\* the DLQ.  What is lost all the same cost MaxAttempts failed calls and a
\* failed emitToDlq, each event its own.
GoneEvents ==
    {e \in Services \X {log[n].id : n \in DOMAIN log} :
        \E n \in DOMAIN log : log[n].id = e[2] /\ Gone(e[1], n)}
AnsweredOrDlq ==
    restarts = 0 => (MaxAttempts + 1) * Cardinality(GoneEvents) <= errors

\* Duplicate events are skipped (README.md:132) as far as the workers of a
\* service see each other's marks: an order gets no more answers of a kind than
\* there are different events to answer, for each worker that may have looked
\* before any of them marked it, plus one for each failed call.  With one worker
\* that is one answer for each event.  A crash adds none.
WorkersOf(s) == {w \in Workers : w[1] = s}
DuplicatesAreSkipped ==
    \A s \in Services : \A t \in Consumes(s) : \A o \in Orders :
        Cardinality(Emitted(Answer[s][t], o))
            <= Cardinality(WorkersOf(s)) * Cardinality({log[n].id : n \in Emitted(t, o)})
                 + errors
-----------------------------------------------------------------------------
(* Liveness.                                                               *)

\* Gone before anything remembers it.
Lost(s, n) ==
    /\ log[n].type \in Consumes(s)
    /\ n \notin pending[s]
    /\ ~Handling(s, n)
    /\ log[n].id \notin processed[s]
    /\ ~InDlq(s, n)

\* An order whose stock was reserved is confirmed or cancelled in the end, and
\* told so if no call failed, unless an event of it is in a DLQ, or failed to
\* get there after all attempts, or a service was restarted.
WasTold(o) == Emitted("OrderConfirmed", o) \cup Emitted("OrderCancelled", o) # {}
OrdersAreDecided ==
    \A o \in Orders :
        Emitted("StockReserved", o) # {} ~>
            \/ status[o] # "PENDING" /\ (WasTold(o) \/ errors > 0)
            \/ restarts > 0 \/ errors > MaxAttempts
            \/ \E n \in DOMAIN log : log[n].order = o /\ \E s \in Services : InDlq(s, n)
-----------------------------------------------------------------------------
(* What the documentation says and the code does not do.                   *)

\* README.md:58: a message that cannot be handled goes to the DLQ.
NothingIsLost == \A s \in Services : \A n \in DOMAIN log : ~Lost(s, n)
=============================================================================
