---------------------------- MODULE OrderIntake ----------------------------
(***************************************************************************)
(* The way in: a client's POST /orders, which the gateway passes on to the *)
(* order producer and gives up on after 10 s, and the producer's handler,  *)
(* which writes the order and its outbox row and then answers.  What the   *)
(* gateway tells the client and what the producer does may differ: the     *)
(* transaction commits whether or not the gateway still waits, and there   *)
(* is no key by which a POST that is sent again would be known.            *)
(***************************************************************************)
EXTENDS OrderOutbox

CONSTANT Posts     \* every POST /orders whose body is valid

VARIABLES
    reply,         \* what the gateway told the client: "none", "waiting",
                   \* "created" (201) or "failed" (500)
    handler,       \* the producer's handler: "idle", "transaction" or "answer"
    orderOf        \* the order a POST has led to, 0 for none

intake == <<reply, handler, orderOf>>
intakeVars == <<vars, intake>>

ASSUME IntakeAssumption == 0 \notin Orders

IntakeInit ==
    /\ Init
    /\ reply = [p \in Posts |-> "none"]
    /\ handler = [p \in Posts |-> "idle"]
    /\ orderOf = [p \in Posts |-> 0]

Handler(p, label) == handler' = [handler EXCEPT ![p] = label]

\* An answer reaches the client if the gateway still waits for it.
Tell(p, answer) ==
    reply' = [reply EXCEPT ![p] = IF @ = "waiting" THEN answer ELSE @]

PostOrder(p) ==
    /\ reply[p] = "none"
    /\ reply' = [reply EXCEPT ![p] = "waiting"]
    /\ Handler(p, "transaction")
    /\ UNCHANGED <<orderOf, vars>>

\* createOrder's transaction, under an order id of its own.
Commit(p) ==
    \E o \in Orders : CreateOrder(o) /\ orderOf' = [orderOf EXCEPT ![p] = o]

\* Mutated form: the transaction is not awaited.
CommitLater(p) ==
    /\ handler[p] = "transaction"
    /\ Handler(p, "answer")
    /\ Commit(p) \/ UNCHANGED <<orderOf, vars>>
    /\ UNCHANGED reply

CommitOrder(p) ==
    /\ handler[p] = "transaction"
    /\ Commit(p)
    /\ Handler(p, "answer")
    /\ UNCHANGED reply

AnswerPost(p) ==
    /\ handler[p] = "answer"
    /\ Tell(p, "created")
    /\ Handler(p, "idle")
    /\ UNCHANGED <<orderOf, vars>>

\* The transaction fails, committed or not, or the answer is lost.
PostFails(p) ==
    /\ handler[p] \in {"transaction", "answer"}
    /\ CreateFails
    /\ \/ UNCHANGED <<row, orderOf>>
       \/ /\ handler[p] = "transaction"
          /\ \E o \in Orders : InsertRow(o) /\ orderOf' = [orderOf EXCEPT ![p] = o]
    /\ Tell(p, "failed")
    /\ Handler(p, "idle")

\* Mutated form: the gateway posts the order again instead.
GatewayRetries(p) ==
    /\ reply[p] = "waiting"
    /\ Handler(p, "transaction")
    /\ UNCHANGED <<reply, orderOf, vars>>

\* HttpModule's timeout: the producer is not told.
GatewayTimesOut(p) ==
    /\ reply[p] = "waiting"
    /\ reply' = [reply EXCEPT ![p] = "failed"]
    /\ UNCHANGED <<handler, orderOf, vars>>

\* The producer dies with its ticks and its handlers.
ProducerCrash ==
    /\ Crash
    /\ reply' = [p \in Posts |-> IF reply[p] = "waiting" THEN "failed" ELSE reply[p]]
    /\ handler' = [p \in Posts |-> "idle"]
    /\ UNCHANGED orderOf

IntakeNext ==
    \/ \E p \in Posts :
          \/ PostOrder(p) \/ CommitOrder(p) \/ AnswerPost(p)
          \/ PostFails(p) \/ GatewayTimesOut(p)
    \/ ProducerCrash
    \/ \E t \in Ticks : (TickStep(t) \/ CallFails(t)) /\ UNCHANGED intake

IntakeSpec == IntakeInit /\ [][IntakeNext]_intakeVars

\* The timer keeps firing, and the event loop runs the ticks.
FairIntakeSpec ==
    IntakeSpec /\ \A t \in Ticks : WF_intakeVars(TickStep(t) /\ UNCHANGED intake)
-----------------------------------------------------------------------------
IntakeTypeOK ==
    /\ TypeOK
    /\ reply \in [Posts -> {"none", "waiting", "created", "failed"}]
    /\ handler \in [Posts -> {"idle", "transaction", "answer"}]
    /\ orderOf \in [Posts -> Orders \cup {0}]

\* Every order was asked for, and a POST leads to one order at most: neither a
\* timeout nor a failed transaction makes the system order twice by itself.
OneOrderPerPost ==
    /\ \A o \in Orders : row[o] # "absent" => \E p \in Posts : orderOf[p] = o
    /\ \A p, q \in Posts : orderOf[p] = orderOf[q] /\ orderOf[p] # 0 => p = q

\* Once a client reads 201, its order and the outbox row are in the database,
\* so that it gets published even if the producer dies at once.
CreatedIsCommitted ==
    \A p \in Posts :
        reply[p] = "created" => orderOf[p] # 0 /\ row[orderOf[p]] # "absent"
=============================================================================
