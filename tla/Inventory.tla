----------------------------- MODULE Inventory -----------------------------
(***************************************************************************)
(* The inventory service: the OrderCreated and PaymentFailed handlers of   *)
(* inventory-events.controller.ts and inventory.service.ts under           *)
(* withRetryAndDlq, and the interval job that expires reservations, over   *)
(* one Postgres database, one Redis and one Kafka.                         *)
(*                                                                         *)
(* Every await of the code is one step: between two awaits a handler is    *)
(* alone, at an await anything may happen.  A database transaction is one  *)
(* step where it commits (its updates are conditional and hold their row   *)
(* locks until then), apart from the read it decides on.  Any call may     *)
(* fail, whether or not its effect landed, and any handler may die.        *)
(***************************************************************************)
EXTENDS StockData, Redis

CONSTANTS
    Instances,       \* service instances: each handles one message at a time
    Jobs,            \* runs of the expiry job that may be under way at once
    Inbox,           \* the messages the topics will carry
    MaxAttempts,     \* maxAttempts of withRetryAndDlq
    LeaseMayLapse,   \* may a key's TTL run out while its holder still works?
    MaxErrors,       \* bound on failed calls
    MaxCrashes       \* bound on crashes

Messages == [type : {"OrderCreated", "PaymentFailed"},
             order : Orders, copy : Copies]
NoMessage == [type |-> "none", order |-> 0, copy |-> 0]

ASSUME InventoryAssumption ==
    /\ Inbox \subseteq Messages
    /\ MaxAttempts \in Nat \ {0}
    /\ LeaseMayLapse \in BOOLEAN
    /\ MaxErrors \in Nat
    /\ MaxCrashes \in Nat
    /\ 0 \notin Orders
    /\ NoValue \notin Orders

JobKey == 0                         \* EXPIRY_JOB_LOCK_KEY
CONSUMER == "inventory-service"     \* the value every run stores under it
Keys == Products \cup {JobKey}

VARIABLES
    stock, reservation,             \* the database: see StockLedger
    processed,                      \* processed_events, by event id
    overdue,                        \* the <<o, n>> whose expiresAt has passed
    redis,
    inbox,                          \* messages not yet delivered
    events, dlq,                    \* what was emitted, and to the DLQ
    pc, msg, attempt, keys, claim,  \* each handler: where it is, its message,
                                    \* attempt, lockedKeys, and rows to release
    jobPc, jobClaim,                \* each run of the expiry job, likewise
    errors, crashes

db == <<stock, reservation, processed>>
servers == <<db, redis, events, dlq>>
local == <<pc, msg, attempt, keys, claim>>
job == <<jobPc, jobClaim>>
faults == <<errors, crashes>>
vars == <<servers, overdue, inbox, local, job, faults>>

Ledger == INSTANCE StockLedger WITH stock <- stock, reservation <- reservation

EventId(m) == <<m.type, m.order>>
OrderCreatedLabels == {"lock", "productLocked", "commit", "announce", "outOfStock",
                       "technicalFailure", "unlockReturn", "unlockThrow"}
PaymentFailedLabels == {"findReserved", "release", "dropLock", "announceRelease"}
Labels == {"idle", "check", "dlq"} \cup OrderCreatedLabels \cup PaymentFailedLabels

Init ==
    /\ stock = InitialStock
    /\ reservation = [r \in Rows |-> "NONE"]
    /\ processed = {}
    /\ overdue = {}
    /\ redis = [k \in Keys |-> NoValue]
    /\ inbox = Inbox
    /\ events = {}
    /\ dlq = {}
    /\ pc = [i \in Instances |-> "idle"]
    /\ msg = [i \in Instances |-> NoMessage]
    /\ attempt = [i \in Instances |-> 1]
    /\ keys = [i \in Instances |-> {}]
    /\ claim = [i \in Instances |-> {}]
    /\ jobPc = [j \in Jobs |-> "off"]
    /\ jobClaim = [j \in Jobs |-> {}]
    /\ errors = 0
    /\ crashes = 0

-----------------------------------------------------------------------------
(* What a call does to the server it is made to.                           *)

\* Mutated form: SET without NX.
SetLockAnyway(k, value) ==
    /\ redis' = SetNxEx(redis, k, value)
    /\ UNCHANGED <<db, events, dlq>>

SetLock(k, value) ==
    /\ IsAbsent(redis, k)
    /\ redis' = SetNxEx(redis, k, value)
    /\ UNCHANGED <<db, events, dlq>>

DropLock(k, value) ==
    /\ redis' = DeleteIfValue(redis, k, value)
    /\ UNCHANGED <<db, events, dlq>>

Emit(type, m) ==
    /\ events' = events \cup {[type |-> type, order |-> m.order, copy |-> m.copy]}
    /\ UNCHANGED <<db, redis, dlq>>

EmitToDlq(m) ==
    /\ dlq' = dlq \cup {m}
    /\ UNCHANGED <<db, redis, events>>

InStock(o) == \A p \in ProductsOf(o) : stock[p] >= Demand[o][p]

\* Mutated form: a decrement without availableStock: { gte: quantity }.
ReserveAnyway(m) ==
    /\ stock' = [p \in Products |-> stock[p] - Demand[m.order][p]]
    /\ reservation' = [r \in Rows |-> IF r \in RowsOf(m.order, m.copy)
                                      THEN "RESERVED" ELSE reservation[r]]
    /\ processed' = processed \cup {EventId(m)}
    /\ UNCHANGED <<redis, events, dlq>>

\* The reserving transaction commits: stock, rows and processed event at once.
Reserve(m) ==
    /\ InStock(m.order)
    /\ stock' = [p \in Products |-> stock[p] - Demand[m.order][p]]
    /\ reservation' = [r \in Rows |-> IF r \in RowsOf(m.order, m.copy)
                                      THEN "RESERVED" ELSE reservation[r]]
    /\ processed' = processed \cup {EventId(m)}
    /\ UNCHANGED <<redis, events, dlq>>

\* Mutated forms: the update without status: 'RESERVED' in its condition, and
\* the transaction without its increment.
RestoreAnyway(r, status) ==
    /\ reservation' = [reservation EXCEPT ![r] = status]
    /\ stock' = [stock EXCEPT ![r[2]] = @ + Quantity(r)]
    /\ UNCHANGED <<processed, redis, events, dlq>>

RestoreNothing(r, status) ==
    /\ reservation[r] = "RESERVED"
    /\ reservation' = [reservation EXCEPT ![r] = status]
    /\ UNCHANGED <<stock, processed, redis, events, dlq>>

\* A row's own transaction: a conditional update, then the increment.
Restore(r, status) ==
    /\ reservation[r] = "RESERVED"
    /\ reservation' = [reservation EXCEPT ![r] = status]
    /\ stock' = [stock EXCEPT ![r[2]] = @ + Quantity(r)]
    /\ UNCHANGED <<processed, redis, events, dlq>>

MarkProcessed(m) ==
    /\ processed' = processed \cup {EventId(m)}
    /\ UNCHANGED <<stock, reservation, redis, events, dlq>>
-----------------------------------------------------------------------------
(* How a handler moves on.                                                 *)

Goto(i, label) == pc' = [pc EXCEPT ![i] = label]

Finish(i) ==
    /\ Goto(i, "idle")
    /\ msg' = [msg EXCEPT ![i] = NoMessage]
    /\ attempt' = [attempt EXCEPT ![i] = 1]
    /\ keys' = [keys EXCEPT ![i] = {}]
    /\ claim' = [claim EXCEPT ![i] = {}]

\* Mutated form: one attempt too many.
ThrowLate(i) ==
    /\ IF attempt[i] <= MaxAttempts
       THEN /\ Goto(i, "check")
            /\ attempt' = [attempt EXCEPT ![i] = @ + 1]
       ELSE /\ Goto(i, "dlq")
            /\ UNCHANGED attempt
    /\ keys' = [keys EXCEPT ![i] = {}]
    /\ claim' = [claim EXCEPT ![i] = {}]
    /\ UNCHANGED msg

\* process() threw: withRetryAndDlq calls it again, or turns to the DLQ.
Throw(i) ==
    /\ IF attempt[i] < MaxAttempts
       THEN /\ Goto(i, "check")
            /\ attempt' = [attempt EXCEPT ![i] = @ + 1]
       ELSE /\ Goto(i, "dlq")
            /\ UNCHANGED attempt
    /\ keys' = [keys EXCEPT ![i] = {}]
    /\ claim' = [claim EXCEPT ![i] = {}]
    /\ UNCHANGED msg

rest == <<overdue, inbox, job, faults>>   \* what only its own actions change

At(i, label) == pc[i] = label
Order(i) == msg[i].order

Reserved(o) == {r \in Rows : r[1] = o /\ reservation[r] = "RESERVED"}
Announced(o) == \E e \in events : e.type = "StockReserved" /\ e.order = o

\* Kafka delivers a message.  PaymentFailed answers a StockReserved.
Receive(i, m) ==
    /\ At(i, "idle")
    /\ m.type = "PaymentFailed" => Announced(m.order)
    /\ inbox' = inbox \ {m}
    /\ msg' = [msg EXCEPT ![i] = m]
    /\ Goto(i, "check")
    /\ UNCHANGED <<servers, overdue, attempt, keys, claim, job, faults>>

IsEventProcessed(i) ==
    /\ At(i, "check")
    /\ IF EventId(msg[i]) \in processed
       THEN Finish(i)
       ELSE /\ Goto(i, IF msg[i].type = "OrderCreated" THEN "lock" ELSE "findReserved")
            /\ UNCHANGED <<msg, attempt, keys, claim>>
    /\ UNCHANGED <<servers, rest>>
-----------------------------------------------------------------------------
(* handleOrderCreated                                                      *)

\* The items not yet locked; the code takes them in the order of product id.
Wanted(i) == ProductsOf(Order(i)) \ keys[i]
AnyOf(k, S) == k \in S      \* mutated form: items are not sorted
Lowest(k, S) == k \in S /\ \A q \in S : k <= q

AcquireLock(i) ==
    /\ At(i, "lock")
    /\ \E k \in Products :
          /\ Lowest(k, Wanted(i))
          /\ SetLock(k, Order(i))
          /\ keys' = [keys EXCEPT ![i] = @ \cup {k}]
    /\ UNCHANGED <<pc, msg, attempt, claim, rest>>

\* All LOCK_RETRY_ATTEMPTS found the key taken.
GiveUpLock(i) ==
    /\ At(i, "lock")
    /\ \E k \in Products : Lowest(k, Wanted(i)) /\ ~IsAbsent(redis, k)
    /\ Goto(i, "productLocked")
    /\ UNCHANGED <<servers, msg, attempt, keys, claim, rest>>

\* Mutated forms: a transaction that does not look, and one not awaited.
NoCheckInTransaction(i) ==
    /\ At(i, "lock")
    /\ Wanted(i) = {}
    /\ Goto(i, "commit")
    /\ UNCHANGED <<servers, msg, attempt, keys, claim, rest>>

TransactionNotAwaited(i) ==
    /\ At(i, "lock")
    /\ Wanted(i) = {}
    /\ Goto(i, "announce")
    /\ UNCHANGED <<servers, msg, attempt, keys, claim, rest>>

\* The transaction's own look for the event; a duplicate leaves the callback
\* only, and the handler goes on to emit StockReserved.
CheckInTransaction(i) ==
    /\ At(i, "lock")
    /\ Wanted(i) = {}
    /\ Goto(i, IF EventId(msg[i]) \in processed THEN "announce" ELSE "commit")
    /\ UNCHANGED <<servers, msg, attempt, keys, claim, rest>>

\* Mutated form: the reservation is not announced.
CommitQuietly(i) ==
    /\ At(i, "commit")
    /\ Reserve(msg[i])
    /\ Goto(i, "unlockReturn")
    /\ UNCHANGED <<msg, attempt, keys, claim, rest>>

CommitReservation(i) ==
    /\ At(i, "commit")
    /\ Reserve(msg[i])
    /\ Goto(i, "announce")
    /\ UNCHANGED <<msg, attempt, keys, claim, rest>>

\* Mutated form: the rows are written though updateMany counted 0.
RollBackHalf(i) ==
    /\ At(i, "commit")
    /\ ~InStock(Order(i))
    /\ reservation' = [r \in Rows |-> IF r \in RowsOf(Order(i), msg[i].copy)
                                      THEN "RESERVED" ELSE reservation[r]]
    /\ Goto(i, "outOfStock")
    /\ UNCHANGED <<stock, processed, redis, events, dlq, msg, attempt, keys, claim, rest>>

\* updateMany counted 0 for some product: everything is rolled back.
RollBack(i) ==
    /\ At(i, "commit")
    /\ ~InStock(Order(i))
    /\ Goto(i, "outOfStock")
    /\ UNCHANGED <<servers, msg, attempt, keys, claim, rest>>

\* The event each label emits: StockReserved, or StockReservationFailed under
\* the name of its reason.
Outcome == [announce         |-> "StockReserved",
            productLocked    |-> "ProductLocked",
            outOfStock       |-> "OutOfStock",
            technicalFailure |-> "TechnicalFailure"]

EmitOutcome(i) ==
    /\ pc[i] \in DOMAIN Outcome
    /\ Emit(Outcome[pc[i]], msg[i])
    /\ Goto(i, IF pc[i] = "technicalFailure" THEN "unlockThrow" ELSE "unlockReturn")
    /\ UNCHANGED <<msg, attempt, keys, claim, rest>>

\* The finally block: one deleteIfValue per locked key.
ReleaseLock(i) ==
    /\ pc[i] \in {"unlockReturn", "unlockThrow"}
    /\ \E k \in Products :
          /\ Lowest(k, keys[i])
          /\ DropLock(k, Order(i))
          /\ keys' = [keys EXCEPT ![i] = @ \ {k}]
    /\ UNCHANGED <<pc, msg, attempt, claim, rest>>

\* Mutated form: no finally block.
LocksNotReleased(i) ==
    /\ \/ At(i, "unlockReturn") /\ Finish(i)
       \/ At(i, "unlockThrow") /\ Throw(i)
    /\ UNCHANGED <<servers, rest>>

LocksReleased(i) ==
    /\ keys[i] = {}
    /\ \/ At(i, "unlockReturn") /\ Finish(i)
       \/ At(i, "unlockThrow") /\ Throw(i)
    /\ UNCHANGED <<servers, rest>>
-----------------------------------------------------------------------------
(* handlePaymentFailed                                                     *)

FindReserved(i) ==
    /\ At(i, "findReserved")
    /\ claim' = [claim EXCEPT ![i] = Reserved(Order(i))]
    /\ Goto(i, "release")
    /\ UNCHANGED <<servers, msg, attempt, keys, rest>>

ReleaseReservation(i) ==
    /\ At(i, "release")
    /\ \E r \in claim[i] :
          /\ claim' = [claim EXCEPT ![i] = @ \ {r}]
          /\ \/ /\ Restore(r, "RELEASED")
                /\ keys' = [keys EXCEPT ![i] = {r[2]}]
                /\ Goto(i, "dropLock")
             \/ /\ reservation[r] # "RESERVED"
                /\ UNCHANGED <<servers, keys, pc>>
    /\ UNCHANGED <<msg, attempt, rest>>

\* The released product's lock goes too, if it carries this order's id.
DropProductLock(i) ==
    /\ At(i, "dropLock")
    /\ \E k \in keys[i] : DropLock(k, Order(i))
    /\ keys' = [keys EXCEPT ![i] = {}]
    /\ Goto(i, "release")
    /\ UNCHANGED <<msg, attempt, claim, rest>>

\* Mutated form: the event is marked before its reservations are released.
MarkReleasedEarly(i) ==
    /\ At(i, "release")
    /\ MarkProcessed(msg[i])
    /\ Goto(i, "announceRelease")
    /\ UNCHANGED <<msg, attempt, keys, claim, rest>>

\* Mutated form: the release is not announced.
MarkReleasedQuietly(i) ==
    /\ At(i, "release")
    /\ claim[i] = {}
    /\ MarkProcessed(msg[i])
    /\ Finish(i)
    /\ UNCHANGED rest

MarkReleased(i) ==
    /\ At(i, "release")
    /\ claim[i] = {}
    /\ MarkProcessed(msg[i])
    /\ Goto(i, "announceRelease")
    /\ UNCHANGED <<msg, attempt, keys, claim, rest>>

AnnounceRelease(i) ==
    /\ At(i, "announceRelease")
    /\ Emit("StockReleased", msg[i])
    /\ Finish(i)
    /\ UNCHANGED rest

\* withRetryAndDlq rethrows after this, and the controller swallows it.
SendToDlq(i) ==
    /\ At(i, "dlq")
    /\ EmitToDlq(msg[i])
    /\ Finish(i)
    /\ UNCHANGED rest
-----------------------------------------------------------------------------
(* A call fails: whether it had its effect or not, the caller is told no.  *)

Landed(i) ==
    \/ UNCHANGED servers
    \/ At(i, "lock") /\ \E k \in Products : Lowest(k, Wanted(i)) /\ SetLock(k, Order(i))
    \/ At(i, "commit") /\ Reserve(msg[i])
    \/ pc[i] \in DOMAIN Outcome /\ Emit(Outcome[pc[i]], msg[i])
    \/ /\ pc[i] \in {"unlockReturn", "unlockThrow"}
       /\ \E k \in Products : Lowest(k, keys[i]) /\ DropLock(k, Order(i))
    \/ At(i, "release") /\ \E r \in claim[i] : Restore(r, "RELEASED")
    \/ At(i, "release") /\ claim[i] = {} /\ MarkProcessed(msg[i])
    \/ At(i, "dropLock") /\ \E k \in keys[i] : DropLock(k, Order(i))
    \/ At(i, "announceRelease") /\ Emit("StockReleased", msg[i])
    \/ At(i, "dlq") /\ EmitToDlq(msg[i])

CallFails(i) ==
    /\ errors < MaxErrors
    /\ errors' = errors + 1
    /\ Landed(i)
    /\ \/ \* inside the try block of handleOrderCreated
          /\ pc[i] \in {"lock", "commit", "productLocked", "announce"}
          /\ Goto(i, "technicalFailure")
          /\ UNCHANGED <<msg, attempt, keys, claim>>
       \/ \* inside its catch block
          /\ pc[i] \in {"outOfStock", "technicalFailure"}
          /\ Goto(i, "unlockThrow")
          /\ UNCHANGED <<msg, attempt, keys, claim>>
       \/ \* inside its finally block, or where nothing catches
          /\ \/ pc[i] \in {"unlockReturn", "unlockThrow"} /\ keys[i] # {}
             \/ pc[i] \in {"check", "findReserved", "release", "dropLock",
                           "announceRelease"}
          /\ Throw(i)
       \/ \* emitToDlq itself: the controller swallows the error
          /\ At(i, "dlq")
          /\ Finish(i)
    /\ UNCHANGED <<overdue, inbox, job, crashes>>

\* The instance dies.  No offset is committed and a new instance starts at
\* the end of the topic, so the message is gone unless it is published again.
Crash(i) ==
    /\ crashes < MaxCrashes
    /\ ~At(i, "idle")
    /\ crashes' = crashes + 1
    /\ Finish(i)
    /\ UNCHANGED <<servers, overdue, inbox, job, errors>>
-----------------------------------------------------------------------------
(* releaseExpiredReservations                                              *)

JobGoto(j, label) == jobPc' = [jobPc EXCEPT ![j] = label]
JobSet(j, rows) == jobClaim' = [jobClaim EXCEPT ![j] = rows]
Overdue(r) == <<r[1], r[3]>> \in overdue
notJob == <<overdue, inbox, local, crashes>>

JobStart(j) ==
    /\ jobPc[j] = "off"
    /\ SetLock(JobKey, CONSUMER)
    /\ JobGoto(j, "scan")
    /\ UNCHANGED <<jobClaim, errors, notJob>>

\* Mutated form: expiresAt compared the wrong way round.
JobScanWrong(j) ==
    /\ jobPc[j] = "scan"
    /\ JobSet(j, {r \in Rows : reservation[r] = "RESERVED" /\ ~Overdue(r)})
    /\ JobGoto(j, "sweep")
    /\ UNCHANGED <<servers, errors, notJob>>

JobScan(j) ==
    /\ jobPc[j] = "scan"
    /\ JobSet(j, {r \in Rows : reservation[r] = "RESERVED" /\ Overdue(r)})
    /\ JobGoto(j, "sweep")
    /\ UNCHANGED <<servers, errors, notJob>>

JobExpire(j) ==
    /\ jobPc[j] = "sweep"
    /\ \E r \in jobClaim[j] :
          /\ JobSet(j, jobClaim[j] \ {r})
          /\ \/ Restore(r, "EXPIRED")
             \/ reservation[r] # "RESERVED" /\ UNCHANGED servers
    /\ UNCHANGED <<jobPc, errors, notJob>>

JobEnd(j) ==
    /\ jobPc[j] = "sweep"
    /\ jobClaim[j] = {}
    /\ DropLock(JobKey, CONSUMER)
    /\ JobGoto(j, "off")
    /\ UNCHANGED <<jobClaim, errors, notJob>>

\* A failed read or transaction leads to the finally block, a failed Redis
\* call ends the run.
JobCallFails(j) ==
    /\ errors < MaxErrors
    /\ errors' = errors + 1
    /\ \/ /\ jobPc[j] = "off"
          /\ SetLock(JobKey, CONSUMER)
          /\ UNCHANGED jobPc
       \/ /\ \/ jobPc[j] = "scan" /\ UNCHANGED servers
             \/ /\ jobPc[j] = "sweep"
                /\ \E r \in jobClaim[j] : UNCHANGED servers \/ Restore(r, "EXPIRED")
          /\ JobGoto(j, "sweep")
       \/ /\ jobPc[j] = "sweep" /\ jobClaim[j] = {}
          /\ UNCHANGED servers \/ DropLock(JobKey, CONSUMER)
          /\ JobGoto(j, "off")
    /\ JobSet(j, {})
    /\ UNCHANGED notJob

JobCrash(j) ==
    /\ crashes < MaxCrashes
    /\ jobPc[j] # "off"
    /\ crashes' = crashes + 1
    /\ JobGoto(j, "off")
    /\ JobSet(j, {})
    /\ UNCHANGED <<servers, overdue, inbox, local, errors>>
-----------------------------------------------------------------------------
(* Time.                                                                   *)

\* Someone who took the key and has not deleted it yet is still at work.
InUse(k) ==
    \/ \E i \in Instances : msg[i].type = "OrderCreated" /\ k \in keys[i]
    \/ k = JobKey /\ \E j \in Jobs : jobPc[j] # "off"

\* Mutated form: keys are set without a TTL.
LockNeverExpires(k) ==
    /\ ~IsAbsent(redis, k)
    /\ UNCHANGED vars

LockExpires(k) ==
    /\ ~IsAbsent(redis, k)
    /\ LeaseMayLapse \/ ~InUse(k)
    /\ redis' = Expire(redis, k)
    /\ UNCHANGED <<db, events, dlq, overdue, inbox, local, job, faults>>

ReservationOverdue(o, n) ==
    /\ <<o, n>> \notin overdue
    /\ \E r \in RowsOf(o, n) : reservation[r] # "NONE"
    /\ overdue' = overdue \cup {<<o, n>>}
    /\ UNCHANGED <<servers, inbox, local, job, faults>>

HandlerStep(i) ==
    \/ IsEventProcessed(i)
    \/ AcquireLock(i) \/ GiveUpLock(i) \/ CheckInTransaction(i)
    \/ CommitReservation(i) \/ RollBack(i) \/ EmitOutcome(i)
    \/ ReleaseLock(i) \/ LocksReleased(i)
    \/ FindReserved(i) \/ ReleaseReservation(i) \/ DropProductLock(i)
    \/ MarkReleased(i) \/ AnnounceRelease(i) \/ SendToDlq(i)

JobStep(j) == JobStart(j) \/ JobScan(j) \/ JobExpire(j) \/ JobEnd(j)

Next ==
    \/ \E i \in Instances :
          (\E m \in inbox : Receive(i, m)) \/ HandlerStep(i) \/ CallFails(i) \/ Crash(i)
    \/ \E j \in Jobs : JobStep(j) \/ JobCallFails(j) \/ JobCrash(j)
    \/ \E k \in Keys : LockExpires(k)
    \/ \E o \in Orders, n \in Copies : ReservationOverdue(o, n)

Spec == Init /\ [][Next]_vars
=============================================================================
