------------------------ MODULE InventoryLockProofs ------------------------
(***************************************************************************)
(* What the Redis locks are worth while no TTL runs out under its holder.  *)
(*                                                                         *)
(* A lock's value is the order id, so two handlers of one order could      *)
(* delete each other's locks, and handlePaymentFailed deletes the locks of *)
(* its order whoever holds them.  The invariant says why neither hurts: up *)
(* to the moment an order's event is processed its handlers exclude each   *)
(* other (LocksHeld, LocksExclusive), so that a handler about to commit    *)
(* is the only one for its order (CommitIsFirst), and PaymentFailed only   *)
(* follows that moment (FailureFollows).                                   *)
(*                                                                         *)
(* The last two sections need no leases: locks are taken in the order of   *)
(* product id, and every path that took one deletes it.                    *)
(***************************************************************************)
EXTENDS InventoryProofs, FiniteSetTheorems, WellFoundedInduction

Waiting(i) == Handling(i, "OrderCreated") /\ ~Done("OrderCreated", Order(i))

LocksHeld == \A i \in Instances : Waiting(i) => \A k \in keys[i] : redis[k] = Order(i)

LocksExclusive ==
    \A i, h \in Instances :
        i # h /\ Waiting(i) /\ Waiting(h) => keys[i] \cap keys[h] = {}

CommitIsFirst ==
    \A i \in Instances : pc[i] = "commit" =>
        ProductsOf(Order(i)) \subseteq keys[i] /\ Waiting(i)

FailureFollows ==
    /\ \A i \in Instances :
          Handling(i, "PaymentFailed") => Done("OrderCreated", Order(i))
    /\ \A o \in Orders : Done("PaymentFailed", o) => Done("OrderCreated", o)

LockInv == LocksHeld /\ LocksExclusive /\ CommitIsFirst /\ FailureFollows
-----------------------------------------------------------------------------
\* What a step does to the keys a handler has: none, or those it had, or one
\* more that it has just taken.
KeysStep(i) ==
    msg'[i].type = "OrderCreated" =>
        \/ keys'[i] = {}
        \/ msg'[i] = msg[i] /\ keys'[i] \subseteq keys[i]
        \/ /\ msg'[i] = msg[i]
           /\ \E k \in Products :
                 keys'[i] = keys[i] \cup {k} /\ SetLock(k, Order(i))

LEMMA KeysSteps ==
    ASSUME TypeOK, [Next]_vars, NEW i \in Instances
    PROVE  KeysStep(i)
<1> USE DEF At
<1>0. /\ msg \in [Instances -> Messages \cup {NoMessage}]
      /\ keys \in [Instances -> SUBSET Products]
      /\ \A h \in Instances : pc[h] = "idle" => keys[h] = {}
      /\ \A h \in Instances : pc[h] \in PaymentFailedLabels => msg[h].type = "PaymentFailed"
  BY DEF TypeOK, HandlersTypeOK, Handling
<1>1. ASSUME UNCHANGED <<msg, keys>> PROVE KeysStep(i)
  BY <1>1 DEF KeysStep
<1>2. ASSUME NEW h \in Instances, Finish(h) \/ Throw(h) PROVE KeysStep(i)
  BY <1>0, <1>2 DEF KeysStep, Finish, Throw
<1>3. ASSUME NEW h \in Instances, NEW m \in inbox, Receive(h, m) PROVE KeysStep(i)
  BY <1>0, <1>3 DEF KeysStep, Receive
<1>4. ASSUME NEW h \in Instances, HandlerStep(h) PROVE KeysStep(i)
  <2>1. CASE AcquireLock(h)
    BY <1>0, <2>1 DEF AcquireLock, KeysStep, Order
  <2>2. CASE ReleaseLock(h)
    BY <1>0, <2>2 DEF ReleaseLock, KeysStep
  <2>3. CASE ReleaseReservation(h) \/ DropProductLock(h)
    BY <1>0, <2>3 DEF ReleaseReservation, DropProductLock, KeysStep, PaymentFailedLabels
  <2>4. \/ AcquireLock(h) \/ ReleaseLock(h)
        \/ ReleaseReservation(h) \/ DropProductLock(h)
        \/ Finish(h) \/ Throw(h) \/ UNCHANGED <<msg, keys>>
    BY <1>4 DEF HandlerStep, IsEventProcessed, GiveUpLock, CheckInTransaction,
       CommitReservation, RollBack, EmitOutcome, LocksReleased, FindReserved,
       MarkReleased, AnnounceRelease, SendToDlq
  <2> QED
    BY <1>1, <1>2, <2>1, <2>2, <2>3, <2>4
<1>5. ASSUME NEW h \in Instances, CallFails(h) PROVE KeysStep(i)
  BY <1>1, <1>2, <1>5 DEF CallFails
<1>6. ASSUME NEW h \in Instances, Crash(h) PROVE KeysStep(i)
  BY <1>2, <1>6 DEF Crash
<1>7. ASSUME NEW j \in Jobs, JobStep(j) \/ JobCallFails(j) \/ JobCrash(j)
      PROVE  KeysStep(i)
  BY <1>1, <1>7 DEF JobStep, JobStart, JobScan, JobExpire, JobEnd, JobCallFails,
     JobCrash, notJob, local
<1>8. ASSUME NEW k \in Keys, LockExpires(k) PROVE KeysStep(i)
  BY <1>1, <1>8 DEF LockExpires, local
<1>9. ASSUME NEW o \in Orders, NEW n \in Copies, ReservationOverdue(o, n)
      PROVE  KeysStep(i)
  BY <1>1, <1>9 DEF ReservationOverdue, local
<1>10. UNCHANGED vars => KeysStep(i)
  BY <1>1 DEF vars, local
<1> QED
  BY <1>3, <1>4, <1>5, <1>6, <1>7, <1>8, <1>9, <1>10, NextCases

\* What a step does to Redis.
RedisStep ==
    \/ UNCHANGED redis
    \/ \E k \in Keys, v \in Orders \cup {CONSUMER} : SetLock(k, v)
    \/ \E i \in Instances : \E k \in keys[i] :
          /\ DropLock(k, Order(i))
          /\ \/ Handling(i, "PaymentFailed")
             \/ Handling(i, "OrderCreated") /\ msg'[i] = msg[i] /\ k \notin keys'[i]
    \/ DropLock(JobKey, CONSUMER)
    \/ \E k \in Keys : redis' = Expire(redis, k) /\ (LeaseMayLapse \/ ~InUse(k))

LEMMA RedisSteps == ASSUME TypeOK, [Next]_vars PROVE RedisStep
<1> USE DEF At
<1>0. /\ keys \in [Instances -> SUBSET Products] /\ Products \subseteq Keys
      /\ JobKey \in Keys /\ \A h \in Instances : pc[h] # "idle" => Order(h) \in Orders
  BY AtLabel DEF TypeOK, HandlersTypeOK, Keys
<1>1. ASSUME UNCHANGED redis PROVE RedisStep
  BY <1>1 DEF RedisStep
<1>2. ASSUME NEW k \in Keys, NEW v \in Orders \cup {CONSUMER}, SetLock(k, v)
      PROVE  RedisStep
  BY <1>2 DEF RedisStep
<1>3. ASSUME DropLock(JobKey, CONSUMER) PROVE RedisStep
  BY <1>3 DEF RedisStep
<1>4. ASSUME NEW i \in Instances, NEW m \in inbox, Receive(i, m) PROVE RedisStep
  BY <1>1, <1>4 DEF Receive, servers
<1>5. ASSUME NEW i \in Instances, HandlerStep(i) PROVE RedisStep
  <2>1. CASE AcquireLock(i)
    BY <1>0, <1>2, <2>1 DEF AcquireLock
  <2>2. CASE ReleaseLock(i)
    <3>1. Handling(i, "OrderCreated") /\ msg' = msg
      BY <2>2, AtLabel DEF ReleaseLock, OrderCreatedLabels
    <3>2. PICK k \in keys[i] : DropLock(k, Order(i)) /\ k \notin keys'[i]
      BY <1>0, <2>2 DEF ReleaseLock, Lowest
    <3> QED
      BY <3>1, <3>2 DEF RedisStep
  <2>3. CASE DropProductLock(i)
    BY <2>3, AtLabel DEF DropProductLock, PaymentFailedLabels, RedisStep
  <2> QED
    BY <1>1, <1>5, <2>1, <2>2, <2>3
       DEF HandlerStep, IsEventProcessed, GiveUpLock, CheckInTransaction,
           CommitReservation, RollBack, EmitOutcome, LocksReleased, FindReserved,
           ReleaseReservation, MarkReleased, AnnounceRelease, SendToDlq,
           Emit, EmitToDlq, Reserve, Restore, MarkProcessed, servers
<1>6. ASSUME NEW i \in Instances, CallFails(i) PROVE RedisStep
  <2>1. CASE pc[i] \in {"unlockReturn", "unlockThrow"}
    <3>1. Handling(i, "OrderCreated") /\ msg' = msg /\ keys'[i] = {}
      BY <1>0, <1>6, <2>1, AtLabel DEF CallFails, Throw, OrderCreatedLabels
    <3>2. UNCHANGED redis \/ \E k \in keys[i] : DropLock(k, Order(i))
      BY <1>6, <2>1 DEF CallFails, Landed, Lowest, Outcome, servers
    <3> QED
      BY <1>1, <3>1, <3>2 DEF RedisStep
  <2>2. CASE pc[i] = "dropLock"
    <3>1. UNCHANGED redis \/ \E k \in keys[i] : DropLock(k, Order(i))
      BY <1>6, <2>2 DEF CallFails, Landed, Outcome, servers
    <3> QED
      BY <1>1, <2>2, <3>1, AtLabel DEF RedisStep, PaymentFailedLabels
  <2>3. CASE pc[i] = "lock"
    <3>1. UNCHANGED redis \/ \E k \in Products : SetLock(k, Order(i))
      BY <1>6, <2>3 DEF CallFails, Landed, Outcome, servers
    <3> QED
      BY <1>0, <1>1, <1>2, <2>3, <3>1
  <2>4. CASE pc[i] \notin {"unlockReturn", "unlockThrow", "dropLock", "lock"}
    BY <1>1, <1>6, <2>4 DEF CallFails, Landed, Emit, EmitToDlq, Reserve, Restore,
       MarkProcessed, servers
  <2> QED
    BY <2>1, <2>2, <2>3, <2>4
<1>7. ASSUME NEW i \in Instances, Crash(i) PROVE RedisStep
  BY <1>1, <1>7 DEF Crash, servers
<1>8. ASSUME NEW j \in Jobs, JobStep(j) \/ JobCallFails(j) \/ JobCrash(j) PROVE RedisStep
  <2>1. \/ UNCHANGED redis \/ SetLock(JobKey, CONSUMER) \/ DropLock(JobKey, CONSUMER)
    BY <1>8 DEF JobStep, JobStart, JobScan, JobExpire, JobEnd, JobCallFails, JobCrash,
       Restore, servers
  <2> QED
    BY <1>0, <1>1, <1>2, <1>3, <2>1
<1>9. ASSUME NEW k \in Keys, LockExpires(k) PROVE RedisStep
  BY <1>9 DEF LockExpires, RedisStep
<1>10. ASSUME NEW o \in Orders, NEW n \in Copies, ReservationOverdue(o, n) PROVE RedisStep
  BY <1>1, <1>10 DEF ReservationOverdue, servers
<1>11. UNCHANGED vars => RedisStep
  BY <1>1 DEF vars, servers
<1> QED
  BY <1>4, <1>5, <1>6, <1>7, <1>8, <1>9, <1>10, <1>11, NextCases
-----------------------------------------------------------------------------
(* The invariant.                                                          *)

\* A step is of one handler at most.
LEMMA OneHandlerMoves ==
    ASSUME TypeOK, [Next]_vars, NEW i \in Instances, NEW h \in Instances, i # h
    PROVE  keys'[i] = keys[i] \/ keys'[h] = keys[h]
<1>1. keys \in [Instances -> SUBSET Products]
  BY DEF TypeOK, HandlersTypeOK
<1>2. UNCHANGED keys \/ \E g \in Instances, ks \in SUBSET Products : keys' = [keys EXCEPT ![g] = ks]
  <2> DEFINE P == UNCHANGED keys \/ \E g \in Instances, ks \in SUBSET Products :
                                        keys' = [keys EXCEPT ![g] = ks]
  <2>1. ASSUME NEW g \in Instances, NEW m \in inbox, Receive(g, m) PROVE P
    BY <2>1 DEF Receive
  <2>2. ASSUME NEW g \in Instances, HandlerStep(g) PROVE P
    <3>1. CASE AcquireLock(g)
      <4>1. PICK k \in Products : keys' = [keys EXCEPT ![g] = keys[g] \cup {k}]
        BY <3>1 DEF AcquireLock
      <4>2. keys[g] \cup {k} \in SUBSET Products
        BY <1>1
      <4> QED
        BY <4>1, <4>2
    <3>2. CASE ReleaseLock(g)
      <4>1. PICK k \in Products : keys' = [keys EXCEPT ![g] = keys[g] \ {k}]
        BY <3>2 DEF ReleaseLock
      <4>2. keys[g] \ {k} \in SUBSET Products
        BY <1>1
      <4> QED
        BY <4>1, <4>2
    <3>3. CASE ReleaseReservation(g)
      BY <3>3, AtLabel, DataTypes DEF ReleaseReservation
    <3> QED
      BY <2>2, <3>1, <3>2, <3>3
         DEF HandlerStep, IsEventProcessed, GiveUpLock, CheckInTransaction,
             CommitReservation, RollBack, EmitOutcome, LocksReleased, FindReserved,
             DropProductLock, MarkReleased, AnnounceRelease, SendToDlq, Finish, Throw
  <2>3. ASSUME NEW g \in Instances, CallFails(g) PROVE P
    BY <2>3 DEF CallFails, Finish, Throw
  <2>4. ASSUME NEW g \in Instances, Crash(g) PROVE P
    BY <2>4 DEF Crash, Finish
  <2>5. ASSUME NEW j \in Jobs, JobStep(j) \/ JobCallFails(j) \/ JobCrash(j) PROVE P
    BY <2>5 DEF JobStep, JobStart, JobScan, JobExpire, JobEnd, JobCallFails, JobCrash,
       notJob, local
  <2>6. ASSUME NEW k \in Keys, LockExpires(k) PROVE P
    BY <2>6 DEF LockExpires, local
  <2>7. ASSUME NEW o \in Orders, NEW n \in Copies, ReservationOverdue(o, n) PROVE P
    BY <2>7 DEF ReservationOverdue, local
  <2>8. UNCHANGED vars => P
    BY DEF vars, local
  <2> HIDE DEF P
  <2>9. P
    BY <2>1, <2>2, <2>3, <2>4, <2>5, <2>6, <2>7, <2>8, NextCases
  <2> QED
    BY <2>9 DEF P
<1> QED
  BY <1>1, <1>2

\* A handler's new message has just been received.
LEMMA DeliverySteps ==
    ASSUME TypeOK, [Next]_vars, NEW i \in Instances,
           msg'[i] # msg[i], msg'[i].type = "PaymentFailed"
    PROVE  \E m \in inbox : Receive(i, m) /\ msg'[i] = m
<1> DEFINE P == \E m \in inbox : Receive(i, m) /\ msg'[i] = m
<1>1. msg \in [Instances -> Messages \cup {NoMessage}]
  BY DEF TypeOK, HandlersTypeOK
<1>2. ASSUME NEW g \in Instances, NEW m \in inbox, Receive(g, m) PROVE P
  BY <1>1, <1>2 DEF Receive
<1>3. ASSUME NEW g \in Instances, Finish(g) PROVE FALSE
  BY <1>1, <1>3 DEF Finish, NoMessage
<1>4. ASSUME UNCHANGED msg PROVE FALSE
  BY <1>4
<1>5. ASSUME NEW g \in Instances, HandlerStep(g) \/ CallFails(g) \/ Crash(g) PROVE FALSE
  <2>1. Finish(g) \/ UNCHANGED msg
    BY <1>5 DEF HandlerStep, IsEventProcessed, AcquireLock, GiveUpLock,
       CheckInTransaction, CommitReservation, RollBack, EmitOutcome, ReleaseLock,
       LocksReleased, FindReserved, ReleaseReservation, DropProductLock, MarkReleased,
       AnnounceRelease, SendToDlq, CallFails, Crash, Throw
  <2> QED
    BY <1>3, <1>4, <2>1
<1>6. ASSUME NEW j \in Jobs, JobStep(j) \/ JobCallFails(j) \/ JobCrash(j) PROVE FALSE
  BY <1>4, <1>6 DEF JobStep, JobStart, JobScan, JobExpire, JobEnd, JobCallFails,
     JobCrash, notJob, local
<1>7. ASSUME NEW k \in Keys, LockExpires(k) PROVE FALSE
  BY <1>4, <1>7 DEF LockExpires, local
<1>8. ASSUME NEW o \in Orders, NEW n \in Copies, ReservationOverdue(o, n) PROVE FALSE
  BY <1>4, <1>8 DEF ReservationOverdue, local
<1>9. ~UNCHANGED vars
  BY <1>4 DEF vars, local
<1> HIDE DEF P
<1>10. P
  BY <1>2, <1>5, <1>6, <1>7, <1>8, <1>9, NextCases
<1> QED
  BY <1>10 DEF P

\* What a handler has after a step it had before, or has just taken; and it
\* was waiting before.
LEMMA WaitingBefore ==
    ASSUME TypeOK, [Next]_vars, NEW i \in Instances, Waiting(i)', NEW k \in keys'[i]
    PROVE  /\ msg'[i] = msg[i] /\ Waiting(i) /\ k \in Products /\ k # JobKey
           /\ Order(i) \in Orders /\ Order(i) # NoValue
           /\ k \in keys[i] \/ SetLock(k, Order(i))
<1>1. /\ msg'[i].type = "OrderCreated" /\ <<"OrderCreated", msg'[i].order>> \notin processed'
  BY DEF Waiting, Handling, Done, Order
<1>2. msg'[i] = msg[i] /\ (k \in keys[i] \/ SetLock(k, Order(i)))
  BY <1>1, KeysSteps DEF KeysStep
<1>3. processed \subseteq processed'
  BY DbSteps DEF DbStep, db, Reserve, Restore, MarkProcessed
<1>4. k \in Products
  BY TypeCorrectStep DEF TypeOK, HandlersTypeOK
<1>5. msg[i] \in Messages
  BY <1>1, <1>2 DEF TypeOK, HandlersTypeOK, NoMessage
<1> QED
  BY <1>1, <1>2, <1>3, <1>4, <1>5, MessageTypes, StockAssumption, InventoryAssumption
     DEF Waiting, Handling, Done, Order, JobKey

LEMMA LocksHeldStep ==
    ASSUME TypeOK, LockInv, ~LeaseMayLapse, [Next]_vars
    PROVE  LocksHeld'
<1> SUFFICES ASSUME NEW i \in Instances, Waiting(i)', NEW k \in keys'[i]
             PROVE  redis'[k] = msg'[i].order
  BY DEF LocksHeld, Order
<1>1. /\ msg'[i] = msg[i] /\ Waiting(i) /\ k \in Products /\ k # JobKey
      /\ Order(i) \in Orders /\ Order(i) # NoValue
      /\ k \in keys[i] \/ SetLock(k, Order(i))
  BY WaitingBefore
<1>2. redis \in [Keys -> Orders \cup {NoValue, CONSUMER}] /\ Products \subseteq Keys
  BY DEF TypeOK, ServersTypeOK, Keys
<1>3. CASE k \notin keys[i]
  BY <1>1, <1>2, <1>3 DEF SetLock, SetNxEx, Order
<1>4. CASE k \in keys[i]
  <2>1. redis[k] = Order(i)
    BY <1>1, <1>4 DEF LockInv, LocksHeld
  <2>2. redis'[k] = redis[k]
    <3>1. CASE UNCHANGED redis
      BY <3>1
    <3>2. CASE \E l \in Keys, v \in Orders \cup {CONSUMER} : SetLock(l, v)
      BY <1>1, <1>2, <2>1, <3>2 DEF SetLock, SetNxEx, IsAbsent
    <3>3. ASSUME NEW h \in Instances, NEW l \in keys[h], DropLock(l, Order(h)),
                 Handling(h, "PaymentFailed")
          PROVE  redis'[k] = redis[k]
      <4>1. Order(h) # Order(i)
        BY <1>1, <3>3 DEF LockInv, FailureFollows, Waiting
      <4> QED
        BY <1>1, <1>2, <2>1, <3>3, <4>1 DEF DropLock, DeleteIfValue
    <3>4. ASSUME NEW h \in Instances, NEW l \in keys[h], DropLock(l, Order(h)),
                 Handling(h, "OrderCreated"), msg'[h] = msg[h], l \notin keys'[h]
          PROVE  redis'[k] = redis[k]
      <4>1. CASE k # l
        BY <1>2, <3>4, <4>1 DEF DropLock, DeleteIfValue
      <4>2. CASE k = l
        <5>1. h # i
          BY <3>4, <4>2
        <5>2. Order(h) # Order(i)
          BY <1>1, <1>4, <3>4, <4>2, <5>1 DEF LockInv, LocksExclusive, Waiting
        <5> QED
          BY <1>1, <1>2, <2>1, <3>4, <5>2 DEF DropLock, DeleteIfValue
      <4> QED
        BY <4>1, <4>2
    <3>5. CASE DropLock(JobKey, CONSUMER)
      BY <1>1, <1>2, <3>5 DEF DropLock, DeleteIfValue
    <3>6. ASSUME NEW l \in Keys, redis' = Expire(redis, l), ~InUse(l)
          PROVE  redis'[k] = redis[k]
      <4>1. k # l
        BY <1>1, <1>4, <3>6 DEF InUse, Waiting, Handling
      <4> QED
        BY <1>2, <3>6, <4>1 DEF Expire
    <3> QED
      BY <3>1, <3>2, <3>3, <3>4, <3>5, <3>6, RedisSteps DEF RedisStep
  <2> QED
    BY <1>1, <2>1, <2>2 DEF Order
<1> QED
  BY <1>3, <1>4

LEMMA LocksExclusiveStep ==
    ASSUME TypeOK, LockInv, [Next]_vars
    PROVE  LocksExclusive'
<1> SUFFICES ASSUME NEW i \in Instances, NEW h \in Instances, i # h,
                    Waiting(i)', Waiting(h)', NEW k \in keys'[i], k \in keys'[h]
             PROVE  FALSE
  BY DEF LocksExclusive
<1>1. /\ Waiting(i) /\ Waiting(h) /\ k \in Products
      /\ Order(i) # NoValue /\ Order(h) # NoValue
      /\ k \in keys[i] \/ SetLock(k, Order(i))
      /\ k \in keys[h] \/ SetLock(k, Order(h))
  BY WaitingBefore
<1>2. ~(k \in keys[i] /\ k \in keys[h])
  BY <1>1 DEF LockInv, LocksExclusive
<1>3. ~(k \in keys[i] /\ SetLock(k, Order(h))) /\ ~(k \in keys[h] /\ SetLock(k, Order(i)))
  BY <1>1 DEF LockInv, LocksHeld, SetLock, IsAbsent
<1>4. CASE k \notin keys[i] /\ k \notin keys[h]
  \* one step takes one lock for one handler
  <2>1. keys'[i] # keys[i] /\ keys'[h] # keys[h]
    BY <1>4
  <2> QED
    BY <2>1, OneHandlerMoves
<1> QED
  BY <1>1, <1>2, <1>3, <1>4

\* A handler gets to its commit with all its locks, past the second look at
\* processed_events.
CommitStep(i) ==
    pc'[i] = "commit" =>
        /\ msg'[i] = msg[i] /\ keys'[i] = keys[i]
        /\ \/ pc[i] = "commit"
           \/ /\ Wanted(i) = {} /\ EventId(msg[i]) \notin processed'
              /\ Handling(i, "OrderCreated")

LEMMA CommitSteps ==
    ASSUME TypeOK, [Next]_vars, NEW i \in Instances
    PROVE  CommitStep(i)
<1> USE DEF At, Goto
<1>0. /\ pc \in [Instances -> Labels] /\ msg \in [Instances -> Messages \cup {NoMessage}]
      /\ keys \in [Instances -> SUBSET Products]
      /\ \A h \in Instances : pc[h] = "lock" => Handling(h, "OrderCreated")
  BY DEF TypeOK, HandlersTypeOK, OrderCreatedLabels
<1>1. ASSUME UNCHANGED <<pc, msg, keys>> PROVE CommitStep(i)
  BY <1>1 DEF CommitStep
<1>2. ASSUME NEW h \in Instances, Finish(h) \/ Throw(h) PROVE CommitStep(i)
  BY <1>0, <1>2 DEF CommitStep, Finish, Throw
<1>3. ASSUME NEW h \in Instances, NEW m \in inbox, Receive(h, m) PROVE CommitStep(i)
  BY <1>0, <1>3 DEF CommitStep, Receive
<1>4. ASSUME NEW h \in Instances, HandlerStep(h) PROVE CommitStep(i)
  <2>1. CASE IsEventProcessed(h)
    BY <1>0, <1>2, <2>1 DEF CommitStep, IsEventProcessed
  <2>2. CASE CheckInTransaction(h)
    BY <1>0, <2>2 DEF CommitStep, CheckInTransaction, servers, db
  <2>3. CASE \/ GiveUpLock(h) \/ CommitReservation(h) \/ RollBack(h) \/ EmitOutcome(h)
             \/ FindReserved(h) \/ MarkReleased(h)
    BY <1>0, <2>3 DEF CommitStep, GiveUpLock, CommitReservation, RollBack, EmitOutcome,
       FindReserved, MarkReleased
  <2>4. CASE \/ AcquireLock(h) \/ ReleaseLock(h)
             \/ ReleaseReservation(h) \/ DropProductLock(h)
    BY <1>0, <2>4 DEF CommitStep, AcquireLock, ReleaseLock, ReleaseReservation,
       DropProductLock
  <2> QED
    BY <1>2, <1>4, <2>1, <2>2, <2>3, <2>4
       DEF HandlerStep, LocksReleased, AnnounceRelease, SendToDlq
<1>5. ASSUME NEW h \in Instances, CallFails(h) PROVE CommitStep(i)
  BY <1>0, <1>2, <1>5 DEF CommitStep, CallFails
<1>6. ASSUME NEW h \in Instances, Crash(h) PROVE CommitStep(i)
  BY <1>2, <1>6 DEF Crash
<1>7. ASSUME NEW j \in Jobs, JobStep(j) \/ JobCallFails(j) \/ JobCrash(j)
      PROVE  CommitStep(i)
  BY <1>1, <1>7 DEF JobStep, JobStart, JobScan, JobExpire, JobEnd, JobCallFails,
     JobCrash, notJob, local
<1>8. ASSUME NEW k \in Keys, LockExpires(k) PROVE CommitStep(i)
  BY <1>1, <1>8 DEF LockExpires, local
<1>9. ASSUME NEW o \in Orders, NEW n \in Copies, ReservationOverdue(o, n)
      PROVE  CommitStep(i)
  BY <1>1, <1>9 DEF ReservationOverdue, local
<1>10. UNCHANGED vars => CommitStep(i)
  BY <1>1 DEF vars, local
<1> QED
  BY <1>3, <1>4, <1>5, <1>6, <1>7, <1>8, <1>9, <1>10, NextCases

\* Of one order only one handler can be about to commit before its event is
\* processed: the two would share a lock.
LEMMA OneCommitter ==
    ASSUME TypeOK, LockInv, NEW i \in Instances, NEW h \in Instances,
           pc[i] = "commit", pc[h] = "commit", Order(i) = Order(h)
    PROVE  i = h
<1>1. Order(i) \in Orders /\ Order(h) \in Orders
  BY AtLabel
<1>2. PICK p \in Products : p \in ProductsOf(Order(i))
  BY <1>1, DataTypes
<1>3. p \in keys[i] /\ p \in keys[h] /\ Waiting(i) /\ Waiting(h)
  BY <1>2 DEF LockInv, CommitIsFirst
<1> QED
  BY <1>3 DEF LockInv, LocksExclusive

LEMMA CommitIsFirstStep ==
    ASSUME TypeOK, LockInv, [Next]_vars
    PROVE  CommitIsFirst'
<1> SUFFICES ASSUME NEW i \in Instances, pc'[i] = "commit"
             PROVE  ProductsOf(msg'[i].order) \subseteq keys'[i] /\ Waiting(i)'
  BY DEF CommitIsFirst, Order
<1>1. CommitStep(i)
  BY CommitSteps
<1>2. CASE pc[i] = "commit"
  <2>1. ProductsOf(Order(i)) \subseteq keys[i] /\ Waiting(i)
    BY <1>2 DEF LockInv, CommitIsFirst
  <2>2. msg'[i] = msg[i] /\ keys'[i] = keys[i]
    BY <1>1 DEF CommitStep
  <2>3. <<"OrderCreated", Order(i)>> \notin processed'
    <3> SUFFICES ASSUME <<"OrderCreated", Order(i)>> \in processed' PROVE FALSE
      OBVIOUS
    <3>1. Order(i) \in Orders
      BY <1>2, AtLabel
    <3>2. <<"OrderCreated", Order(i)>> \notin processed
      BY <2>1 DEF Waiting, Done
    <3>3. PICK h \in Instances : /\ pc[h] = "commit" /\ pc'[h] \notin Reserving
                                 /\ Reserve(msg[h]) /\ msg[h].order = Order(i)
      BY <3>1, <3>2, DbSteps
         DEF DbStep, db, Reserve, Restore, MarkProcessed, EventId, Handling
    <3>4. h = i
      BY <1>2, <3>3, OneCommitter DEF Order
    <3> QED
      BY <3>3, <3>4 DEF Reserving
  <2> QED
    BY <2>1, <2>2, <2>3 DEF Waiting, Handling, Done, Order
<1>3. CASE Wanted(i) = {} /\ EventId(msg[i]) \notin processed' /\ Handling(i, "OrderCreated")
  BY <1>1, <1>3 DEF CommitStep, Wanted, Waiting, Handling, Done, Order, EventId
<1> QED
  BY <1>1, <1>2, <1>3 DEF CommitStep

LEMMA FailureFollowsStep ==
    ASSUME TypeOK, LockInv, AnnouncementInv, [Next]_vars
    PROVE  FailureFollows'
<1>1. processed \subseteq processed'
  BY DbSteps DEF DbStep, db, Reserve, Restore, MarkProcessed
<1>2. ASSUME NEW i \in Instances, msg'[i].type = "PaymentFailed"
      PROVE  <<"OrderCreated", msg'[i].order>> \in processed'
  <2>1. CASE msg'[i] = msg[i]
    BY <1>1, <1>2, <2>1 DEF LockInv, FailureFollows, Handling, Done, Order
  <2>2. CASE msg'[i] # msg[i]
    <3>1. PICK m \in inbox : Receive(i, m) /\ msg'[i] = m
      BY <1>2, <2>2, DeliverySteps
    <3>2. Announced(m.order)
      BY <1>2, <3>1 DEF Receive
    <3> QED
      BY <1>1, <3>1, <3>2 DEF Announced, AnnouncementInv, Done
  <2> QED
    BY <2>1, <2>2
<1>3. ASSUME NEW o \in Orders, <<"PaymentFailed", o>> \in processed'
      PROVE  <<"OrderCreated", o>> \in processed'
  <2>1. \/ <<"PaymentFailed", o>> \in processed
        \/ \E i \in Instances : Handling(i, "PaymentFailed") /\ Order(i) = o
    <3>1. \A i \in Instances : pc[i] = "commit" => msg[i].type = "OrderCreated"
      BY AtLabel DEF OrderCreatedLabels, Handling
    <3> QED
      BY <1>3, <3>1, DbSteps
         DEF DbStep, db, Reserve, Restore, MarkProcessed, EventId, Order
  <2> QED
    BY <1>1, <2>1 DEF LockInv, FailureFollows, Done
<1> QED
  BY <1>2, <1>3 DEF FailureFollows, Handling, Done, Order

LEMMA LockInvariant ==
    ASSUME ~LeaseMayLapse
    PROVE  Spec => []LockInv
<1>1. Init => LockInv
  BY DEF Init, LockInv, LocksHeld, LocksExclusive, CommitIsFirst, FailureFollows, Waiting,
     Handling, Done, NoMessage
<1>2. TypeOK /\ AnnouncementInv /\ LockInv /\ [Next]_vars => LockInv'
  BY LocksHeldStep, LocksExclusiveStep, CommitIsFirstStep, FailureFollowsStep DEF LockInv
<1> QED
  BY <1>1, <1>2, TypeCorrect, AnnouncementInvariant, PTL DEF Spec
-----------------------------------------------------------------------------
(* What follows from it.                                                   *)

\* The product lock is a mutex among handlers whose event is not processed yet
\* (acquireLockWithRetry, releaseLocks), despite its value being the order id.
THEOREM ReserveIsMutex ==
    ASSUME ~LeaseMayLapse
    PROVE  Spec => []ReserveMutex
<1>1. LockInv => ReserveMutex
  BY DEF LockInv, LocksExclusive, ReserveMutex, Waiting
<1> QED
  BY <1>1, LockInvariant, PTL

\* However often OrderCreated is delivered, one copy of it reserves stock.
THEOREM OrderIsReservedOnce ==
    ASSUME ~LeaseMayLapse
    PROVE  Spec => []ReservedOnce
<1>1. Init => ReservedOnce
  BY DEF Init, ReservedOnce
<1>2. TypeOK /\ RefinementInv /\ LockInv /\ ReservedOnce /\ [Next]_vars => ReservedOnce'
  <2> SUFFICES ASSUME TypeOK, RefinementInv, LockInv, ReservedOnce, [Next]_vars,
                      NEW r \in Rows, NEW q \in Rows, r[1] = q[1],
                      reservation'[r] # "NONE", reservation'[q] # "NONE"
               PROVE  r[3] = q[3]
    BY DEF ReservedOnce
  <2>1. CASE reservation[r] # "NONE" /\ reservation[q] # "NONE"
    BY <2>1 DEF ReservedOnce
  <2>2. ASSUME NEW x \in Rows, NEW y \in Rows, x[1] = y[1],
               reservation[x] = "NONE", reservation'[x] # "NONE",
               reservation'[y] # "NONE"
        PROVE  x[3] = y[3]
    <3>1. PICK i \in Instances : /\ pc[i] = "commit" /\ Reserve(msg[i])
                                 /\ x \in RowsOf(msg[i].order, msg[i].copy)
      BY <2>2, RowSteps
    <3>2. <<"OrderCreated", y[1]>> \notin processed
      BY <2>2, <3>1 DEF LockInv, CommitIsFirst, Waiting, Done, Order, RowsOf
    <3>3. reservation[y] = "NONE"
      BY <3>2 DEF RefinementInv, RowsAreKnown, Done
    <3>4. y \in RowsOf(msg[i].order, msg[i].copy)
      BY <2>2, <3>1, <3>3 DEF Reserve
    <3> QED
      BY <3>1, <3>4 DEF RowsOf
  <2> QED
    BY <2>1, <2>2
<1> QED
  BY <1>1, <1>2, TypeCorrect, RefinementInvariant, LockInvariant, PTL DEF Spec
-----------------------------------------------------------------------------
(* The stock of a failed payment.                                          *)

Releasing == {"release", "dropLock"}

\* What a PaymentFailed handler has found covers what is still reserved, and
\* nothing more is reserved once the event is marked.
ReturnInv ==
    /\ \A i \in Instances : pc[i] \in Releasing => Reserved(Order(i)) \subseteq claim[i]
    /\ FailedPaymentReturnsStock

\* No row of an order becomes RESERVED after its OrderCreated is processed.
LEMMA NothingReservedLater ==
    ASSUME TypeOK, LockInv, [Next]_vars, NEW o \in Orders, Done("OrderCreated", o)
    PROVE  Reserved(o)' \subseteq Reserved(o)
<1> SUFFICES ASSUME NEW r \in Rows, r[1] = o, reservation'[r] = "RESERVED"
             PROVE  reservation[r] = "RESERVED"
  BY DEF Reserved
<1>1. reservation \in [Rows -> Status]
  BY DEF TypeOK, ServersTypeOK
<1>2. ASSUME NEW i \in Instances, pc[i] = "commit", Reserve(msg[i])
      PROVE  r \notin RowsOf(msg[i].order, msg[i].copy)
  BY <1>2 DEF LockInv, CommitIsFirst, Waiting, Done, Order, RowsOf
<1> QED
  BY <1>1, <1>2, DbSteps DEF DbStep, db, Reserve, Restore, MarkProcessed

\* A claim shrinks by rows that are not reserved any more.
ClaimStep(i) ==
    pc'[i] \in Releasing =>
        /\ msg'[i] = msg[i]
        /\ \/ claim'[i] = Reserved(Order(i)) /\ UNCHANGED db
           \/ pc[i] \in Releasing /\ claim'[i] = claim[i]
           \/ /\ pc[i] \in Releasing
              /\ \E r \in Rows : /\ claim'[i] = claim[i] \ {r}
                               /\ reservation'[r] # "RESERVED"

LEMMA ClaimSteps ==
    ASSUME TypeOK, [Next]_vars, NEW i \in Instances
    PROVE  ClaimStep(i)
<1> USE DEF At, Goto, Releasing
<1>0. /\ pc \in [Instances -> Labels] /\ msg \in [Instances -> Messages \cup {NoMessage}]
      /\ claim \in [Instances -> SUBSET Rows] /\ reservation \in [Rows -> Status]
  BY DEF TypeOK, HandlersTypeOK, ServersTypeOK
<1>1. ASSUME UNCHANGED <<pc, msg, claim>> PROVE ClaimStep(i)
  BY <1>1 DEF ClaimStep
<1>2. ASSUME NEW h \in Instances, Finish(h) \/ Throw(h) PROVE ClaimStep(i)
  BY <1>0, <1>2 DEF ClaimStep, Finish, Throw
<1>3. ASSUME NEW h \in Instances, NEW m \in inbox, Receive(h, m) PROVE ClaimStep(i)
  BY <1>0, <1>3 DEF ClaimStep, Receive
<1>4. ASSUME NEW h \in Instances, HandlerStep(h) PROVE ClaimStep(i)
  <2>1. CASE IsEventProcessed(h)
    BY <1>0, <1>2, <2>1 DEF ClaimStep, IsEventProcessed
  <2>2. CASE FindReserved(h)
    BY <1>0, <2>2 DEF ClaimStep, FindReserved, servers, db
  <2>3. CASE ReleaseReservation(h)
    <3>1. PICK r \in Rows : /\ claim' = [claim EXCEPT ![h] = claim[h] \ {r}]
                            /\ reservation'[r] # "RESERVED"
      BY <1>0, <2>3 DEF ReleaseReservation, Restore, servers, db
    <3>2. /\ pc[h] = "release" /\ msg' = msg
          /\ \A g \in Instances \ {h} : pc'[g] = pc[g]
      BY <1>0, <2>3 DEF ReleaseReservation
    <3> QED
      BY <1>0, <3>1, <3>2 DEF ClaimStep
  <2>4. CASE \/ GiveUpLock(h) \/ CommitReservation(h) \/ RollBack(h) \/ EmitOutcome(h)
             \/ CheckInTransaction(h) \/ MarkReleased(h) \/ DropProductLock(h)
    BY <1>0, <2>4 DEF ClaimStep, GiveUpLock, CommitReservation, RollBack, EmitOutcome,
       CheckInTransaction, MarkReleased, DropProductLock
  <2>5. CASE AcquireLock(h) \/ ReleaseLock(h)
    BY <1>0, <2>5 DEF ClaimStep, AcquireLock, ReleaseLock
  <2> QED
    BY <1>2, <1>4, <2>1, <2>2, <2>3, <2>4, <2>5
       DEF HandlerStep, LocksReleased, AnnounceRelease, SendToDlq
<1>5. ASSUME NEW h \in Instances, CallFails(h) PROVE ClaimStep(i)
  BY <1>0, <1>2, <1>5 DEF ClaimStep, CallFails
<1>6. ASSUME NEW h \in Instances, Crash(h) PROVE ClaimStep(i)
  BY <1>2, <1>6 DEF Crash
<1>7. ASSUME NEW j \in Jobs, JobStep(j) \/ JobCallFails(j) \/ JobCrash(j)
      PROVE  ClaimStep(i)
  BY <1>1, <1>7 DEF JobStep, JobStart, JobScan, JobExpire, JobEnd, JobCallFails,
     JobCrash, notJob, local
<1>8. ASSUME NEW k \in Keys, LockExpires(k) PROVE ClaimStep(i)
  BY <1>1, <1>8 DEF LockExpires, local
<1>9. ASSUME NEW o \in Orders, NEW n \in Copies, ReservationOverdue(o, n)
      PROVE  ClaimStep(i)
  BY <1>1, <1>9 DEF ReservationOverdue, local
<1>10. UNCHANGED vars => ClaimStep(i)
  BY <1>1 DEF vars, local
<1> QED
  BY <1>3, <1>4, <1>5, <1>6, <1>7, <1>8, <1>9, <1>10, NextCases

\* PaymentFailed is marked by a handler with nothing left to release.
LEMMA MarkSteps ==
    ASSUME TypeOK, [Next]_vars, NEW o \in Orders,
           <<"PaymentFailed", o>> \in processed', <<"PaymentFailed", o>> \notin processed
    PROVE  \E i \in Instances : /\ pc[i] = "release" /\ claim[i] = {} /\ Order(i) = o
                                /\ Handling(i, "PaymentFailed") /\ MarkProcessed(msg[i])
<1> DEFINE P == \E i \in Instances :
                   /\ pc[i] = "release" /\ claim[i] = {} /\ Order(i) = o
                   /\ Handling(i, "PaymentFailed") /\ MarkProcessed(msg[i])
<1> USE DEF At
<1>1. \A i \in Instances : pc[i] = "commit" => msg[i].type = "OrderCreated"
  BY AtLabel DEF OrderCreatedLabels, Handling
<1>2. ASSUME UNCHANGED processed PROVE P
  BY <1>2
<1>3. ASSUME NEW i \in Instances, pc[i] = "commit", Reserve(msg[i]) PROVE P
  BY <1>1, <1>3 DEF Reserve, EventId
<1>4. ASSUME NEW i \in Instances, pc[i] = "release", claim[i] = {}, MarkProcessed(msg[i])
      PROVE  P
  BY <1>4, AtLabel DEF MarkProcessed, EventId, Order, PaymentFailedLabels, Handling
<1> HIDE DEF P
<1>5. ASSUME NEW i \in Instances, NEW m \in inbox, Receive(i, m) PROVE P
  BY <1>2, <1>5 DEF Receive, servers, db
<1>6. ASSUME NEW i \in Instances, HandlerStep(i) PROVE P
  BY <1>2, <1>3, <1>4, <1>6
     DEF HandlerStep, IsEventProcessed, AcquireLock, GiveUpLock, CheckInTransaction,
         CommitReservation, RollBack, EmitOutcome, ReleaseLock, LocksReleased,
         FindReserved, ReleaseReservation, DropProductLock, MarkReleased,
         AnnounceRelease, SendToDlq, SetLock, DropLock, Emit, EmitToDlq, Restore,
         servers, db
<1>7. ASSUME NEW i \in Instances, CallFails(i) PROVE P
  BY <1>2, <1>3, <1>4, <1>7
     DEF CallFails, Landed, SetLock, DropLock, Emit, EmitToDlq, Restore, servers, db
<1>8. ASSUME NEW i \in Instances, Crash(i) PROVE P
  BY <1>2, <1>8 DEF Crash, servers, db
<1>9. ASSUME NEW j \in Jobs, JobStep(j) \/ JobCallFails(j) \/ JobCrash(j) PROVE P
  BY <1>2, <1>9 DEF JobStep, JobStart, JobScan, JobExpire, JobEnd, JobCallFails,
     JobCrash, SetLock, DropLock, Restore, servers, db
<1>10. ASSUME NEW k \in Keys, LockExpires(k) PROVE P
  BY <1>2, <1>10 DEF LockExpires, db
<1>11. ASSUME NEW q \in Orders, NEW n \in Copies, ReservationOverdue(q, n) PROVE P
  BY <1>2, <1>11 DEF ReservationOverdue, servers, db
<1>12. UNCHANGED vars => P
  BY <1>2 DEF vars, servers, db
<1>13. P
  BY <1>5, <1>6, <1>7, <1>8, <1>9, <1>10, <1>11, <1>12, NextCases
<1> QED
  BY <1>13 DEF P

\* Once a PaymentFailed is processed, no reservation of its order is open or will
\* be (handlePaymentFailed marks the event after its last release).
THEOREM FailedPaymentReturns ==
    ASSUME ~LeaseMayLapse
    PROVE  Spec => []FailedPaymentReturnsStock
<1>1. Init => ReturnInv
  BY DEF Init, ReturnInv, FailedPaymentReturnsStock, Done, Releasing
<1>2. TypeOK /\ LockInv /\ ReturnInv /\ [Next]_vars => ReturnInv'
  <2> SUFFICES ASSUME TypeOK, LockInv, ReturnInv, [Next]_vars PROVE ReturnInv'
    OBVIOUS
  <2>1. ASSUME NEW i \in Instances, pc'[i] \in Releasing
        PROVE  \A r \in Rows : r[1] = msg'[i].order /\ reservation'[r] = "RESERVED"
                                  => r \in claim'[i]
    <3>1. msg'[i].order = Order(i) /\ ClaimStep(i)
      BY <2>1, ClaimSteps DEF ClaimStep, Order
    <3>2. CASE claim'[i] = Reserved(Order(i)) /\ UNCHANGED db
      BY <3>1, <3>2 DEF Reserved, db
    <3>3. CASE pc[i] \in Releasing
      <4>1. Order(i) \in Orders /\ Done("OrderCreated", Order(i))
        BY <3>3, AtLabel DEF Releasing, PaymentFailedLabels, LockInv, FailureFollows
      <4>2. Reserved(Order(i))' \subseteq claim[i]
        <5>1. {r \in Rows : r[1] = Order(i) /\ reservation'[r] = "RESERVED"}
                 \subseteq Reserved(Order(i))
          BY <4>1, NothingReservedLater DEF Reserved
        <5> QED
          BY <3>1, <3>3, <5>1 DEF Reserved, ReturnInv, Order
      <4> QED
        BY <2>1, <3>1, <3>2, <4>2 DEF ClaimStep, Reserved, Order
    <3> QED
      BY <2>1, <3>1, <3>2, <3>3 DEF ClaimStep
  <2>2. ASSUME NEW o \in Orders, <<"PaymentFailed", o>> \in processed',
               NEW r \in Rows, r[1] = o
        PROVE  reservation'[r] # "RESERVED"
    <3>1. CASE <<"PaymentFailed", o>> \in processed
      <4>1. Done("OrderCreated", o) /\ Reserved(o) = {}
        BY <3>1 DEF LockInv, FailureFollows, ReturnInv, FailedPaymentReturnsStock, Done
      <4> QED
        BY <2>2, <4>1, NothingReservedLater DEF Reserved
    <3>2. CASE <<"PaymentFailed", o>> \notin processed
      <4>1. PICK i \in Instances : /\ pc[i] = "release" /\ claim[i] = {} /\ Order(i) = o
                                   /\ Handling(i, "PaymentFailed") /\ MarkProcessed(msg[i])
        BY <2>2, <3>2, MarkSteps
      <4>2. Reserved(o) = {} /\ reservation' = reservation
        BY <4>1 DEF ReturnInv, Releasing, MarkProcessed
      <4> QED
        BY <2>2, <4>2 DEF Reserved
    <3> QED
      BY <3>1, <3>2
  <2> QED
    BY <2>1, <2>2 DEF ReturnInv, FailedPaymentReturnsStock, Reserved, Done, Order
<1>3. ReturnInv => FailedPaymentReturnsStock
  BY DEF ReturnInv
<1> QED
  BY <1>1, <1>2, <1>3, TypeCorrect, LockInvariant, PTL DEF Spec
-----------------------------------------------------------------------------
(* The expiry job.                                                         *)

JobInv ==
    /\ JobExclusive
    /\ \A j \in Jobs : jobPc[j] # "off" => redis[JobKey] = CONSUMER

\* Handlers leave the job's key alone.
LEMMA JobKeyIsNoProduct ==
    ASSUME TypeOK, NEW i \in Instances, HandlerStep(i) \/ CallFails(i)
    PROVE  redis'[JobKey] = redis[JobKey] /\ UNCHANGED jobPc
<1>0. /\ redis \in [Keys -> Orders \cup {NoValue, CONSUMER}]
      /\ keys \in [Instances -> SUBSET Products] /\ JobKey \notin Products
  BY StockAssumption DEF TypeOK, ServersTypeOK, HandlersTypeOK, JobKey
<1>1. ASSUME UNCHANGED redis PROVE redis'[JobKey] = redis[JobKey]
  BY <1>1
<1>2. ASSUME NEW k \in Products, NEW v, SetLock(k, v) \/ DropLock(k, v)
      PROVE  redis'[JobKey] = redis[JobKey]
  <2>1. k # JobKey
    BY <1>0
  <2>2. CASE SetLock(k, v)
    BY <1>0, <2>1, <2>2 DEF SetLock, SetNxEx, Keys
  <2>3. CASE DropLock(k, v)
    BY <1>0, <2>1, <2>3 DEF DropLock, DeleteIfValue, Keys
  <2> QED
    BY <1>2, <2>2, <2>3
<1>3. UNCHANGED jobPc
  BY DEF HandlerStep, IsEventProcessed, AcquireLock, GiveUpLock, CheckInTransaction,
     CommitReservation, RollBack, EmitOutcome, ReleaseLock, LocksReleased, FindReserved,
     ReleaseReservation, DropProductLock, MarkReleased, AnnounceRelease, SendToDlq,
     CallFails, rest, job
<1>4. CASE HandlerStep(i)
  <2>1. ASSUME DropProductLock(i) PROVE redis'[JobKey] = redis[JobKey]
    BY <1>0, <1>2, <2>1 DEF DropProductLock
  <2> QED
    BY <1>1, <1>2, <1>3, <1>4, <2>1
       DEF HandlerStep, IsEventProcessed, AcquireLock, GiveUpLock, CheckInTransaction,
           CommitReservation, RollBack, EmitOutcome, ReleaseLock, LocksReleased,
           FindReserved, ReleaseReservation, MarkReleased, AnnounceRelease, SendToDlq,
           Emit, EmitToDlq, Reserve, Restore, MarkProcessed, servers
<1>5. CASE CallFails(i)
  <2>1. ASSUME NEW k \in keys[i], DropLock(k, Order(i))
        PROVE  redis'[JobKey] = redis[JobKey]
    BY <1>0, <1>2, <2>1
  <2> QED
    BY <1>1, <1>2, <1>3, <1>5, <2>1
       DEF CallFails, Landed, Emit, EmitToDlq, Reserve, Restore, MarkProcessed, servers
<1> QED
  BY <1>4, <1>5

\* Only one run of the expiry job is under way at a time, on whatever instances
\* (releaseExpiredReservations).
THEOREM JobIsExclusive ==
    ASSUME ~LeaseMayLapse
    PROVE  Spec => []JobExclusive
<1>1. Init => JobInv
  BY DEF Init, JobInv, JobExclusive
<1>2. TypeOK /\ JobInv /\ [Next]_vars => JobInv'
  <2> SUFFICES ASSUME TypeOK, JobInv, [Next]_vars PROVE JobInv'
    OBVIOUS
  <2> USE DEF JobInv, JobExclusive
  <2>0. /\ jobPc \in [Jobs -> {"off", "scan", "sweep"}] /\ JobKey \in Keys
        /\ redis \in [Keys -> Orders \cup {NoValue, CONSUMER}]
    BY DEF TypeOK, JobsTypeOK, ServersTypeOK, Keys
  <2>1. ASSUME UNCHANGED jobPc, redis'[JobKey] = redis[JobKey] PROVE JobInv'
    BY <2>1
  <2>2. ASSUME NEW i \in Instances, NEW m \in inbox, Receive(i, m) PROVE JobInv'
    BY <2>1, <2>2 DEF Receive, servers, job
  <2>3. ASSUME NEW i \in Instances, HandlerStep(i) \/ CallFails(i) PROVE JobInv'
    BY <2>1, <2>3, JobKeyIsNoProduct
  <2>4. ASSUME NEW i \in Instances, Crash(i) PROVE JobInv'
    BY <2>1, <2>4 DEF Crash, servers, job
  <2>5. ASSUME NEW j \in Jobs, JobStep(j) \/ JobCallFails(j) \/ JobCrash(j) PROVE JobInv'
    <3>1. CASE JobStart(j)
      BY <2>0, <3>1 DEF JobStart, SetLock, SetNxEx, IsAbsent, JobGoto, NoValue, CONSUMER
    <3>2. CASE JobScan(j) \/ JobExpire(j)
      BY <2>0, <3>2 DEF JobScan, JobExpire, JobGoto, Restore, servers
    <3>3. CASE JobEnd(j)
      BY <2>0, <3>3 DEF JobEnd, DropLock, JobGoto
    <3>4. CASE JobCallFails(j)
      <4>1. CASE jobPc[j] = "off"
        <5>1. UNCHANGED jobPc /\ SetLock(JobKey, CONSUMER)
          BY <3>4, <4>1 DEF JobCallFails
        <5> QED
          BY <2>0, <5>1 DEF SetLock, SetNxEx, IsAbsent, NoValue, CONSUMER
      <4>2. CASE UNCHANGED redis
        BY <2>0, <3>4, <4>1, <4>2 DEF JobCallFails, JobGoto
      <4>3. CASE DropLock(JobKey, CONSUMER) /\ JobGoto(j, "off") /\ jobPc[j] # "off"
        BY <2>0, <4>3 DEF DropLock, JobGoto
      <4> QED
        BY <3>4, <4>1, <4>2, <4>3 DEF JobCallFails, Restore, servers
    <3>5. CASE JobCrash(j)
      BY <2>0, <3>5 DEF JobCrash, JobGoto, servers
    <3> QED
      BY <2>5, <3>1, <3>2, <3>3, <3>4, <3>5 DEF JobStep
  <2>6. ASSUME NEW k \in Keys, LockExpires(k) PROVE JobInv'
    <3>1. CASE k = JobKey
      BY <2>0, <2>6, <3>1 DEF LockExpires, InUse, job
    <3>2. CASE k # JobKey
      BY <2>0, <2>1, <2>6, <3>2 DEF LockExpires, Expire, job
    <3> QED
      BY <3>1, <3>2
  <2>7. ASSUME NEW o \in Orders, NEW n \in Copies, ReservationOverdue(o, n) PROVE JobInv'
    BY <2>1, <2>7 DEF ReservationOverdue, servers, job
  <2>8. UNCHANGED vars => JobInv'
    BY <2>1 DEF vars, servers, job
  <2> QED
    BY <2>2, <2>3, <2>4, <2>5, <2>6, <2>7, <2>8, NextCases
<1>3. JobInv => JobExclusive
  BY DEF JobInv
<1> QED
  BY <1>1, <1>2, <1>3, TypeCorrect, PTL DEF Spec
-----------------------------------------------------------------------------
(* Locks are taken in the order of product id.                             *)

LockOrder ==
    \A i \in Instances :
        /\ pc[i] \in {"check", "dlq"} => keys[i] = {}
        /\ pc[i] = "lock" => \A k \in keys[i], q \in Wanted(i) : k < q

\* Where a handler that is about to take locks comes from.
LockStep(i) ==
    /\ pc'[i] \in {"check", "dlq"} =>
          keys'[i] = {} \/ (pc'[i] = pc[i] /\ keys'[i] = keys[i])
    /\ pc'[i] = "lock" =>
          /\ msg'[i] = msg[i]
          /\ \/ pc[i] = "check" /\ keys'[i] = keys[i]
             \/ pc[i] = "lock" /\ keys'[i] = keys[i]
             \/ /\ pc[i] = "lock"
                /\ \E k \in Products : Lowest(k, Wanted(i)) /\ keys'[i] = keys[i] \cup {k}

LEMMA LockSteps ==
    ASSUME TypeOK, [Next]_vars, NEW i \in Instances
    PROVE  LockStep(i)
<1> USE DEF Goto, At
<1>0. /\ pc \in [Instances -> Labels] /\ msg \in [Instances -> Messages \cup {NoMessage}]
      /\ keys \in [Instances -> SUBSET Products]
      /\ \A h \in Instances : pc[h] = "idle" => keys[h] = {}
  BY DEF TypeOK, HandlersTypeOK
<1>1. ASSUME NEW h \in Instances, NEW m \in inbox, Receive(h, m) PROVE LockStep(i)
  BY <1>0, <1>1 DEF LockStep, Receive
<1>2. ASSUME NEW h \in Instances, Finish(h) \/ Throw(h) PROVE LockStep(i)
  BY <1>0, <1>2 DEF LockStep, Finish, Throw
<1>3. ASSUME NEW h \in Instances, HandlerStep(h) PROVE LockStep(i)
  <2>1. CASE IsEventProcessed(h)
    BY <1>0, <1>2, <2>1 DEF IsEventProcessed, LockStep
  <2>2. CASE AcquireLock(h)
    BY <1>0, <2>2 DEF AcquireLock, LockStep
  <2>3. CASE \/ GiveUpLock(h) \/ CheckInTransaction(h) \/ CommitReservation(h)
             \/ RollBack(h) \/ EmitOutcome(h) \/ ReleaseLock(h)
    BY <1>0, <2>3 DEF LockStep, GiveUpLock, CheckInTransaction, CommitReservation,
       RollBack, EmitOutcome, ReleaseLock
  <2>4. CASE LocksReleased(h) \/ AnnounceRelease(h) \/ SendToDlq(h)
    BY <1>2, <2>4 DEF LocksReleased, AnnounceRelease, SendToDlq
  <2>5. CASE \/ FindReserved(h) \/ ReleaseReservation(h) \/ DropProductLock(h)
             \/ MarkReleased(h)
    BY <1>0, <2>5 DEF LockStep, FindReserved, ReleaseReservation, DropProductLock,
       MarkReleased
  <2> QED
    BY <1>3, <2>1, <2>2, <2>3, <2>4, <2>5 DEF HandlerStep
<1>4. ASSUME NEW h \in Instances, CallFails(h) PROVE LockStep(i)
  BY <1>0, <1>2, <1>4 DEF LockStep, CallFails
<1>5. ASSUME NEW h \in Instances, Crash(h) PROVE LockStep(i)
  BY <1>2, <1>5 DEF Crash
<1>6. ASSUME UNCHANGED local PROVE LockStep(i)
  BY <1>6 DEF LockStep, local
<1>7. ASSUME NEW j \in Jobs, JobStep(j) \/ JobCallFails(j) \/ JobCrash(j)
      PROVE  LockStep(i)
  BY <1>6, <1>7 DEF JobStep, JobStart, JobScan, JobExpire, JobEnd, JobCallFails,
     JobCrash, notJob
<1>8. ASSUME NEW k \in Keys, LockExpires(k) PROVE LockStep(i)
  BY <1>6, <1>8 DEF LockExpires
<1>9. ASSUME NEW o \in Orders, NEW n \in Copies, ReservationOverdue(o, n)
      PROVE  LockStep(i)
  BY <1>6, <1>9 DEF ReservationOverdue
<1>10. UNCHANGED vars => LockStep(i)
  BY <1>6 DEF vars
<1> QED
  BY <1>1, <1>3, <1>4, <1>5, <1>7, <1>8, <1>9, <1>10, NextCases

LEMMA LockOrderInvariant == Spec => []LockOrder
<1>1. Init => LockOrder
  BY DEF Init, LockOrder
<1>2. TypeOK /\ LockOrder /\ [Next]_vars => LockOrder'
  <2> SUFFICES ASSUME TypeOK, LockOrder, [Next]_vars, NEW i \in Instances
               PROVE  /\ pc'[i] \in {"check", "dlq"} => keys'[i] = {}
                      /\ pc'[i] = "lock" =>
                            \A k \in keys'[i], q \in ProductsOf(msg'[i].order) \ keys'[i] : k < q
    BY DEF LockOrder, Wanted, Order
  <2>1. LockStep(i)
    BY LockSteps
  <2>2. pc'[i] \in {"check", "dlq"} => keys'[i] = {}
    BY <2>1 DEF LockStep, LockOrder
  <2>3. CASE pc'[i] = "lock" /\ pc[i] = "check"
    BY <2>1, <2>2, <2>3 DEF LockStep, LockOrder
  <2>4. CASE pc'[i] = "lock" /\ keys'[i] = keys[i] /\ pc[i] = "lock"
    BY <2>1, <2>4 DEF LockStep, LockOrder, Wanted, Order
  <2>5. ASSUME NEW k \in Products, Lowest(k, Wanted(i)), keys'[i] = keys[i] \cup {k},
               pc[i] = "lock", msg'[i] = msg[i]
        PROVE  \A p \in keys'[i], q \in ProductsOf(msg'[i].order) \ keys'[i] : p < q
    <3>1. \A p \in keys[i], q \in Wanted(i) : p < q
      BY <2>5 DEF LockOrder
    <3>2. ASSUME NEW q \in ProductsOf(msg'[i].order) \ keys'[i]
          PROVE  q \in Wanted(i) /\ k < q
      <4>1. q \in Wanted(i) /\ q # k
        BY <2>5 DEF Wanted, Order
      <4>2. k \in Nat /\ q \in Nat
        BY StockAssumption DEF ProductsOf
      <4> QED
        BY <2>5, <4>1, <4>2 DEF Lowest
    <3> QED
      BY <2>5, <3>1, <3>2
  <2> QED
    BY <2>1, <2>2, <2>3, <2>4, <2>5 DEF LockStep
<1> QED
  BY <1>1, <1>2, TypeCorrect, PTL DEF Spec

\* However many handlers wait for locks, one of them waits for none of the others
\* (acquireLockWithRetry takes the items in the order of their product ids): of
\* the keys waited for, the highest is held by nobody who waits himself.
THEOREM LocksAreDeadlockFree ==
    ASSUME IsFiniteSet(Products)
    PROVE  Spec => []NoLockCycle
<1> DEFINE Above(k) == {p \in Products : k <= p}
<1>1. ASSUME TypeOK, LockOrder, NEW S \in (SUBSET Instances) \ {{}},
             \A i \in S : \E h \in S \ {i}, k \in Products : WaitsFor(i, k) /\ k \in keys[h]
      PROVE  FALSE
  <2> DEFINE T == {Above(k) : k \in {p \in Products : \E i \in S : WaitsFor(i, p)}}
  <2>1. IsWellFoundedOn(StrictSubsetOrdering(Products), SUBSET Products)
    BY FS_StrictSubsetOrderingWellFounded, FS_FiniteSubsetsOfFinite
  <2>2. T \subseteq SUBSET Products /\ T # {}
    <3>1. PICK i \in S, k \in Products : WaitsFor(i, k)
      BY <1>1
    <3> QED
      BY <3>1
  <2> HIDE DEF T
  <2>3. PICK x \in T : \A y \in T : <<y, x>> \notin StrictSubsetOrdering(Products)
    BY <2>1, <2>2, WFMin
  <2>4. PICK k \in Products, i \in S : WaitsFor(i, k) /\ x = Above(k)
    BY <2>3 DEF T
  <2>5. PICK h \in S, p \in Products : WaitsFor(i, p) /\ p \in keys[h]
    BY <1>1
  <2>6. p = k
    BY <2>4, <2>5, StockAssumption DEF WaitsFor, Lowest
  <2>7. PICK q \in Products : WaitsFor(h, q)
    BY <1>1
  <2>8. k < q
    BY <1>1, <2>5, <2>6, <2>7 DEF LockOrder, WaitsFor, Lowest
  <2>9. Above(q) \in T
    BY <2>7 DEF T
  <2>10. Above(q) \subseteq Above(k) /\ k \in Above(k) /\ k \notin Above(q)
    <3>1. k \in Nat /\ q \in Nat /\ Products \subseteq Nat
      BY StockAssumption
    <3>2. \A y \in Products : q <= y => k <= y
      BY <2>8, <3>1
    <3>3. k <= k /\ ~(q <= k)
      BY <2>8, <3>1
    <3> QED
      BY <3>2, <3>3
  <2>11. <<Above(q), Above(k)>> \in StrictSubsetOrdering(Products)
    BY <2>10 DEF StrictSubsetOrdering
  <2> QED
    BY <2>3, <2>4, <2>9, <2>11
<1>2. TypeOK /\ LockOrder => NoLockCycle
  BY <1>1 DEF NoLockCycle
<1> QED
  BY <1>2, LockOrderInvariant, TypeCorrect, PTL
-----------------------------------------------------------------------------
(* No lock is forgotten.                                                   *)

\* A lock has a holder who will find his own value in it.
Owns(i, k) == Handling(i, "OrderCreated") /\ k \in keys[i] /\ redis[k] = Order(i)

HolderInv ==
    /\ redis[JobKey] \in {NoValue, CONSUMER}
    /\ errors = 0 /\ crashes = 0 =>
          /\ redis[JobKey] # NoValue => \E j \in Jobs : jobPc[j] # "off"
          /\ \A k \in Products : redis[k] # NoValue => \E i \in Instances : Owns(i, k)

\* Everyone who holds a lock still does, and nobody stored a new value.
LocksKept ==
    \A k \in Products :
        redis'[k] # NoValue =>
            \/ \E i \in Instances : Owns(i, k)'
            \/ /\ redis'[k] = redis[k]
               /\ \A i \in Instances : Owns(i, k) => Owns(i, k)'

LEMMA LocksKeptByHandlers ==
    ASSUME TypeOK, LockOrder, NEW h \in Instances, HandlerStep(h)
    PROVE  LocksKept
<1> USE DEF At, Owns, Handling, Order
<1>0. /\ msg \in [Instances -> Messages \cup {NoMessage}]
      /\ keys \in [Instances -> SUBSET Products] /\ Products \subseteq Keys
      /\ redis \in [Keys -> Orders \cup {NoValue, CONSUMER}]
      /\ pc[h] \in PaymentFailedLabels => msg[h].type = "PaymentFailed"
      /\ pc[h] \in {"check", "dlq"} => keys[h] = {}
  BY AtLabel DEF TypeOK, HandlersTypeOK, ServersTypeOK, LockOrder, Keys
<1>1. ASSUME UNCHANGED <<redis, msg, keys>> PROVE LocksKept
  BY <1>1 DEF LocksKept
<1>2. ASSUME UNCHANGED redis, Finish(h) \/ Throw(h),
             keys[h] = {} \/ msg[h].type = "PaymentFailed"
      PROVE  LocksKept
  <2>1. \A i \in Instances \ {h} : msg'[i] = msg[i] /\ keys'[i] = keys[i]
    BY <1>0, <1>2 DEF Finish, Throw
  <2> QED
    BY <1>2, <2>1 DEF LocksKept
<1>3. CASE AcquireLock(h)
  <2>1. PICK q \in Products : SetLock(q, Order(h)) /\ keys' = [keys EXCEPT ![h] = @ \cup {q}]
    BY <1>3 DEF AcquireLock
  <2>2. msg' = msg /\ msg[h].type = "OrderCreated"
    BY <1>3, AtLabel DEF AcquireLock, OrderCreatedLabels
  <2>3. Owns(h, q)'
    BY <1>0, <2>1, <2>2 DEF SetLock, SetNxEx
  <2>4. ASSUME NEW k \in Products, k # q
        PROVE  redis'[k] = redis[k] /\ \A i \in Instances : Owns(i, k) => Owns(i, k)'
    BY <1>0, <2>1, <2>2, <2>4 DEF SetLock, SetNxEx
  <2> QED
    BY <2>3, <2>4 DEF LocksKept
<1>4. CASE ReleaseLock(h)
  <2>1. PICK q \in Products : DropLock(q, Order(h)) /\ keys' = [keys EXCEPT ![h] = @ \ {q}]
    BY <1>4 DEF ReleaseLock
  <2>2. msg' = msg
    BY <1>4 DEF ReleaseLock
  <2>3. ASSUME NEW k \in Products, redis'[k] # NoValue
        PROVE  redis'[k] = redis[k] /\ (k = q => redis[k] # Order(h))
    BY <1>0, <2>1, <2>3 DEF DropLock, DeleteIfValue
  <2> QED
    BY <1>0, <2>1, <2>2, <2>3 DEF LocksKept
<1>5. CASE DropProductLock(h) \/ ReleaseReservation(h)
  <2>1. msg' = msg /\ msg[h].type = "PaymentFailed"
    BY <1>0, <1>5 DEF DropProductLock, ReleaseReservation, PaymentFailedLabels
  <2>2. \A i \in Instances \ {h} : keys'[i] = keys[i]
    BY <1>0, <1>5 DEF DropProductLock, ReleaseReservation
  <2>3. ASSUME NEW k \in Products, redis'[k] # NoValue PROVE redis'[k] = redis[k]
    BY <1>0, <1>5, <2>3
       DEF DropProductLock, ReleaseReservation, DropLock, DeleteIfValue, Restore, servers
  <2> QED
    BY <2>1, <2>2, <2>3 DEF LocksKept
<1>6. CASE IsEventProcessed(h) \/ LocksReleased(h)
  BY <1>0, <1>1, <1>2, <1>6 DEF IsEventProcessed, LocksReleased, servers
<1>7. CASE AnnounceRelease(h) \/ SendToDlq(h)
  BY <1>0, <1>2, <1>7 DEF AnnounceRelease, SendToDlq, Emit, EmitToDlq, PaymentFailedLabels
<1> QED
  BY <1>1, <1>3, <1>4, <1>5, <1>6, <1>7
     DEF HandlerStep, GiveUpLock, CheckInTransaction, CommitReservation, RollBack,
         EmitOutcome, FindReserved, MarkReleased, Emit, Reserve, MarkProcessed, servers

\* While no call fails and nobody crashes, whoever took a lock deletes it, on
\* every path through handleOrderCreated and through the interval job.
THEOREM LocksAreReleased == Spec => []LocksHaveHolders
<1>1. Init => HolderInv
  BY StockAssumption DEF Init, HolderInv, Keys
<1>2. TypeOK /\ LockOrder /\ HolderInv /\ [Next]_vars => HolderInv'
  <2> SUFFICES ASSUME TypeOK, LockOrder, HolderInv, [Next]_vars PROVE HolderInv'
    OBVIOUS
  <2> USE DEF HolderInv
  <2>0. /\ redis \in [Keys -> Orders \cup {NoValue, CONSUMER}]
        /\ JobKey \in Keys /\ Products \subseteq Keys /\ JobKey \notin Products
        /\ jobPc \in [Jobs -> {"off", "scan", "sweep"}]
        /\ errors \in Nat /\ crashes \in Nat
        /\ msg \in [Instances -> Messages \cup {NoMessage}]
        /\ \A i \in Instances : pc[i] = "idle" => keys[i] = {}
    BY InventoryAssumption, StockAssumption
       DEF TypeOK, ServersTypeOK, HandlersTypeOK, JobsTypeOK, Keys, JobKey
  <2>1. ASSUME UNCHANGED <<faults, jobPc>>, redis'[JobKey] = redis[JobKey], LocksKept
        PROVE  HolderInv'
    BY <2>1 DEF LocksKept, faults
  <2>2. ASSUME UNCHANGED <<msg, keys>>, \A k \in Products : redis'[k] \in {NoValue, redis[k]}
        PROVE  LocksKept
    BY <2>2 DEF LocksKept, Owns, Handling, Order
  <2>3. ASSUME redis'[JobKey] \in {NoValue, CONSUMER}, errors' # 0 \/ crashes' # 0
        PROVE  HolderInv'
    BY <2>3
  <2>4. ASSUME NEW i \in Instances, NEW m \in inbox, Receive(i, m) PROVE HolderInv'
    <3>1. LocksKept
      BY <2>0, <2>4 DEF Receive, At, servers, LocksKept, Owns, Handling, Order
    <3> QED
      BY <2>1, <2>4, <3>1 DEF Receive, servers, job
  <2>5. ASSUME NEW i \in Instances, HandlerStep(i) PROVE HolderInv'
    <3>1. UNCHANGED faults
      BY <2>5 DEF HandlerStep, IsEventProcessed, AcquireLock, GiveUpLock,
         CheckInTransaction, CommitReservation, RollBack, EmitOutcome, ReleaseLock,
         LocksReleased, FindReserved, ReleaseReservation, DropProductLock, MarkReleased,
         AnnounceRelease, SendToDlq, rest
    <3> QED
      BY <2>1, <2>5, <3>1, JobKeyIsNoProduct, LocksKeptByHandlers
  <2>6. ASSUME NEW i \in Instances, CallFails(i) PROVE HolderInv'
    <3>1. errors' # 0
      BY <2>0, <2>6 DEF CallFails
    <3> QED
      BY <2>3, <2>6, <3>1, JobKeyIsNoProduct
  <2>7. ASSUME NEW i \in Instances, Crash(i) PROVE HolderInv'
    <3>1. crashes' # 0
      BY <2>0, <2>7 DEF Crash
    <3> QED
      BY <2>3, <2>7, <3>1 DEF Crash, servers
  <2>8. ASSUME NEW j \in Jobs, JobStep(j) PROVE HolderInv'
    <3>1. UNCHANGED <<msg, keys, faults>>
      BY <2>8 DEF JobStep, JobStart, JobScan, JobExpire, JobEnd, notJob, local, faults
    <3>2. CASE JobStart(j)
      <4>1. redis'[JobKey] = CONSUMER /\ jobPc'[j] # "off"
        BY <2>0, <3>2 DEF JobStart, SetLock, SetNxEx, JobGoto
      <4>2. \A k \in Products : redis'[k] = redis[k]
        BY <2>0, <3>2 DEF JobStart, SetLock, SetNxEx
      <4> QED
        BY <2>2, <3>1, <4>1, <4>2 DEF LocksKept, faults
    <3>3. CASE JobScan(j) \/ JobExpire(j)
      <4>1. UNCHANGED redis
        BY <3>3 DEF JobScan, JobExpire, Restore, servers
      <4>2. \A g \in Jobs : jobPc[g] # "off" => jobPc'[g] # "off"
        BY <2>0, <3>3 DEF JobScan, JobExpire, JobGoto
      <4> QED
        BY <2>2, <3>1, <4>1, <4>2 DEF LocksKept, faults
    <3>4. CASE JobEnd(j)
      <4>1. redis'[JobKey] = NoValue /\ \A k \in Products : redis'[k] = redis[k]
        BY <2>0, <3>4 DEF JobEnd, DropLock, DeleteIfValue
      <4> QED
        BY <2>2, <3>1, <4>1 DEF LocksKept, faults
    <3> QED
      BY <2>8, <3>2, <3>3, <3>4 DEF JobStep
  <2>9. ASSUME NEW j \in Jobs, JobCallFails(j) \/ JobCrash(j) PROVE HolderInv'
    <3>1. errors' # 0 \/ crashes' # 0
      BY <2>0, <2>9 DEF JobCallFails, JobCrash
    <3>2. redis'[JobKey] \in {NoValue, CONSUMER}
      BY <2>0, <2>9 DEF JobCallFails, JobCrash, SetLock, SetNxEx, DropLock, DeleteIfValue,
         Restore, servers
    <3> QED
      BY <2>3, <3>1, <3>2
  <2>10. ASSUME NEW k \in Keys, LockExpires(k) PROVE HolderInv'
    <3>1. \A q \in Keys : redis'[q] \in {NoValue, redis[q]}
      BY <2>0, <2>10 DEF LockExpires, Expire
    <3>2. UNCHANGED <<msg, keys, jobPc, faults>>
      BY <2>10 DEF LockExpires, local, job
    <3> QED
      BY <2>0, <2>2, <3>1, <3>2 DEF LocksKept, faults
  <2>11. ASSUME NEW o \in Orders, NEW n \in Copies, ReservationOverdue(o, n) PROVE HolderInv'
    BY <2>1, <2>2, <2>11 DEF ReservationOverdue, servers, local, job
  <2>12. UNCHANGED vars => HolderInv'
    BY <2>1, <2>2 DEF vars, servers, local, job
  <2> QED
    BY <2>4, <2>5, <2>6, <2>7, <2>8, <2>9, <2>10, <2>11, <2>12, NextCases
<1>3. TypeOK /\ HolderInv => LocksHaveHolders
  <2> SUFFICES ASSUME TypeOK, HolderInv, errors = 0, crashes = 0,
                      NEW k \in Keys, redis[k] # NoValue
               PROVE  InUse(k)
    BY DEF LocksHaveHolders, IsAbsent
  <2> QED
    BY DEF HolderInv, InUse, Owns, Handling, Keys
<1> QED
  BY <1>1, <1>2, <1>3, LockOrderInvariant, TypeCorrect, PTL DEF Spec
=============================================================================
