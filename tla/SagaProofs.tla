----------------------------- MODULE SagaProofs -----------------------------
(***************************************************************************)
(* The saga: paid stock is held, and the services together implement an    *)
(* order's life.                                                           *)
(*                                                                         *)
(* Each side runs as its own specification says (SagaRunsInventory,        *)
(* SagaRunsFulfilment), so all that was proved of either holds here.  What *)
(* has to be added is what they know of each other: a StockReserved in the *)
(* log was emitted by the inventory (LogInv), a row is EXPIRED only once   *)
(* its time is over (ExpiredInv), and RELEASED only after a PaymentFailed  *)
(* of its order (DeclinedInv).                                             *)
(***************************************************************************)
EXTENDS OrderSaga, InventoryLockProofs

\* The proofs about Fulfilment, with the saga's variables.
FP == INSTANCE FulfilmentProofs WITH
    MaxErrors <- MaxWorkerErrors,
    processed <- handled,
    dlq <- deadLetters,
    pc <- workerPc,
    msg <- workerMsg,
    attempt <- workerAttempt,
    errors <- workerErrors

-----------------------------------------------------------------------------
(* Ful and FP are two instances of one module.                             *)

LEMMA SameAnswers ==
    /\ Ful!Answer = FP!Answer /\ Ful!UpstreamTypes = FP!UpstreamTypes
    /\ Ful!NewStatus = FP!NewStatus
    /\ Ful!Services = FP!Services
    /\ Ful!Types = FP!Types /\ Ful!Cause = FP!Cause
    /\ \A s : Ful!Consumes(s) = FP!Consumes(s)
    /\ \A S : Ful!Cardinality(S) = FP!Cardinality(S)
BY DEF Ful!Answer, FP!Answer, Ful!UpstreamTypes, FP!UpstreamTypes, Ful!Services,
    FP!Services, Ful!Types, FP!Types, Ful!Cause, FP!Cause, Ful!Consumes, FP!Consumes,
    Ful!Cardinality, FP!Cardinality, Ful!IsFiniteSet, FP!IsFiniteSet,
    Ful!NewStatus, FP!NewStatus

LEMMA SameLog ==
    /\ \A type, o : Ful!Emitted(type, o) = FP!Emitted(type, o)
    /\ \A type : Ful!Of(type) = FP!Of(type)
    /\ Ful!Told = FP!Told
    /\ Ful!Init <=> FP!Init
BY SameAnswers DEF Ful!Emitted, FP!Emitted, Ful!Of, FP!Of, Ful!Told, FP!Told,
   Ful!Telling, FP!Telling, Ful!Init, FP!Init

LEMMA SamePublish ==
    ASSUME NEW type, NEW o
    PROVE  Ful!Publish(type, o) <=> FP!Publish(type, o)
BY SameAnswers DEF Ful!Publish, FP!Publish, Ful!Caused, FP!Caused, Ful!Appends, FP!Appends,
   Ful!Fresh, FP!Fresh, Ful!worker, FP!worker, Ful!Emitted, FP!Emitted

LEMMA SameStep == Ful!ServiceStep <=> FP!ServiceStep
BY DEF Ful!Answer, FP!Answer, Ful!Services, FP!Services, Ful!Consumes, FP!Consumes,
   Ful!NewStatus, FP!NewStatus,
   Ful!servers, Ful!worker, Ful!At, Ful!Event, Ful!Order, Ful!Goto, Ful!Finish, Ful!Throw,
   Ful!MarkProcessed, Ful!UpsertShipment, Ful!SetStatus, Ful!Appends, Ful!Fresh,
   Ful!EmitAnswer, Ful!EmitToDlq, Ful!Receive, Ful!IsEventProcessed,
   Ful!MarkEventProcessed, Ful!CreateShipment, Ful!MarkOrder, Ful!Emit,
   Ful!SendToDlq, Ful!Landed, Ful!Redeliver, Ful!CallFails, Ful!Crash, Ful!Rejoin,
   Ful!HandlerStep, Ful!ServiceStep,
   FP!servers, FP!worker, FP!At, FP!Event, FP!Order, FP!Goto, FP!Finish, FP!Throw,
   FP!MarkProcessed, FP!UpsertShipment, FP!SetStatus, FP!Appends, FP!Fresh,
   FP!EmitAnswer, FP!EmitToDlq, FP!Receive, FP!IsEventProcessed,
   FP!MarkEventProcessed, FP!CreateShipment, FP!MarkOrder, FP!Emit,
   FP!SendToDlq, FP!Landed, FP!Redeliver, FP!CallFails, FP!Crash, FP!Rejoin,
   FP!HandlerStep, FP!ServiceStep

LEMMA SamePublishAgain ==
    ASSUME NEW o
    PROVE  Ful!PublishAgain(o) <=> FP!PublishAgain(o)
BY SameAnswers DEF Ful!PublishAgain, FP!PublishAgain, Ful!Appends, FP!Appends,
   Ful!worker, FP!worker, Ful!Emitted, FP!Emitted

LEMMA FulfilmentConstants == FP!FulfilmentAssumption
BY SagaAssumption, InventoryAssumption, SameAnswers DEF FP!FulfilmentAssumption
-----------------------------------------------------------------------------
(* Each side of the saga runs as its own specification says.               *)

\* The three kinds of step.
Aside == [Next]_vars /\ UNCHANGED fulVars

Announcing ==
    \E i \in Instances :
        /\ pc[i] = "announce"
        /\ Emit("StockReserved", msg[i])
        /\ UNCHANGED <<overdue, jobClaim, inbox>>
        /\ FP!Publish("StockReserved", Order(i))

Elsewhere ==
    /\ UNCHANGED vars
    /\ \/ \E type \in {"OrderCreated", "PaymentFailed"}, o \in Orders : FP!Publish(type, o)
       \/ \E o \in Orders : FP!PublishAgain(o)
       \/ FP!ServiceStep

LEMMA SagaCases ==
    ASSUME [SagaNext]_sagaVars
    PROVE  /\ [Next]_vars
           /\ Aside \/ Announcing \/ Elsewhere
<1>1. ASSUME NEW i \in Instances, Deliver(i) PROVE Aside
  BY <1>1 DEF Deliver, Aside, Next
<1>2. ASSUME NEW i \in Instances, AnnounceReserved(i) PROVE [Next]_vars /\ Announcing
  <2>1. HandlerStep(i)
    BY <1>2 DEF AnnounceReserved, HandlerStep
  <2>2. Emit("StockReserved", msg[i]) /\ UNCHANGED <<overdue, jobClaim, inbox>>
    BY <1>2 DEF AnnounceReserved, EmitOutcome, Outcome, At, rest, job
  <2> QED
    BY <1>2, <2>1, <2>2, SamePublish DEF AnnounceReserved, Announcing, Next, At
<1>3. ASSUME NEW i \in Instances, AnnounceFails(i)
      PROVE  [Next]_vars /\ (Aside \/ Announcing)
  <2>1. [Next]_vars /\ UNCHANGED <<overdue, jobClaim, inbox>>
    BY <1>3 DEF AnnounceFails, Next, CallFails, job
  <2> QED
    BY <1>3, <2>1, SamePublish DEF AnnounceFails, Announcing, Aside, At
<1>4. ASSUME InventoryAlone PROVE Aside
  BY <1>4 DEF InventoryAlone, Next, Aside
<1>5. ASSUME FulfilmentAlone PROVE Elsewhere
  BY <1>5, SamePublish, SamePublishAgain, SameStep DEF FulfilmentAlone, Elsewhere
<1>6. ASSUME UNCHANGED sagaVars PROVE Aside
  BY <1>6 DEF sagaVars, Aside
<1> QED
  BY <1>1, <1>2, <1>3, <1>4, <1>5, <1>6 DEF SagaNext, Aside, Elsewhere

\* The inventory in the saga is the inventory alone.
THEOREM SagaRunsInventory == SagaSpec => Spec
<1>1. SagaInit => Init
  BY DEF SagaInit
<1>2. [SagaNext]_sagaVars => [Next]_vars
  BY SagaCases
<1> QED
  BY <1>1, <1>2, PTL DEF SagaSpec, Spec

LEMMA FulfilmentStep ==
    ASSUME TypeOK, [SagaNext]_sagaVars
    PROVE  [FP!Next]_FP!vars
<1>1. CASE Aside
  BY <1>1 DEF Aside, fulVars, FP!vars, FP!servers, FP!worker
<1>2. CASE Announcing
  <2>1. PICK i \in Instances : pc[i] = "announce" /\ FP!Publish("StockReserved", Order(i))
    BY <1>2 DEF Announcing
  <2>2. Order(i) \in Orders
    BY <2>1, AtLabel
  <2> QED
    BY <2>1, <2>2 DEF FP!Next, FP!UpstreamTypes
<1>3. CASE Elsewhere
  BY <1>3 DEF Elsewhere, FP!Next, FP!UpstreamTypes
<1> QED
  BY <1>1, <1>2, <1>3, SagaCases

\* So are the other services, whose StockReserved comes from the inventory.
THEOREM SagaRunsFulfilment == SagaSpec => FP!Spec
<1>1. SagaInit => FP!Init
  BY SameLog DEF SagaInit
<1>2. TypeOK /\ [SagaNext]_sagaVars => [FP!Next]_FP!vars
  BY FulfilmentStep
<1> QED
  BY <1>1, <1>2, SagaRunsInventory, TypeCorrect, PTL DEF SagaSpec, FP!Spec
-----------------------------------------------------------------------------
(* How a reservation ends.                                                 *)

RowStep(r) ==
    \/ reservation'[r] \in {reservation[r], "RESERVED"}
    \/ /\ reservation'[r] = "RELEASED"
       /\ \E i \in Instances : pc[i] = "release" /\ r \in claim[i]
    \/ reservation'[r] = "EXPIRED" /\ \E j \in Jobs : r \in jobClaim[j]

LEMMA EndSteps ==
    ASSUME TypeOK, [Next]_vars, NEW r \in Rows
    PROVE  RowStep(r)
<1>0. /\ reservation \in [Rows -> Status]
      /\ \A i \in Instances : claim[i] \subseteq Rows
      /\ \A j \in Jobs : jobClaim[j] \subseteq Rows
  BY DEF TypeOK, ServersTypeOK, HandlersTypeOK, JobsTypeOK
<1>1. ASSUME UNCHANGED reservation PROVE RowStep(r)
  BY <1>1 DEF RowStep
<1>2. ASSUME NEW q \in Rows, NEW s, Restore(q, s), s \in {"RELEASED", "EXPIRED"}
      PROVE  /\ reservation'[r] \in {reservation[r], s}
             /\ reservation'[r] = s /\ reservation[r] # s => r = q
  BY <1>0, <1>2 DEF Restore
<1>3. ASSUME NEW i \in Instances, NEW m \in inbox, Receive(i, m) PROVE RowStep(r)
  BY <1>1, <1>3 DEF Receive, servers, db
<1>4. ASSUME NEW i \in Instances, HandlerStep(i) PROVE RowStep(r)
  <2>1. CASE CommitReservation(i)
    BY <1>0, <2>1 DEF RowStep, CommitReservation, Reserve
  <2>2. CASE ReleaseReservation(i)
    BY <1>0, <1>1, <1>2, <2>2 DEF RowStep, ReleaseReservation, servers, db, At
  <2> QED
    BY <1>1, <1>4, <2>1, <2>2
       DEF HandlerStep, IsEventProcessed, AcquireLock, GiveUpLock, CheckInTransaction,
           RollBack, EmitOutcome, ReleaseLock, LocksReleased, FindReserved,
           DropProductLock, MarkReleased, AnnounceRelease, SendToDlq, SetLock, DropLock,
           Emit, EmitToDlq, MarkProcessed, servers, db
<1>5. ASSUME NEW i \in Instances, CallFails(i) PROVE RowStep(r)
  <2>1. \/ UNCHANGED reservation
        \/ Reserve(msg[i])
        \/ At(i, "release") /\ \E q \in claim[i] : Restore(q, "RELEASED")
    BY <1>5 DEF CallFails, Landed, SetLock, DropLock, Emit, EmitToDlq, MarkProcessed,
       servers, db
  <2> QED
    BY <1>0, <1>1, <1>2, <2>1 DEF RowStep, Reserve, At
<1>6. ASSUME NEW i \in Instances, Crash(i) PROVE RowStep(r)
  BY <1>1, <1>6 DEF Crash, servers, db
<1>7. ASSUME NEW j \in Jobs, JobStep(j) \/ JobCallFails(j) \/ JobCrash(j) PROVE RowStep(r)
  <2>1. \/ UNCHANGED reservation
        \/ \E q \in jobClaim[j] : Restore(q, "EXPIRED")
    BY <1>7 DEF JobStep, JobStart, JobScan, JobExpire, JobEnd, JobCallFails, JobCrash,
       SetLock, DropLock, servers, db
  <2> QED
    BY <1>0, <1>1, <1>2, <2>1 DEF RowStep
<1>8. ASSUME NEW k \in Keys, LockExpires(k) PROVE RowStep(r)
  BY <1>1, <1>8 DEF LockExpires, db
<1>9. ASSUME NEW o \in Orders, NEW n \in Copies, ReservationOverdue(o, n) PROVE RowStep(r)
  BY <1>1, <1>9 DEF ReservationOverdue, servers, db
<1>10. UNCHANGED vars => RowStep(r)
  BY <1>1 DEF vars, servers, db
<1> QED
  BY <1>3, <1>4, <1>5, <1>6, <1>7, <1>8, <1>9, <1>10, NextCases

\* The job claims what is overdue, and what is overdue stays so.
ClaimsOverdue ==
    /\ overdue \subseteq overdue'
    /\ \A j \in Jobs : \A r \in jobClaim'[j] : r \in jobClaim[j] \/ Overdue(r)

LEMMA OverdueSteps == ASSUME TypeOK, [Next]_vars PROVE ClaimsOverdue
<1>0. jobClaim \in [Jobs -> SUBSET Rows]
  BY DEF TypeOK, JobsTypeOK
<1>1. ASSUME NEW i \in Instances, NEW m \in inbox, Receive(i, m) PROVE ClaimsOverdue
  BY <1>1 DEF ClaimsOverdue, Receive, job
<1>2. ASSUME NEW i \in Instances, HandlerStep(i) PROVE ClaimsOverdue
  BY <1>2 DEF ClaimsOverdue, HandlerStep, IsEventProcessed, AcquireLock, GiveUpLock,
     CheckInTransaction, CommitReservation, RollBack, EmitOutcome, ReleaseLock,
     LocksReleased, FindReserved, ReleaseReservation, DropProductLock, MarkReleased,
     AnnounceRelease, SendToDlq, rest, job
<1>3. ASSUME NEW i \in Instances, CallFails(i) \/ Crash(i) PROVE ClaimsOverdue
  BY <1>3 DEF ClaimsOverdue, CallFails, Crash, job
<1>4. ASSUME NEW j \in Jobs, JobStep(j) \/ JobCallFails(j) \/ JobCrash(j)
      PROVE  ClaimsOverdue
  <2>1. overdue' = overdue
    BY <1>4 DEF JobStep, JobStart, JobScan, JobExpire, JobEnd, JobCallFails, JobCrash, notJob
  <2>2. CASE JobScan(j)
    BY <1>0, <2>1, <2>2 DEF ClaimsOverdue, JobScan, JobSet
  <2>3. CASE ~JobScan(j)
    BY <1>0, <1>4, <2>1, <2>3 DEF ClaimsOverdue, JobStep, JobStart, JobExpire, JobEnd,
       JobCallFails, JobCrash, JobSet
  <2> QED
    BY <2>2, <2>3
<1>5. ASSUME NEW k \in Keys, LockExpires(k) PROVE ClaimsOverdue
  BY <1>5 DEF ClaimsOverdue, LockExpires, job
<1>6. ASSUME NEW o \in Orders, NEW n \in Copies, ReservationOverdue(o, n)
      PROVE  ClaimsOverdue
  BY <1>6 DEF ClaimsOverdue, ReservationOverdue, job
<1>7. UNCHANGED vars => ClaimsOverdue
  BY DEF ClaimsOverdue, vars, job
<1> QED
  BY <1>1, <1>2, <1>3, <1>4, <1>5, <1>6, <1>7, NextCases
-----------------------------------------------------------------------------
(* What the two sides know of each other.                                  *)

LogInv == \A o \in Orders : FP!Emitted("StockReserved", o) # {} => Announced(o)

ExpiredInv ==
    /\ \A r \in Rows : reservation[r] = "EXPIRED" => Overdue(r)
    /\ \A j \in Jobs : \A r \in jobClaim[j] : Overdue(r)

DeclinedInv ==
    /\ \A r \in Rows : reservation[r] = "RELEASED" => Declined(r[1])
    /\ \A i \in Instances : pc[i] \in Releasing => \A r \in claim[i] : r[1] = Order(i)
    /\ \A i \in Instances : Handling(i, "PaymentFailed") => Declined(Order(i))

SagaInv == LogInv /\ ExpiredInv /\ DeclinedInv

LEMMA AnnouncedStays == ASSUME [Next]_vars PROVE events \subseteq events'
<1>1. ASSUME NEW i \in Instances, NEW m \in inbox, Receive(i, m) PROVE events \subseteq events'
  BY <1>1 DEF Receive, servers
<1>2. ASSUME NEW i \in Instances, HandlerStep(i) PROVE events \subseteq events'
  BY <1>2 DEF HandlerStep, IsEventProcessed, AcquireLock, GiveUpLock, CheckInTransaction,
     CommitReservation, RollBack, EmitOutcome, ReleaseLock, LocksReleased, FindReserved,
     ReleaseReservation, DropProductLock, MarkReleased, AnnounceRelease, SendToDlq,
     SetLock, DropLock, Emit, EmitToDlq, Reserve, Restore, MarkProcessed, servers
<1>3. ASSUME NEW i \in Instances, CallFails(i) PROVE events \subseteq events'
  BY <1>3 DEF CallFails, Landed, SetLock, DropLock, Emit, EmitToDlq, Reserve, Restore,
     MarkProcessed, servers
<1>4. ASSUME NEW i \in Instances, Crash(i) PROVE events \subseteq events'
  BY <1>4 DEF Crash, servers
<1>5. ASSUME NEW j \in Jobs, JobStep(j) \/ JobCallFails(j) \/ JobCrash(j)
      PROVE  events \subseteq events'
  BY <1>5 DEF JobStep, JobStart, JobScan, JobExpire, JobEnd, JobCallFails, JobCrash,
     SetLock, DropLock, Restore, servers
<1>6. ASSUME NEW k \in Keys, LockExpires(k) PROVE events \subseteq events'
  BY <1>6 DEF LockExpires
<1>7. ASSUME NEW o \in Orders, NEW n \in Copies, ReservationOverdue(o, n)
      PROVE  events \subseteq events'
  BY <1>7 DEF ReservationOverdue, servers
<1>8. UNCHANGED vars => events \subseteq events'
  BY DEF vars, servers
<1> QED
  BY <1>1, <1>2, <1>3, <1>4, <1>5, <1>6, <1>7, <1>8, NextCases

\* What publishing does not add to the log.
LEMMA PublishEmits ==
    ASSUME FP!TypeInv, NEW type, NEW o, NEW q, FP!Publish(type, o),
           type = "StockReserved" => o # q
    PROVE  FP!Emitted("StockReserved", q)' = FP!Emitted("StockReserved", q)
BY FulfilmentConstants, FP!AppendEmits DEF FP!Publish, FP!Fresh

LEMMA PublishAgainEmits ==
    ASSUME FP!TypeInv, NEW o, NEW q, FP!PublishAgain(o)
    PROVE  FP!Emitted("StockReserved", q)' = FP!Emitted("StockReserved", q)
BY FulfilmentConstants, FP!AppendEmits DEF FP!PublishAgain, FP!Emitted

LEMMA LogStep ==
    ASSUME TypeOK, FP!TypeInv, LogInv, [SagaNext]_sagaVars
    PROVE  LogInv'
<1> SUFFICES ASSUME NEW o \in Orders, FP!Emitted("StockReserved", o)' # {}
             PROVE  Announced(o)'
  BY DEF LogInv
<1>1. events \subseteq events'
  BY SagaCases, AnnouncedStays
<1>2. ASSUME FP!Emitted("StockReserved", o)' = FP!Emitted("StockReserved", o)
      PROVE  Announced(o)'
  BY <1>1, <1>2 DEF LogInv, Announced
<1>3. CASE Aside
  BY <1>2, <1>3 DEF Aside, fulVars, FP!Emitted
<1>4. CASE Announcing
  <2>1. PICK i \in Instances : /\ pc[i] = "announce" /\ Emit("StockReserved", msg[i])
                               /\ FP!Publish("StockReserved", Order(i))
    BY <1>4 DEF Announcing
  <2>2. Order(i) \in Orders
    BY <2>1, AtLabel
  <2>3. CASE o = Order(i)
    <3>1. [type |-> "StockReserved", order |-> msg[i].order, copy |-> msg[i].copy] \in events'
      BY <2>1 DEF Emit
    <3> QED
      BY <2>3, <3>1 DEF Announced, Order
  <2>4. CASE o # Order(i)
    BY <1>2, <2>1, <2>2, <2>4, PublishEmits
  <2> QED
    BY <2>3, <2>4
<1>5. CASE Elsewhere
  <2>1. FP!Emitted("StockReserved", o)' = FP!Emitted("StockReserved", o)
    BY <1>5, PublishEmits, PublishAgainEmits, FulfilmentConstants, FP!ServiceEmits DEF Elsewhere
  <2> QED
    BY <1>2, <2>1
<1> QED
  BY <1>3, <1>4, <1>5, SagaCases

LEMMA ExpiredStep ==
    ASSUME TypeOK, ExpiredInv, [Next]_vars
    PROVE  ExpiredInv'
<1>1. ClaimsOverdue
  BY OverdueSteps
<1>2. ASSUME NEW r \in Rows, reservation'[r] = "EXPIRED" PROVE Overdue(r)'
  BY <1>1, <1>2, EndSteps DEF RowStep, ClaimsOverdue, ExpiredInv, Overdue
<1>3. ASSUME NEW j \in Jobs, NEW r \in jobClaim'[j] PROVE Overdue(r)'
  BY <1>1 DEF ClaimsOverdue, ExpiredInv, Overdue
<1> QED
  BY <1>2, <1>3 DEF ExpiredInv

\* PaymentFailed is delivered once it was published.
LEMMA DeclinedDelivery ==
    ASSUME TypeOK, [SagaNext]_sagaVars, NEW i \in Instances,
           msg'[i] # msg[i], msg'[i].type = "PaymentFailed"
    PROVE  Declined(msg'[i].order)
<1>1. [Next]_vars
  BY SagaCases
<1>2. PICK m \in inbox : Receive(i, m) /\ msg'[i] = m
  BY <1>1, DeliverySteps
<1>3. m \notin inbox'
  BY <1>2 DEF Receive
<1>4. ASSUME NEW h \in Instances, Deliver(h) PROVE Declined(msg'[i].order)
  <2>1. PICK q \in inbox : IsPublished(q) /\ Receive(h, q)
    BY <1>4 DEF Deliver
  <2>2. h = i /\ q = m
    BY <1>2, <1>3, <2>1 DEF Receive, TypeOK, HandlersTypeOK
  <2> QED
    BY <1>2, <2>1, <2>2 DEF IsPublished, Declined
<1>5. ASSUME UNCHANGED inbox PROVE FALSE
  BY <1>3, <1>5
<1>6. ASSUME NEW h \in Instances, HandlerStep(h) \/ CallFails(h) \/ Crash(h) PROVE FALSE
  BY <1>5, <1>6 DEF HandlerStep, IsEventProcessed, AcquireLock, GiveUpLock,
     CheckInTransaction, CommitReservation, RollBack, EmitOutcome, ReleaseLock,
     LocksReleased, FindReserved, ReleaseReservation, DropProductLock, MarkReleased,
     AnnounceRelease, SendToDlq, rest, CallFails, Crash
<1>7. ASSUME InventoryAlone PROVE FALSE
  BY <1>5, <1>6, <1>7 DEF InventoryAlone, JobStep, JobStart, JobScan, JobExpire, JobEnd,
     JobCallFails, JobCrash, notJob, LockExpires, ReservationOverdue
<1>8. ASSUME NEW h \in Instances, AnnounceReserved(h) \/ AnnounceFails(h) PROVE FALSE
  BY <1>5, <1>8 DEF AnnounceReserved, AnnounceFails, EmitOutcome, rest, CallFails
<1>9. ASSUME FulfilmentAlone \/ UNCHANGED sagaVars PROVE FALSE
  BY <1>5, <1>9 DEF FulfilmentAlone, sagaVars, vars
<1> QED
  BY <1>4, <1>7, <1>8, <1>9 DEF SagaNext

LEMMA DeclinedStays ==
    ASSUME FP!LogGrows, NEW o, Declined(o)
    PROVE  Declined(o)'
BY DEF FP!LogGrows, Declined, Ful!Emitted

LEMMA DeclinedStep ==
    ASSUME TypeOK, DeclinedInv, FP!LogGrows, [SagaNext]_sagaVars
    PROVE  DeclinedInv'
<1>1. [Next]_vars
  BY SagaCases
<1>2. ASSUME NEW r \in Rows, reservation'[r] = "RELEASED" PROVE Declined(r[1])'
  <2>1. Declined(r[1])
    <3>1. CASE reservation[r] = "RELEASED"
      BY <3>1 DEF DeclinedInv
    <3>2. CASE reservation[r] # "RELEASED"
      <4>1. PICK i \in Instances : pc[i] = "release" /\ r \in claim[i]
        BY <1>1, <1>2, <3>2, EndSteps DEF RowStep
      <4> QED
        BY <4>1, AtLabel DEF DeclinedInv, Releasing, PaymentFailedLabels
    <3> QED
      BY <3>1, <3>2
  <2> QED
    BY <2>1, DeclinedStays
<1>3. ASSUME NEW i \in Instances, pc'[i] \in Releasing, NEW r \in claim'[i]
      PROVE  r[1] = msg'[i].order
  BY <1>1, <1>3, ClaimSteps DEF ClaimStep, Reserved, DeclinedInv, Order
<1>4. ASSUME NEW i \in Instances, msg'[i].type = "PaymentFailed"
      PROVE  \E n \in DOMAIN log' : /\ log'[n].type = "PaymentFailed"
                                   /\ log'[n].order = msg'[i].order
  <2>1. Declined(msg'[i].order)
    <3>1. CASE msg'[i] = msg[i]
      BY <1>4, <3>1 DEF DeclinedInv, Handling, Order
    <3>2. CASE msg'[i] # msg[i]
      BY <1>4, <3>2, DeclinedDelivery
    <3> QED
      BY <3>1, <3>2
  <2>2. PICK n \in DOMAIN log : log[n].type = "PaymentFailed" /\ log[n].order = msg'[i].order
    BY <2>1 DEF Declined, Ful!Emitted
  <2> QED
    BY <2>2 DEF FP!LogGrows
<1> QED
  BY <1>2, <1>3, <1>4 DEF DeclinedInv, Handling, Order, Declined, Ful!Emitted

LEMMA SagaInvariant == SagaSpec => []SagaInv
<1>1. SagaInit => SagaInv
  <2> SUFFICES ASSUME Init, FP!Init PROVE SagaInv
    BY SameLog DEF SagaInit
  <2>1. LogInv
    BY DEF FP!Init, LogInv, FP!Emitted
  <2>2. ExpiredInv
    BY DEF Init, ExpiredInv
  <2>3. DeclinedInv
    BY DEF Init, DeclinedInv, Releasing, Handling, NoMessage
  <2> QED
    BY <2>1, <2>2, <2>3 DEF SagaInv
<1>2. TypeOK /\ FP!LifecycleInv /\ SagaInv /\ [SagaNext]_sagaVars => SagaInv'
  <2> SUFFICES ASSUME TypeOK, FP!LifecycleInv, SagaInv, [SagaNext]_sagaVars
               PROVE  SagaInv'
    OBVIOUS
  <2>1. FP!LogGrows /\ FP!TypeInv
    BY FulfilmentStep, FulfilmentConstants, FP!LifecycleInvStep DEF FP!LifecycleInv
  <2>2. [Next]_vars
    BY SagaCases
  <2> QED
    BY <2>1, <2>2, LogStep, ExpiredStep, DeclinedStep DEF SagaInv
<1>3. Spec => []TypeOK
  BY TypeCorrect
<1>4. FP!Spec => []FP!LifecycleInv
  BY FulfilmentConstants, FP!LifecycleInvariant
<1> QED
  BY <1>1, <1>2, <1>3, <1>4, SagaRunsInventory, SagaRunsFulfilment, PTL DEF SagaSpec

\* Paid stock is held: a product of a paid order has a row, since nobody is
\* charged before StockReserved and StockReserved is only emitted with the rows
\* there; and a row that is not RESERVED any more was released for a
\* PaymentFailed or expired after its time (releaseReservation,
\* releaseExpiredReservations).
THEOREM PaidStockIsHeld == SagaSpec => []PaidIsHeld
<1>1. /\ TypeOK /\ ReservedIsBacked /\ SagaInv
      /\ FP!Of("PaymentCaptured") \subseteq FP!Of("StockReserved")
      => PaidIsHeld
  <2> SUFFICES ASSUME TypeOK, ReservedIsBacked, SagaInv,
                      FP!Of("PaymentCaptured") \subseteq FP!Of("StockReserved"),
                      NEW o \in Orders, Ful!Emitted("PaymentCaptured", o) # {},
                      ~Declined(o), InTime(o), NEW p \in ProductsOf(o)
               PROVE  \E n \in Copies : reservation[<<o, p, n>>] = "RESERVED"
    BY DEF PaidIsHeld, Holds
  <2>1. FP!Emitted("StockReserved", o) # {}
    BY SameLog DEF FP!Of
  <2>2. PICK n \in Copies : reservation[<<o, p, n>>] # "NONE"
    <3>1. PICK e \in events : e.type = "StockReserved" /\ e.order = o
      BY <2>1 DEF SagaInv, LogInv, Announced
    <3>2. \A q \in ProductsOf(e.order) : \E n \in Copies : reservation[<<e.order, q, n>>] # "NONE"
      BY <3>1 DEF ReservedIsBacked
    <3> QED
      BY <3>1, <3>2
  <2>3. <<o, p, n>> \in Rows
    BY DEF Rows, ProductsOf
  <2>4. reservation[<<o, p, n>>] # "EXPIRED"
    BY <2>3 DEF SagaInv, ExpiredInv, Overdue, InTime
  <2>5. reservation[<<o, p, n>>] # "RELEASED"
    BY <2>3 DEF SagaInv, DeclinedInv
  <2> QED
    BY <2>2, <2>3, <2>4, <2>5 DEF TypeOK, ServersTypeOK, Status
<1>2. Spec => [](TypeOK /\ ReservedIsBacked)
  BY TypeCorrect, InventoryReservedIsBacked, PTL
<1>3. FP!Spec => [](FP!Of("PaymentCaptured") \subseteq FP!Of("StockReserved"))
  BY FulfilmentConstants, FP!PaidIsReserved
<1> QED
  BY <1>1, <1>2, <1>3, SagaInvariant, SagaRunsInventory, SagaRunsFulfilment, PTL
-----------------------------------------------------------------------------
(* The whole saga implements an order's life.                              *)

Backing == FP!Of("StockReserved") \subseteq {o \in Orders : HasRows(o)}

LEMMA ReservedHasRows == ReservedIsBacked /\ LogInv => Backing
<1> SUFFICES ASSUME ReservedIsBacked, LogInv, NEW o \in Orders,
                    FP!Emitted("StockReserved", o) # {}
             PROVE  HasRows(o)
  BY DEF Backing, FP!Of
<1>1. PICK e \in events : e.type = "StockReserved" /\ e.order = o
  BY DEF LogInv, Announced
<1>2. \A p \in ProductsOf(e.order) : \E n \in Copies : reservation[<<e.order, p, n>>] # "NONE"
  BY <1>1 DEF ReservedIsBacked
<1> QED
  BY <1>1, <1>2 DEF HasRows

\* The inventory may reserve for one more order.
LEMMA RowsComeTogether ==
    ASSUME TypeOK, [Next]_vars
    PROVE  LET rows == {o \in Orders : HasRows(o)}
           IN  rows' = rows \/ \E q \in Orders : rows' = rows \cup {q}
<1> DEFINE rows == {o \in Orders : HasRows(o)}
<1>1. ASSUME NEW o \in Orders, NEW p \in ProductsOf(o), NEW n \in Copies
      PROVE  <<o, p, n>> \in Rows
  BY DEF Rows, ProductsOf
<1>2. rows \subseteq rows'
  BY <1>1, RowSteps DEF HasRows
<1>3. ASSUME NEW o \in rows', o \notin rows
      PROVE  \E q \in Orders : rows' = rows \cup {q}
  <2>1. PICK r \in Rows : r[1] = o /\ reservation[r] = "NONE" /\ reservation'[r] # "NONE"
    <3>1. PICK p \in ProductsOf(o) : \A n \in Copies : reservation[<<o, p, n>>] = "NONE"
      BY <1>3 DEF HasRows
    <3>2. PICK n \in Copies : reservation'[<<o, p, n>>] # "NONE"
      BY <1>3 DEF HasRows
    <3> QED
      BY <1>1, <1>3, <3>1, <3>2
  <2>2. PICK i \in Instances : pc[i] = "commit" /\ Reserve(msg[i])
    BY <2>1, RowSteps
  <2>3. Order(i) \in Orders
    BY <2>2, AtLabel
  <2>4. ASSUME NEW q \in Orders, q # Order(i), HasRows(q)'
        PROVE  HasRows(q)
    <3>1. \A r2 \in Rows : r2[1] = q => reservation'[r2] = reservation[r2]
      BY <2>2, <2>4 DEF Reserve, RowsOf, Order
    <3> SUFFICES ASSUME NEW p \in ProductsOf(q)
                 PROVE  \E n \in Copies : reservation[<<q, p, n>>] # "NONE"
      BY DEF HasRows
    <3>2. PICK n \in Copies : reservation'[<<q, p, n>>] # "NONE"
      BY <2>4 DEF HasRows
    <3> QED
      BY <1>1, <3>1, <3>2
  <2>5. rows' \subseteq rows \cup {Order(i)}
    BY <2>4
  <2>6. o = Order(i)
    BY <1>3, <2>5
  <2> QED
    BY <1>2, <1>3, <2>3, <2>5, <2>6
<1> QED
  BY <1>2, <1>3

\* What the two instances tell of an order.
SameView ==
    /\ Ful!Of("PaymentCaptured") = FP!Of("PaymentCaptured")
    /\ Ful!Of("PaymentFailed") = FP!Of("PaymentFailed")
    /\ Ful!Told = FP!Told

LEMMA ViewsAgree == SameView
BY SameLog DEF SameView

LEMMA SagaLifecycleStep ==
    ASSUME TypeOK, FP!LifecycleInv, Backing, [SagaNext]_sagaVars
    PROVE  [Lifecycle!Next]_Lifecycle!vars
<1> DEFINE rows == {o \in Orders : HasRows(o)}
<1>1. CASE Aside
  <2>1. /\ Ful!Of("PaymentCaptured")' = Ful!Of("PaymentCaptured")
        /\ Ful!Of("PaymentFailed")' = Ful!Of("PaymentFailed")
        /\ Ful!Told' = Ful!Told
        /\ UNCHANGED <<shipments, status>>
    BY <1>1 DEF Aside, fulVars, Ful!Of, Ful!Emitted, Ful!Told
  <2>2. rows' = rows \/ \E q \in Orders : rows' = rows \cup {q}
    BY <1>1, RowsComeTogether DEF Aside
  <2> HIDE DEF rows
  <2> QED
    BY <2>1, <2>2 DEF Lifecycle!Next, Lifecycle!vars, Lifecycle!ReserveStock, rows
<1>2. CASE UNCHANGED reservation
  <2>1. [FP!Lifecycle!Next]_FP!Lifecycle!vars
    BY FulfilmentStep, FulfilmentConstants, FP!LifecycleInvStep
  <2>2. rows' = rows
    BY <1>2 DEF HasRows
  <2>3. SameView
    BY ViewsAgree
  <2>4. SameView'
    BY ViewsAgree, PTL
  <2>5. FP!Of("StockReserved") \subseteq rows
    BY DEF Backing
  <2> HIDE DEF rows
  <2>6. rows' = {o \in Orders : HasRows(o)}' /\ rows = {o \in Orders : HasRows(o)}
    BY DEF rows
  <2>7. CASE UNCHANGED FP!Lifecycle!vars
    BY <2>2, <2>3, <2>4, <2>6, <2>7 DEF SameView, FP!Lifecycle!vars, Lifecycle!vars
  <2>8. ASSUME NEW o \in Orders, FP!Lifecycle!ReserveStock(o)
        PROVE  UNCHANGED Lifecycle!vars
    BY <2>2, <2>3, <2>4, <2>6, <2>8 DEF SameView, FP!Lifecycle!ReserveStock, Lifecycle!vars
  <2>9. ASSUME NEW o \in Orders, FP!Lifecycle!Pay(o) \/ FP!Lifecycle!Decline(o)
        PROVE  Lifecycle!Pay(o) \/ Lifecycle!Decline(o)
    BY <2>2, <2>3, <2>4, <2>5, <2>6, <2>9
       DEF SameView, FP!Lifecycle!Pay, FP!Lifecycle!Decline, Lifecycle!Pay, Lifecycle!Decline
  <2>10. ASSUME NEW o \in Orders, FP!Lifecycle!Ship(o) PROVE Lifecycle!Ship(o)
    BY <2>2, <2>3, <2>4, <2>6, <2>10 DEF SameView, FP!Lifecycle!Ship, Lifecycle!Ship
  <2>11. ASSUME NEW o \in Orders, FP!Lifecycle!Tell(o) PROVE Lifecycle!Tell(o)
    BY <2>2, <2>3, <2>4, <2>6, <2>11
       DEF SameView, FP!Lifecycle!Tell, Lifecycle!Tell, FP!Lifecycle!Decisions, Lifecycle!Decisions
  <2>12. ASSUME NEW o \in Orders, NEW d \in FP!Lifecycle!Decisions, FP!Lifecycle!Decide(o, d)
         PROVE  d \in Lifecycle!Decisions /\ Lifecycle!Decide(o, d)
    BY <2>2, <2>3, <2>4, <2>6, <2>12
       DEF SameView, FP!Lifecycle!Decide, Lifecycle!Decide, FP!Lifecycle!Decisions, Lifecycle!Decisions
  <2> QED
    BY <2>1, <2>7, <2>8, <2>9, <2>10, <2>11, <2>12 DEF FP!Lifecycle!Next, Lifecycle!Next
<1> QED
  BY <1>1, <1>2, SagaCases DEF Announcing, Elsewhere, Emit, vars, servers, db

\* Every step of the services together is a step of an order's life, or none of
\* it: reserving is the inventory's transaction, not the event that tells of it.
THEOREM SagaIsALife == SagaSpec => SagaImplementsLifecycle
<1>1. SagaInit => Lifecycle!Init
  <2> SUFFICES ASSUME Init, FP!Init PROVE Lifecycle!Init
    BY SameLog DEF SagaInit
  <2>1. FP!Lifecycle!Init
    BY FulfilmentConstants, FP!LifecycleInit
  <2>2. ASSUME NEW o \in Orders PROVE ~HasRows(o)
    BY StockAssumption DEF Init, HasRows, Rows, ProductsOf
  <2> QED
    BY <2>1, <2>2, SameLog
       DEF Lifecycle!Init, FP!Lifecycle!Init, Lifecycle!Decisions, FP!Lifecycle!Decisions
<1>2. /\ TypeOK /\ FP!LifecycleInv /\ ReservedIsBacked /\ SagaInv
      /\ [SagaNext]_sagaVars
      => [Lifecycle!Next]_Lifecycle!vars
  BY ReservedHasRows, SagaLifecycleStep DEF SagaInv
<1>3. Spec => [](TypeOK /\ ReservedIsBacked)
  BY TypeCorrect, InventoryReservedIsBacked, PTL
<1>4. FP!Spec => []FP!LifecycleInv
  BY FulfilmentConstants, FP!LifecycleInvariant
<1> QED
  BY <1>1, <1>2, <1>3, <1>4, SagaInvariant, SagaRunsInventory, SagaRunsFulfilment, PTL
  DEF SagaSpec, SagaImplementsLifecycle, Lifecycle!Spec
=============================================================================
