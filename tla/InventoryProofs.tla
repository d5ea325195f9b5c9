-------------------------- MODULE InventoryProofs --------------------------
(***************************************************************************)
(* What holds of the inventory service for any number of instances, of     *)
(* runs of the expiry job, orders, products, copies of messages, failed    *)
(* calls and crashes, whatever the leases do: types, the refinement of the *)
(* ledger, the stock conservation that follows from it, what an            *)
(* announcement and what a refusal are worth, and that every event marked  *)
(* processed is answered.                                                  *)
(***************************************************************************)
EXTENDS InventoryProperties, FiniteSetTheorems, TLAPS

LP == INSTANCE StockLedgerProofs

-----------------------------------------------------------------------------
(* Types.                                                                  *)

LEMMA DataTypes ==
    /\ \A o \in Orders, p \in Products : Demand[o][p] \in Nat
    /\ \A o \in Orders : ProductsOf(o) \subseteq Products /\ ProductsOf(o) # {}
    /\ \A r \in Rows : r[1] \in Orders /\ r[2] \in Products /\ r[3] \in Copies
    /\ \A r \in Rows : Quantity(r) \in Nat
    /\ \A r \in Rows : r = <<r[1], r[2], r[3]>>
<1>1. \A o \in Orders, p \in Products : Demand[o][p] \in Nat
  BY StockAssumption
<1>2. \A r \in Rows : /\ r[1] \in Orders /\ r[2] \in Products /\ r[3] \in Copies
                      /\ r = <<r[1], r[2], r[3]>>
  BY DEF Rows
<1>3. \A o \in Orders : ProductsOf(o) \subseteq Products /\ ProductsOf(o) # {}
  BY StockAssumption DEF ProductsOf
<1> QED
  BY <1>1, <1>2, <1>3 DEF Quantity

LEMMA MessageTypes ==
    /\ NoMessage \notin Messages
    /\ \A m \in Messages : /\ m.type \in {"OrderCreated", "PaymentFailed"}
                           /\ m.order \in Orders /\ m.copy \in Copies
                           /\ EventId(m) = <<m.type, m.order>>
                           /\ EventId(m) \in {"OrderCreated", "PaymentFailed"} \X Orders
BY DEF Messages, NoMessage, EventId

LEMMA OutcomeLabels ==
    /\ DOMAIN Outcome = {"announce", "productLocked", "outOfStock", "technicalFailure"}
    /\ \A l \in DOMAIN Outcome : Outcome[l] \in Outcomes
    /\ \A l \in DOMAIN Outcome : Outcome[l] = "StockReserved" <=> l = "announce"
BY DEF Outcome, Outcomes

\* The effects of the calls keep the servers' types.
LEMMA LockTypes ==
    ASSUME ServersTypeOK, NEW k \in Keys, NEW v \in Orders \cup {CONSUMER},
           SetLock(k, v) \/ DropLock(k, v)
    PROVE  ServersTypeOK'
BY DEF ServersTypeOK, SetLock, DropLock, SetNxEx, DeleteIfValue, db

LEMMA EmitTypes ==
    ASSUME ServersTypeOK, NEW m \in Messages,
           NEW type \in Outcomes \cup {"StockReleased"},
           Emit(type, m) \/ EmitToDlq(m)
    PROVE  ServersTypeOK'
BY MessageTypes DEF ServersTypeOK, Emit, EmitToDlq, db

LEMMA ReserveTypes ==
    ASSUME ServersTypeOK, NEW m \in Messages, Reserve(m)
    PROVE  ServersTypeOK'
<1>1. \A p \in Products : stock[p] - Demand[m.order][p] \in Nat
  <2> TAKE p \in Products
  <2>1. m.order \in Orders
    BY MessageTypes
  <2>2. Demand[m.order][p] \in Nat /\ stock[p] \in Nat
    BY <2>1, DataTypes DEF ServersTypeOK
  <2>3. Demand[m.order][p] > 0 => stock[p] >= Demand[m.order][p]
    BY DEF Reserve, InStock, ProductsOf
  <2> QED
    BY <2>2, <2>3
<1>2. stock' \in [Products -> Nat]
  BY <1>1 DEF Reserve
<1>3. reservation' \in [Rows -> Status]
  BY DEF Reserve, ServersTypeOK, Status
<1> QED
  BY <1>2, <1>3, MessageTypes DEF ServersTypeOK, Reserve

LEMMA RestoreTypes ==
    ASSUME ServersTypeOK, NEW r \in Rows, NEW s \in {"RELEASED", "EXPIRED"}, Restore(r, s)
    PROVE  ServersTypeOK'
BY DataTypes DEF ServersTypeOK, Restore, Status

LEMMA MarkTypes ==
    ASSUME ServersTypeOK, NEW m \in Messages, MarkProcessed(m)
    PROVE  ServersTypeOK'
BY MessageTypes DEF ServersTypeOK, MarkProcessed

LEMMA IdleTypes == ASSUME ServersTypeOK, UNCHANGED servers PROVE ServersTypeOK'
BY DEF ServersTypeOK, servers, db

\* So does whatever a failed call left behind.
LEMMA LandedTypes ==
    ASSUME TypeOK, NEW i \in Instances, pc[i] # "idle", Landed(i)
    PROVE  ServersTypeOK'
<1> ServersTypeOK /\ HandlersTypeOK
  BY DEF TypeOK
<1>1. msg[i] \in Messages /\ Order(i) \in Orders /\ claim[i] \subseteq Rows
      /\ keys[i] \subseteq Products /\ Products \subseteq Keys
  BY MessageTypes DEF HandlersTypeOK, Order, Keys
<1>2. CASE UNCHANGED servers
  BY <1>2, IdleTypes
<1>3. CASE \E k \in Products : SetLock(k, Order(i)) \/ DropLock(k, Order(i))
  BY <1>1, <1>3, LockTypes
<1>4. CASE Reserve(msg[i])
  BY <1>1, <1>4, ReserveTypes
<1>5. CASE \E t \in Outcomes \cup {"StockReleased"} : Emit(t, msg[i]) \/ EmitToDlq(msg[i])
  BY <1>1, <1>5, EmitTypes
<1>6. CASE \E r \in claim[i] : Restore(r, "RELEASED")
  BY <1>1, <1>6, RestoreTypes
<1>7. CASE MarkProcessed(msg[i])
  BY <1>1, <1>7, MarkTypes
<1> QED
  BY <1>1, <1>2, <1>3, <1>4, <1>5, <1>6, <1>7, OutcomeLabels DEF Landed

\* How the ways a handler moves on keep the handlers' types.
LEMMA FinishTypes ==
    ASSUME HandlersTypeOK, NEW i \in Instances, Finish(i)
    PROVE  HandlersTypeOK'
<1>1. 1 \in 1..MaxAttempts
  BY InventoryAssumption
<1> QED
  BY <1>1 DEF HandlersTypeOK, Finish, Goto, Labels, OrderCreatedLabels,
              PaymentFailedLabels, Handling

LEMMA ThrowTypes ==
    ASSUME HandlersTypeOK, NEW i \in Instances, pc[i] # "idle", Throw(i)
    PROVE  HandlersTypeOK'
<1>1. attempt[i] \in 1..MaxAttempts
  BY DEF HandlersTypeOK
<1>2. attempt[i] < MaxAttempts => attempt[i] + 1 \in 1..MaxAttempts
  BY <1>1, InventoryAssumption
<1> QED
  BY <1>2 DEF HandlersTypeOK, Throw, Goto, Labels, OrderCreatedLabels,
              PaymentFailedLabels, Handling

\* The handler goes to another label of its method, with other keys and rows.
LEMMA MoveTypes ==
    ASSUME HandlersTypeOK, NEW i \in Instances, NEW label,
           \/ label \in OrderCreatedLabels /\ Handling(i, "OrderCreated")
           \/ label \in PaymentFailedLabels /\ Handling(i, "PaymentFailed"),
           pc[i] # "idle",
           Goto(i, label),
           NEW ks \in SUBSET Products, NEW rs \in SUBSET Rows,
           keys' = [keys EXCEPT ![i] = ks],
           claim' = [claim EXCEPT ![i] = rs],
           UNCHANGED <<msg, attempt>>
    PROVE  HandlersTypeOK'
BY DEF HandlersTypeOK, Goto, Labels, OrderCreatedLabels, PaymentFailedLabels, Handling

LEMMA StillTypes == ASSUME HandlersTypeOK, UNCHANGED local PROVE HandlersTypeOK'
BY DEF HandlersTypeOK, local, Handling

LEMMA AtLabel ==
    ASSUME TypeOK, NEW i \in Instances
    PROVE  /\ pc[i] # "idle" => msg[i] \in Messages /\ Order(i) \in Orders
           /\ pc[i] \in OrderCreatedLabels => Handling(i, "OrderCreated")
           /\ pc[i] \in PaymentFailedLabels => Handling(i, "PaymentFailed")
           /\ keys = [keys EXCEPT ![i] = keys[i]] /\ keys[i] \subseteq Products
           /\ claim = [claim EXCEPT ![i] = claim[i]] /\ claim[i] \subseteq Rows
           /\ pc = [pc EXCEPT ![i] = pc[i]]
           /\ Products \subseteq Keys /\ JobKey \in Keys
BY MessageTypes DEF TypeOK, HandlersTypeOK, Order, Keys

\* Every step of a handler keeps the types of the servers and the handlers.
LEMMA HandlerStepTypes ==
    ASSUME TypeOK, NEW i \in Instances, HandlerStep(i)
    PROVE  ServersTypeOK' /\ HandlersTypeOK'
<1> USE DEF At
<1>0. ServersTypeOK /\ HandlersTypeOK
  BY DEF TypeOK
<1>1. CASE IsEventProcessed(i)
  <2>1. ServersTypeOK'
    BY <1>0, <1>1, IdleTypes DEF IsEventProcessed
  <2>2. CASE EventId(msg[i]) \in processed
    BY <1>0, <1>1, <2>1, <2>2, FinishTypes DEF IsEventProcessed
  <2>3. CASE EventId(msg[i]) \notin processed
    <3> DEFINE l == IF msg[i].type = "OrderCreated" THEN "lock" ELSE "findReserved"
    <3>1. /\ Goto(i, l) /\ pc[i] = "check"
          /\ UNCHANGED <<msg, attempt, keys, claim>>
      BY <1>1, <2>3 DEF IsEventProcessed
    <3>2. \/ l \in OrderCreatedLabels /\ Handling(i, "OrderCreated")
          \/ l \in PaymentFailedLabels /\ Handling(i, "PaymentFailed")
      BY <3>1, AtLabel, MessageTypes DEF OrderCreatedLabels, PaymentFailedLabels, Handling
    <3> HIDE DEF l
    <3> QED
      BY <1>0, <2>1, <3>1, <3>2, MoveTypes, AtLabel
  <2> QED
    BY <2>2, <2>3
<1>2. CASE AcquireLock(i)
  <2>1. PICK k \in Products : /\ SetLock(k, Order(i))
                              /\ keys' = [keys EXCEPT ![i] = keys[i] \cup {k}]
    BY <1>2 DEF AcquireLock
  <2>2. ServersTypeOK'
    BY <1>0, <1>2, <2>1, LockTypes, AtLabel DEF AcquireLock
  <2>3. keys[i] \cup {k} \in SUBSET Products /\ claim[i] \in SUBSET Rows
    BY AtLabel
  <2>4. pc[i] = "lock" /\ Goto(i, "lock") /\ Handling(i, "OrderCreated")
    BY <1>2, AtLabel DEF AcquireLock, Goto, OrderCreatedLabels
  <2>5. claim' = [claim EXCEPT ![i] = claim[i]] /\ UNCHANGED <<msg, attempt>>
    BY <1>2, AtLabel DEF AcquireLock
  <2> QED
    BY <1>0, <2>1, <2>2, <2>3, <2>4, <2>5, MoveTypes DEF OrderCreatedLabels
<1>3. CASE \/ GiveUpLock(i) \/ CheckInTransaction(i) \/ RollBack(i)
  <2>1. ServersTypeOK'
    BY <1>0, <1>3, IdleTypes DEF GiveUpLock, CheckInTransaction, RollBack
  <2>2. PICK l \in {"productLocked", "announce", "commit", "outOfStock"} :
           Goto(i, l) /\ pc[i] \in {"lock", "commit"}
    BY <1>3 DEF GiveUpLock, CheckInTransaction, RollBack
  <2> QED
    BY <1>0, <1>3, <2>1, <2>2, MoveTypes, AtLabel
       DEF GiveUpLock, CheckInTransaction, RollBack, OrderCreatedLabels
<1>4. CASE CommitReservation(i)
  <2>1. ServersTypeOK'
    BY <1>0, <1>4, ReserveTypes, AtLabel DEF CommitReservation
  <2> QED
    BY <1>0, <1>4, <2>1, MoveTypes, AtLabel DEF CommitReservation, OrderCreatedLabels
<1>5. CASE EmitOutcome(i)
  <2>1. pc[i] \in OrderCreatedLabels /\ Outcome[pc[i]] \in Outcomes
    BY <1>5, OutcomeLabels DEF EmitOutcome, OrderCreatedLabels
  <2>2. pc[i] # "idle" /\ msg[i] \in Messages
    BY <2>1, AtLabel DEF OrderCreatedLabels
  <2>3. ServersTypeOK'
    BY <1>0, <1>5, <2>1, <2>2, EmitTypes DEF EmitOutcome
  <2>4. PICK l \in {"unlockThrow", "unlockReturn"} : Goto(i, l)
    BY <1>5 DEF EmitOutcome
  <2> QED
    BY <1>0, <1>5, <2>1, <2>2, <2>3, <2>4, MoveTypes, AtLabel
       DEF EmitOutcome, OrderCreatedLabels
<1>6. CASE ReleaseLock(i)
  <2>1. PICK k \in Products : /\ DropLock(k, Order(i))
                              /\ keys' = [keys EXCEPT ![i] = keys[i] \ {k}]
    BY <1>6 DEF ReleaseLock
  <2>2. ServersTypeOK'
    BY <1>0, <1>6, <2>1, LockTypes, AtLabel DEF ReleaseLock
  <2> QED
    BY <1>0, <1>6, <2>1, <2>2, MoveTypes, AtLabel
       DEF ReleaseLock, Goto, OrderCreatedLabels
<1>7. CASE LocksReleased(i)
  BY <1>0, <1>7, IdleTypes, FinishTypes, ThrowTypes DEF LocksReleased
<1>8. CASE FindReserved(i)
  <2>1. Reserved(Order(i)) \subseteq Rows
    BY DEF Reserved
  <2>2. ServersTypeOK'
    BY <1>0, <1>8, IdleTypes DEF FindReserved
  <2> QED
    BY <1>0, <1>8, <2>1, <2>2, MoveTypes, AtLabel DEF FindReserved, PaymentFailedLabels
<1>9. CASE ReleaseReservation(i)
  <2>1. PICK r \in claim[i] :
          /\ claim' = [claim EXCEPT ![i] = claim[i] \ {r}]
          /\ \/ /\ Restore(r, "RELEASED")
                /\ keys' = [keys EXCEPT ![i] = {r[2]}]
                /\ Goto(i, "dropLock")
             \/ UNCHANGED <<servers, keys, pc>>
    BY <1>9 DEF ReleaseReservation
  <2>2. r \in Rows /\ {r[2]} \subseteq Products
    BY AtLabel, DataTypes
  <2>3. ServersTypeOK'
    BY <1>0, <2>1, <2>2, RestoreTypes, IdleTypes
  <2>4. /\ pc[i] = "release" /\ Handling(i, "PaymentFailed")
        /\ claim[i] \ {r} \in SUBSET Rows /\ UNCHANGED <<msg, attempt>>
    BY <1>9, AtLabel DEF ReleaseReservation, PaymentFailedLabels
  <2>5. CASE Goto(i, "dropLock") /\ keys' = [keys EXCEPT ![i] = {r[2]}]
    BY <1>0, <2>1, <2>2, <2>3, <2>4, <2>5, MoveTypes DEF PaymentFailedLabels
  <2>6. CASE UNCHANGED <<keys, pc>>
    <3>1. Goto(i, "release") /\ keys' = [keys EXCEPT ![i] = keys[i]]
          /\ keys[i] \in SUBSET Products
      BY <2>4, <2>6, AtLabel DEF Goto
    <3> QED
      BY <1>0, <2>1, <2>3, <2>4, <3>1, MoveTypes DEF PaymentFailedLabels
  <2> QED
    BY <2>1, <2>5, <2>6
<1>10. CASE DropProductLock(i)
  <2>1. ServersTypeOK'
    BY <1>0, <1>10, LockTypes, AtLabel DEF DropProductLock
  <2> QED
    BY <1>0, <1>10, <2>1, MoveTypes, AtLabel DEF DropProductLock, PaymentFailedLabels
<1>11. CASE MarkReleased(i)
  <2>1. ServersTypeOK'
    BY <1>0, <1>11, MarkTypes, AtLabel DEF MarkReleased
  <2> QED
    BY <1>0, <1>11, <2>1, MoveTypes, AtLabel DEF MarkReleased, PaymentFailedLabels
<1>12. CASE AnnounceRelease(i) \/ SendToDlq(i)
  <2>1. ServersTypeOK'
    BY <1>0, <1>12, EmitTypes, AtLabel DEF AnnounceRelease, SendToDlq
  <2> QED
    BY <1>0, <1>12, <2>1, FinishTypes DEF AnnounceRelease, SendToDlq
<1> QED
  BY <1>1, <1>2, <1>3, <1>4, <1>5, <1>6, <1>7, <1>8, <1>9, <1>10, <1>11, <1>12
     DEF HandlerStep

LEMMA CallFailsTypes ==
    ASSUME TypeOK, NEW i \in Instances, CallFails(i)
    PROVE  ServersTypeOK' /\ HandlersTypeOK'
<1> USE DEF At
<1>1. ServersTypeOK /\ HandlersTypeOK
  BY DEF TypeOK
<1>2. pc[i] # "idle" /\ Landed(i)
  BY DEF CallFails
<1>3. ServersTypeOK'
  BY <1>2, LandedTypes
<1>4. CASE /\ pc[i] \in OrderCreatedLabels
           /\ Goto(i, "technicalFailure") \/ Goto(i, "unlockThrow")
           /\ UNCHANGED <<msg, attempt, keys, claim>>
  BY <1>1, <1>2, <1>3, <1>4, MoveTypes, AtLabel DEF OrderCreatedLabels
<1>5. CASE Throw(i)
  BY <1>1, <1>2, <1>3, <1>5, ThrowTypes
<1>6. CASE Finish(i)
  BY <1>1, <1>3, <1>6, FinishTypes
<1>7. HandlersTypeOK'
  BY <1>4, <1>5, <1>6 DEF CallFails, OrderCreatedLabels
<1> QED
  BY <1>3, <1>7

LEMMA JobTypes ==
    ASSUME TypeOK, NEW j \in Jobs, JobStep(j) \/ JobCallFails(j) \/ JobCrash(j)
    PROVE  ServersTypeOK' /\ JobsTypeOK' /\ HandlersTypeOK'
<1>1. /\ ServersTypeOK /\ HandlersTypeOK /\ JobsTypeOK /\ JobKey \in Keys
      /\ jobClaim[j] \subseteq Rows
  BY DEF TypeOK, JobsTypeOK, Keys
<1>2. HandlersTypeOK'
  BY <1>1, StillTypes
     DEF JobStep, JobStart, JobScan, JobExpire, JobEnd, JobCallFails, JobCrash, notJob
<1>3. ServersTypeOK'
  <2>1. \/ UNCHANGED servers
        \/ SetLock(JobKey, CONSUMER) \/ DropLock(JobKey, CONSUMER)
        \/ \E r \in jobClaim[j] : Restore(r, "EXPIRED")
    BY DEF JobStep, JobStart, JobScan, JobExpire, JobEnd, JobCallFails, JobCrash
  <2> QED
    BY <1>1, <2>1, IdleTypes, LockTypes, RestoreTypes
<1>4. JobsTypeOK'
  <2>1. /\ \/ UNCHANGED jobPc
           \/ \E l \in {"off", "scan", "sweep"} : JobGoto(j, l)
        /\ \/ UNCHANGED jobClaim
           \/ \E rs \in SUBSET Rows : JobSet(j, rs)
    BY <1>1
       DEF JobStep, JobStart, JobScan, JobExpire, JobEnd, JobCallFails, JobCrash
  <2> QED
    BY <1>1, <2>1 DEF JobsTypeOK, JobGoto, JobSet
<1> QED
  BY <1>2, <1>3, <1>4

LEMMA TypeCorrectStep == ASSUME TypeOK, [Next]_vars PROVE TypeOK'
<1>0. ServersTypeOK /\ HandlersTypeOK /\ JobsTypeOK
  BY DEF TypeOK
<1> USE InventoryAssumption
<1>1. ASSUME NEW i \in Instances, NEW m \in inbox, Receive(i, m) PROVE TypeOK'
  <2>1. m \in Messages
    BY DEF TypeOK
  <2>2. HandlersTypeOK'
    BY <1>0, <1>1, <2>1 DEF Receive, HandlersTypeOK, Goto, Labels, OrderCreatedLabels,
       PaymentFailedLabels, Handling, At
  <2>3. ServersTypeOK'
    BY <1>0, <1>1, IdleTypes DEF Receive
  <2> QED
    BY <1>1, <2>2, <2>3 DEF Receive, TypeOK, JobsTypeOK, job, faults
<1>2. ASSUME NEW i \in Instances, HandlerStep(i) PROVE TypeOK'
  <2>1. UNCHANGED rest
    BY <1>2 DEF HandlerStep, IsEventProcessed, AcquireLock, GiveUpLock,
       CheckInTransaction, CommitReservation, RollBack, EmitOutcome, ReleaseLock,
       LocksReleased, FindReserved, ReleaseReservation, DropProductLock,
       MarkReleased, AnnounceRelease, SendToDlq, rest
  <2> QED
    BY <1>2, <2>1, HandlerStepTypes DEF TypeOK, JobsTypeOK, rest, job, faults
<1>3. ASSUME NEW i \in Instances, CallFails(i) PROVE TypeOK'
  <2>1. /\ errors' \in 0..MaxErrors
        /\ UNCHANGED <<overdue, inbox, jobPc, jobClaim, crashes>>
    BY <1>3 DEF CallFails, TypeOK, job
  <2> QED
    BY <1>3, <2>1, CallFailsTypes DEF TypeOK, JobsTypeOK
<1>4. ASSUME NEW i \in Instances, Crash(i) PROVE TypeOK'
  <2>1. crashes' \in 0..MaxCrashes
    BY <1>4 DEF Crash, TypeOK
  <2>2. ServersTypeOK' /\ HandlersTypeOK'
    BY <1>0, <1>4, IdleTypes, FinishTypes DEF Crash
  <2> QED
    BY <1>4, <2>1, <2>2 DEF Crash, TypeOK, JobsTypeOK, job
<1>5. ASSUME NEW j \in Jobs, JobStep(j) \/ JobCallFails(j) \/ JobCrash(j)
      PROVE  TypeOK'
  <2>1. errors' \in 0..MaxErrors /\ crashes' \in 0..MaxCrashes
        /\ UNCHANGED <<overdue, inbox>>
    BY <1>5 DEF JobStep, JobStart, JobScan, JobExpire, JobEnd, JobCallFails, JobCrash,
       notJob, TypeOK
  <2> QED
    BY <1>5, <2>1, JobTypes DEF TypeOK
<1>6. ASSUME NEW k \in Keys, LockExpires(k) PROVE TypeOK'
  <2>1. ServersTypeOK'
    BY <1>0, <1>6 DEF LockExpires, Expire, ServersTypeOK, db
  <2>2. HandlersTypeOK'
    BY <1>0, <1>6, StillTypes DEF LockExpires
  <2> QED
    BY <1>6, <2>1, <2>2 DEF LockExpires, TypeOK, JobsTypeOK, job, faults
<1>7. ASSUME NEW o \in Orders, NEW n \in Copies, ReservationOverdue(o, n) PROVE TypeOK'
  <2>1. ServersTypeOK' /\ HandlersTypeOK'
    BY <1>0, <1>7, IdleTypes, StillTypes DEF ReservationOverdue
  <2> QED
    BY <1>7, <2>1 DEF ReservationOverdue, TypeOK, JobsTypeOK, job, faults
<1>8. CASE UNCHANGED vars
  <2>1. ServersTypeOK' /\ HandlersTypeOK'
    BY <1>0, <1>8, IdleTypes, StillTypes DEF vars
  <2> QED
    BY <1>8, <2>1 DEF vars, TypeOK, JobsTypeOK, job, faults
<1> QED
  BY <1>1, <1>2, <1>3, <1>4, <1>5, <1>6, <1>7, <1>8 DEF Next

\* Every variable keeps to its values: in particular availableStock is never
\* negative, attempts stop at maxAttempts, and a handler is only ever inside the
\* method for its type of message.
THEOREM TypeCorrect == Spec => []TypeOK
<1>1. Init => TypeOK
  <2> SUFFICES ASSUME Init PROVE TypeOK
    OBVIOUS
  <2>1. ServersTypeOK
    BY StockAssumption DEF Init, ServersTypeOK, Status
  <2>2. HandlersTypeOK
    BY InventoryAssumption DEF Init, HandlersTypeOK, Labels, OrderCreatedLabels,
       PaymentFailedLabels
  <2> QED
    BY <2>1, <2>2, InventoryAssumption DEF Init, TypeOK, JobsTypeOK
<1>2. TypeOK /\ [Next]_vars => TypeOK'
  BY TypeCorrectStep
<1> QED
  BY <1>1, <1>2, PTL DEF Spec

-----------------------------------------------------------------------------
(***************************************************************************)
(* The refinement.  The ledger never inserts a row twice.  In the service  *)
(* nothing but the processed_events table keeps a retry from inserting its *)
(* rows again, so the invariant says that a row's order is in that table   *)
(* (RowsAreKnown), that no two handlers have the same copy of a message    *)
(* (MessagesApart), and so that a handler about to reserve has no row yet  *)
(* (FreshRows).                                                            *)
(***************************************************************************)
Reserving == {"lock", "commit"}

MessagesApart ==
    /\ \A i, h \in Instances : i # h /\ pc[i] # "idle" => msg[i] # msg[h]
    /\ \A i \in Instances : msg[i] \notin inbox

RowsAreKnown == \A r \in Rows : reservation[r] # "NONE" => Done("OrderCreated", r[1])

FreshRows ==
    \A i \in Instances : pc[i] \in Reserving =>
        \A r \in RowsOf(msg[i].order, msg[i].copy) : reservation[r] = "NONE"

RefinementInv == MessagesApart /\ RowsAreKnown /\ FreshRows
-----------------------------------------------------------------------------
(* What a step can do, one variable at a time.                             *)

\* The actions of a handler, of a run of the job, and of time.
LEMMA NextCases ==
    ASSUME [Next]_vars, NEW ACTION P,
           \A i \in Instances, m \in inbox : Receive(i, m) => P,
           \A i \in Instances : HandlerStep(i) => P,
           \A i \in Instances : CallFails(i) => P,
           \A i \in Instances : Crash(i) => P,
           \A j \in Jobs : JobStep(j) \/ JobCallFails(j) \/ JobCrash(j) => P,
           \A k \in Keys : LockExpires(k) => P,
           \A o \in Orders, n \in Copies : ReservationOverdue(o, n) => P,
           UNCHANGED vars => P
    PROVE  P
BY DEF Next

\* The database changes in four ways.
DbStep ==
    \/ UNCHANGED db
    \/ \E i \in Instances : /\ pc[i] = "commit" /\ Reserve(msg[i])
                            /\ pc'[i] \notin Reserving
    \/ \E r \in Rows, s \in {"RELEASED", "EXPIRED"} : Restore(r, s)
    \/ \E i \in Instances : Handling(i, "PaymentFailed") /\ MarkProcessed(msg[i])

LEMMA LandedDbStep ==
    ASSUME TypeOK, NEW i \in Instances, Landed(i), pc'[i] \notin Reserving
    PROVE  DbStep
<1>1. claim[i] \subseteq Rows
  BY AtLabel
<1>2. pc[i] = "release" => Handling(i, "PaymentFailed")
  BY AtLabel DEF PaymentFailedLabels
<1> QED
  BY <1>1, <1>2 DEF Landed, DbStep, SetLock, DropLock, Emit, EmitToDlq, servers, At

LEMMA DbSteps == ASSUME TypeOK, [Next]_vars PROVE DbStep
<1>1. ASSUME NEW i \in Instances, NEW m \in inbox, Receive(i, m) PROVE DbStep
  BY <1>1 DEF DbStep, Receive, servers
<1>2. ASSUME NEW i \in Instances, HandlerStep(i) PROVE DbStep
  <2>1. CASE CommitReservation(i)
    <3>1. pc'[i] = "announce"
      BY <2>1 DEF CommitReservation, Goto, TypeOK, HandlersTypeOK
    <3> QED
      BY <2>1, <3>1 DEF CommitReservation, DbStep, At, Reserving
  <2>2. CASE ReleaseReservation(i)
    BY <2>2, AtLabel DEF ReleaseReservation, DbStep, servers
  <2>3. CASE MarkReleased(i)
    BY <2>3, AtLabel DEF MarkReleased, DbStep, PaymentFailedLabels, At
  <2> QED
    BY <1>2, <2>1, <2>2, <2>3
       DEF HandlerStep, IsEventProcessed, AcquireLock, GiveUpLock, CheckInTransaction,
           RollBack, EmitOutcome, ReleaseLock, LocksReleased, FindReserved,
           DropProductLock, AnnounceRelease, SendToDlq,
           DbStep, SetLock, DropLock, Emit, EmitToDlq, servers
<1>3. ASSUME NEW i \in Instances, CallFails(i) PROVE DbStep
  <2>1. pc'[i] \notin Reserving
    BY <1>3 DEF CallFails, Throw, Finish, Goto, TypeOK, HandlersTypeOK, Reserving
  <2> QED
    BY <1>3, <2>1, LandedDbStep DEF CallFails
<1>4. ASSUME NEW i \in Instances, Crash(i) PROVE DbStep
  BY <1>4 DEF DbStep, Crash, servers
<1>5. ASSUME NEW j \in Jobs, JobStep(j) \/ JobCallFails(j) \/ JobCrash(j) PROVE DbStep
  <2>1. jobClaim[j] \subseteq Rows
    BY DEF TypeOK, JobsTypeOK
  <2> QED
    BY <1>5, <2>1 DEF JobStep, JobStart, JobScan, JobExpire, JobEnd, JobCallFails,
       JobCrash, DbStep, SetLock, DropLock, servers
<1>6. ASSUME NEW k \in Keys, LockExpires(k) PROVE DbStep
  BY <1>6 DEF DbStep, LockExpires
<1>7. ASSUME NEW o \in Orders, NEW n \in Copies, ReservationOverdue(o, n) PROVE DbStep
  BY <1>7 DEF DbStep, ReservationOverdue, servers
<1>8. UNCHANGED vars => DbStep
  BY DEF DbStep, vars, servers
<1> QED
  BY <1>1, <1>2, <1>3, <1>4, <1>5, <1>6, <1>7, <1>8, NextCases

\* A handler gets to where it may reserve from the look at processed_events.
LabelStep(i) ==
    pc'[i] \in Reserving =>
        /\ msg'[i] = msg[i]
        /\ \/ pc[i] \in Reserving
           \/ /\ pc[i] = "check" /\ EventId(msg[i]) \notin processed
              /\ Handling(i, "OrderCreated")
              /\ UNCHANGED db

LEMMA LabelSteps ==
    ASSUME TypeOK, [Next]_vars, NEW i \in Instances
    PROVE  LabelStep(i)
<1> USE DEF Goto, At, Reserving
<1>0. pc \in [Instances -> Labels] /\ msg \in [Instances -> Messages \cup {NoMessage}]
  BY DEF TypeOK, HandlersTypeOK
<1>1. ASSUME NEW h \in Instances, NEW m \in inbox, Receive(h, m) PROVE LabelStep(i)
  BY <1>0, <1>1 DEF LabelStep, Receive
<1>2. ASSUME NEW h \in Instances, HandlerStep(h) PROVE LabelStep(i)
  <2>1. CASE IsEventProcessed(h)
    BY <1>0, <2>1 DEF IsEventProcessed, LabelStep, Finish, Handling, servers
  <2>2. CASE \/ AcquireLock(h) \/ GiveUpLock(h) \/ CheckInTransaction(h)
             \/ CommitReservation(h) \/ RollBack(h) \/ EmitOutcome(h) \/ ReleaseLock(h)
    BY <1>0, <2>2 DEF LabelStep, AcquireLock, GiveUpLock, CheckInTransaction,
       CommitReservation, RollBack, EmitOutcome, ReleaseLock
  <2>3. CASE LocksReleased(h)
    BY <1>0, <2>3 DEF LabelStep, LocksReleased, Finish, Throw
  <2>4. CASE FindReserved(h) \/ DropProductLock(h) \/ MarkReleased(h)
    BY <1>0, <2>4 DEF LabelStep, FindReserved, DropProductLock, MarkReleased
  <2>5. CASE AnnounceRelease(h) \/ SendToDlq(h)
    BY <1>0, <2>5 DEF LabelStep, AnnounceRelease, SendToDlq, Finish
  <2>6. CASE ReleaseReservation(h)
    BY <1>0, <2>6 DEF LabelStep, ReleaseReservation
  <2> QED
    BY <1>2, <2>1, <2>2, <2>3, <2>4, <2>5, <2>6 DEF HandlerStep
<1>3. ASSUME NEW h \in Instances, CallFails(h) PROVE LabelStep(i)
  BY <1>0, <1>3 DEF LabelStep, CallFails, Throw, Finish
<1>4. ASSUME NEW h \in Instances, Crash(h) PROVE LabelStep(i)
  BY <1>0, <1>4 DEF LabelStep, Crash, Finish
<1>5. ASSUME UNCHANGED local PROVE LabelStep(i)
  BY <1>5 DEF LabelStep, local
<1>6. ASSUME NEW j \in Jobs, JobStep(j) \/ JobCallFails(j) \/ JobCrash(j)
      PROVE  LabelStep(i)
  BY <1>5, <1>6 DEF JobStep, JobStart, JobScan, JobExpire, JobEnd, JobCallFails,
     JobCrash, notJob
<1>7. ASSUME NEW k \in Keys, LockExpires(k) PROVE LabelStep(i)
  BY <1>5, <1>7 DEF LockExpires
<1>8. ASSUME NEW o \in Orders, NEW n \in Copies, ReservationOverdue(o, n)
      PROVE  LabelStep(i)
  BY <1>5, <1>8 DEF ReservationOverdue
<1>9. UNCHANGED vars => LabelStep(i)
  BY <1>5 DEF vars
<1> QED
  BY <1>1, <1>2, <1>3, <1>4, <1>6, <1>7, <1>8, <1>9, NextCases

\* A message goes from the inbox to a handler, and is then gone.
MessageStep ==
    \/ UNCHANGED <<msg, inbox>>
    \/ \E i \in Instances, m \in inbox :
          /\ inbox' = inbox \ {m}
          /\ msg' = [msg EXCEPT ![i] = m]
    \/ \E i \in Instances : /\ UNCHANGED inbox
                            /\ msg' = [msg EXCEPT ![i] = NoMessage]

LEMMA MessageSteps == ASSUME TypeOK, [Next]_vars PROVE MessageStep
<1>1. ASSUME NEW i \in Instances, NEW m \in inbox, Receive(i, m) PROVE MessageStep
  BY <1>1 DEF MessageStep, Receive
<1>2. ASSUME NEW i \in Instances, HandlerStep(i) PROVE MessageStep
  BY <1>2 DEF MessageStep, HandlerStep, IsEventProcessed, AcquireLock, GiveUpLock,
     CheckInTransaction, CommitReservation, RollBack, EmitOutcome, ReleaseLock,
     LocksReleased, FindReserved, ReleaseReservation, DropProductLock, MarkReleased,
     AnnounceRelease, SendToDlq, Finish, Throw, rest
<1>3. ASSUME NEW i \in Instances, CallFails(i) PROVE MessageStep
  BY <1>3 DEF MessageStep, CallFails, Throw, Finish
<1>4. ASSUME NEW i \in Instances, Crash(i) PROVE MessageStep
  BY <1>4 DEF MessageStep, Crash, Finish
<1>5. ASSUME NEW j \in Jobs, JobStep(j) \/ JobCallFails(j) \/ JobCrash(j)
      PROVE  MessageStep
  BY <1>5 DEF JobStep, JobStart, JobScan, JobExpire, JobEnd, JobCallFails,
     JobCrash, notJob, local, MessageStep
<1>6. ASSUME NEW k \in Keys, LockExpires(k) PROVE MessageStep
  BY <1>6 DEF LockExpires, local, MessageStep
<1>7. ASSUME NEW o \in Orders, NEW n \in Copies, ReservationOverdue(o, n)
      PROVE  MessageStep
  BY <1>7 DEF ReservationOverdue, local, MessageStep
<1>8. UNCHANGED vars => MessageStep
  BY DEF vars, local, MessageStep
<1> QED
  BY <1>1, <1>2, <1>3, <1>4, <1>5, <1>6, <1>7, <1>8, NextCases
-----------------------------------------------------------------------------
(* The invariant.                                                          *)

LEMMA MessagesApartStep ==
    ASSUME TypeOK, MessagesApart, [Next]_vars
    PROVE  MessagesApart'
<1>1. /\ msg \in [Instances -> Messages \cup {NoMessage}]
      /\ \A i \in Instances : pc[i] # "idle" => msg[i] \in Messages
      /\ \A i \in Instances : pc[i] = "idle" => msg[i] = NoMessage
      /\ \A m \in inbox : m # NoMessage
  BY MessageTypes DEF TypeOK, HandlersTypeOK
<1>2. \A i \in Instances : pc'[i] # "idle" => msg'[i] # NoMessage
  <2>1. TypeOK'
    BY TypeCorrectStep
  <2> QED
    BY <2>1, MessageTypes DEF TypeOK, HandlersTypeOK
<1>3. MessageStep
  BY MessageSteps
<1>4. CASE UNCHANGED <<msg, inbox>>
  BY <1>1, <1>2, <1>4 DEF MessagesApart
<1>5. CASE \E i \in Instances, m \in inbox :
              inbox' = inbox \ {m} /\ msg' = [msg EXCEPT ![i] = m]
  BY <1>1, <1>2, <1>5 DEF MessagesApart
<1>6. CASE \E i \in Instances : UNCHANGED inbox /\ msg' = [msg EXCEPT ![i] = NoMessage]
  BY <1>1, <1>2, <1>6 DEF MessagesApart
<1> QED
  BY <1>3, <1>4, <1>5, <1>6 DEF MessageStep

\* No row ever goes back to NONE, and a new one is of the handler that reserves.
LEMMA RowSteps ==
    ASSUME TypeOK, [Next]_vars, NEW r \in Rows
    PROVE  /\ reservation[r] # "NONE" => reservation'[r] # "NONE"
           /\ reservation[r] = "NONE" /\ reservation'[r] # "NONE" =>
                 \E i \in Instances :
                    /\ pc[i] = "commit" /\ pc'[i] \notin Reserving /\ Reserve(msg[i])
                    /\ r \in RowsOf(msg[i].order, msg[i].copy)
           /\ processed \subseteq processed'
<1>1. DbStep /\ reservation \in [Rows -> Status]
  BY DbSteps DEF TypeOK, ServersTypeOK
<1>2. CASE UNCHANGED db
  BY <1>2 DEF db
<1>3. ASSUME NEW i \in Instances, pc[i] = "commit", Reserve(msg[i]), pc'[i] \notin Reserving
      PROVE  /\ reservation[r] # "NONE" => reservation'[r] # "NONE"
             /\ reservation[r] = "NONE" /\ reservation'[r] # "NONE" =>
                   r \in RowsOf(msg[i].order, msg[i].copy)
             /\ processed \subseteq processed'
  BY <1>3 DEF Reserve
<1>4. ASSUME NEW q \in Rows, NEW s \in {"RELEASED", "EXPIRED"}, Restore(q, s)
      PROVE  /\ reservation[r] # "NONE" <=> reservation'[r] # "NONE"
             /\ processed = processed'
  BY <1>1, <1>4 DEF Restore
<1>5. ASSUME NEW i \in Instances, MarkProcessed(msg[i])
      PROVE  reservation' = reservation /\ processed \subseteq processed'
  BY <1>5 DEF MarkProcessed
<1> QED
  BY <1>1, <1>2, <1>3, <1>4, <1>5 DEF DbStep

LEMMA RowsAreKnownStep ==
    ASSUME TypeOK, RowsAreKnown, [Next]_vars
    PROVE  RowsAreKnown'
<1> SUFFICES ASSUME NEW r \in Rows, reservation'[r] # "NONE"
             PROVE  <<"OrderCreated", r[1]>> \in processed'
  BY DEF RowsAreKnown, Done
<1>1. CASE reservation[r] # "NONE"
  BY <1>1, RowSteps DEF RowsAreKnown, Done
<1>2. CASE reservation[r] = "NONE"
  <2>1. PICK i \in Instances : /\ pc[i] = "commit" /\ Reserve(msg[i])
                               /\ r \in RowsOf(msg[i].order, msg[i].copy)
    BY <1>2, RowSteps
  <2>2. msg[i].type = "OrderCreated" /\ r[1] = msg[i].order
    BY <2>1, AtLabel DEF OrderCreatedLabels, Handling, RowsOf
  <2> QED
    BY <2>1, <2>2 DEF Reserve, EventId
<1> QED
  BY <1>1, <1>2

\* Two copies of a message about one order are numbered differently.
LEMMA CopiesDiffer ==
    ASSUME NEW m \in Messages, NEW q \in Messages, m # q, m.type = q.type
    PROVE  RowsOf(m.order, m.copy) \cap RowsOf(q.order, q.copy) = {}
BY DEF Messages, RowsOf

LEMMA FreshRowsStep ==
    ASSUME TypeOK, RefinementInv, [Next]_vars
    PROVE  FreshRows'
<1> SUFFICES ASSUME NEW i \in Instances, pc'[i] \in Reserving,
                    NEW r \in RowsOf(msg'[i].order, msg'[i].copy)
             PROVE  reservation'[r] = "NONE"
  BY DEF FreshRows
<1>1. LabelStep(i)
  BY LabelSteps
<1>2. /\ msg'[i] = msg[i]
      /\ r \in Rows /\ r \in RowsOf(msg[i].order, msg[i].copy) /\ r[1] = msg[i].order
  BY <1>1 DEF LabelStep, RowsOf
<1>3. CASE pc[i] \in Reserving
  <2>1. reservation[r] = "NONE"
    BY <1>2, <1>3 DEF RefinementInv, FreshRows
  <2>2. ASSUME NEW h \in Instances, pc[h] = "commit", pc'[h] \notin Reserving,
               r \in RowsOf(msg[h].order, msg[h].copy)
        PROVE  FALSE
    <3>1. i # h /\ msg[i] # msg[h]
      BY <1>3, <2>2 DEF RefinementInv, MessagesApart, Reserving
    <3>2. /\ msg[i] \in Messages /\ msg[h] \in Messages
          /\ msg[i].type = "OrderCreated" /\ msg[h].type = "OrderCreated"
      BY <1>3, <2>2, AtLabel DEF Reserving, OrderCreatedLabels, Handling
    <3> QED
      BY <1>2, <2>2, <3>1, <3>2, CopiesDiffer
  <2> QED
    BY <1>2, <2>1, <2>2, RowSteps
<1>4. CASE /\ EventId(msg[i]) \notin processed
           /\ Handling(i, "OrderCreated") /\ UNCHANGED db
  BY <1>2, <1>4 DEF RefinementInv, RowsAreKnown, Done, EventId, Handling, db
<1> QED
  BY <1>1, <1>3, <1>4 DEF LabelStep

LEMMA RefinementInvariant == Spec => []RefinementInv
<1>1. Init => RefinementInv
  BY InventoryAssumption, MessageTypes
     DEF Init, RefinementInv, MessagesApart, RowsAreKnown, FreshRows, Reserving
<1>2. TypeOK /\ RefinementInv /\ [Next]_vars => RefinementInv'
  BY MessagesApartStep, RowsAreKnownStep, FreshRowsStep DEF RefinementInv
<1> QED
  BY <1>1, <1>2, TypeCorrect, PTL DEF Spec
-----------------------------------------------------------------------------
(* What follows from it.                                                   *)

\* The ledger speaks of the same rows and quantities.
LEMMA SameData ==
    /\ Ledger!Rows = Rows /\ Ledger!Copies = Copies
    /\ \A o : Ledger!ProductsOf(o) = ProductsOf(o)
    /\ \A o, n : Ledger!RowsOf(o, n) = RowsOf(o, n)
    /\ \A r : Ledger!Quantity(r) = Quantity(r)
BY DEF Ledger!Rows, Ledger!Copies, Ledger!ProductsOf, Ledger!RowsOf, Ledger!Quantity,
       Rows, Copies, ProductsOf, RowsOf, Quantity

\* Every step of the inventory service is a step of the ledger or leaves it
\* alone: a reserving transaction takes a whole order from stock into rows never
\* used before (handleOrderCreated), and a row leaves RESERVED once, with its
\* stock (handlePaymentFailed, releaseExpiredReservations).
THEOREM InventoryImplementsLedger == Spec => ImplementsLedger
<1>1. Init => Ledger!Init
  BY SameData DEF Init, Ledger!Init
<1>2. TypeOK /\ RefinementInv /\ [Next]_vars => [Ledger!Next]_(Ledger!vars)
  <2> SUFFICES ASSUME TypeOK, RefinementInv, [Next]_vars
               PROVE  [Ledger!Next]_(Ledger!vars)
    OBVIOUS
  <2>1. DbStep
    BY DbSteps
  <2>2. ASSUME NEW i \in Instances, pc[i] = "commit", Reserve(msg[i])
        PROVE  Ledger!Next
    <3>1. \A r \in RowsOf(msg[i].order, msg[i].copy) : reservation[r] = "NONE"
      BY <2>2 DEF RefinementInv, FreshRows, Reserving
    <3>2. msg[i].order \in Orders /\ msg[i].copy \in Copies
      BY <2>2, AtLabel, MessageTypes
    <3>3. Ledger!Reserve(msg[i].order, msg[i].copy)
      BY <2>2, <3>1, SameData DEF Reserve, InStock, Ledger!Reserve, Ledger!InStock
    <3> QED
      BY <3>2, <3>3, SameData DEF Ledger!Next
  <2>3. ASSUME NEW r \in Rows, NEW s \in {"RELEASED", "EXPIRED"}, Restore(r, s)
        PROVE  Ledger!Next
    BY <2>3, SameData DEF Restore, Ledger!Restore, Ledger!Next
  <2>4. ASSUME UNCHANGED db \/ \E i \in Instances : MarkProcessed(msg[i])
        PROVE  UNCHANGED Ledger!vars
    BY <2>4 DEF db, MarkProcessed, Ledger!vars
  <2> QED
    BY <2>1, <2>2, <2>3, <2>4 DEF DbStep
<1> QED
  BY <1>1, <1>2, TypeCorrect, RefinementInvariant, PTL
     DEF Spec, ImplementsLedger, Ledger!Spec

\* availableStock and the open reservations always add up to the seeded stock.
THEOREM InventoryConservesStock == Spec => []Conservation
<1>1. LP!Spec => []LP!Conservation
  BY StockAssumption, LP!LedgerConservation
<1>2. /\ LP!Rows = Ledger!Rows /\ LP!Copies = Ledger!Copies
      /\ \A o : LP!ProductsOf(o) = Ledger!ProductsOf(o)
      /\ \A o, n : LP!RowsOf(o, n) = Ledger!RowsOf(o, n)
      /\ \A r : LP!Quantity(r) = Ledger!Quantity(r) /\ LP!Units(r) = Ledger!Units(r)
  BY DEF Ledger!Rows, Ledger!Copies, Ledger!ProductsOf, Ledger!RowsOf, Ledger!Quantity,
         Ledger!Units, LP!Rows, LP!Copies, LP!ProductsOf, LP!RowsOf, LP!Quantity, LP!Units
<1>3. Ledger!Init => LP!Init
  BY <1>2 DEF Ledger!Init, LP!Init
<1>4. [Ledger!Next]_(Ledger!vars) => [LP!Next]_(LP!vars)
  <2>1. \A o, n : Ledger!Reserve(o, n) => LP!Reserve(o, n)
    BY <1>2 DEF Ledger!Reserve, LP!Reserve, Ledger!InStock, LP!InStock
  <2>2. \A r, s : Ledger!Restore(r, s) => LP!Restore(r, s)
    BY <1>2 DEF Ledger!Restore, LP!Restore
  <2> QED
    BY <1>2, <2>1, <2>2 DEF Ledger!Next, LP!Next, Ledger!vars, LP!vars
<1>5. Ledger!Spec => LP!Spec
  BY <1>3, <1>4, PTL DEF Ledger!Spec, LP!Spec
<1>6. LP!Conservation => Conservation
  <2>1. \A p : LP!HeldRows(p) = Ledger!HeldRows(p)
    BY <1>2 DEF LP!HeldRows, Ledger!HeldRows
  <2>2. \A p : LP!HeldUnits(p) = Ledger!HeldUnits(p)
    BY <1>2, <2>1 DEF LP!HeldUnits, Ledger!HeldUnits
  <2>3. \A S : LP!IsFiniteSet(S) = Ledger!IsFiniteSet(S)
    BY DEF LP!IsFiniteSet, Ledger!IsFiniteSet
  <2>4. \A S : LP!Cardinality(S) = Ledger!Cardinality(S)
    BY DEF LP!Cardinality, Ledger!Cardinality
  <2> QED
    BY <2>2, <2>3, <2>4 DEF Conservation, Ledger!Conservation, LP!Conservation
<1> QED
  BY <1>1, <1>5, <1>6, InventoryImplementsLedger, PTL DEF ImplementsLedger
-----------------------------------------------------------------------------
(* Announcements.                                                          *)

\* A handler gets to announce once the event is processed, by it or another.
AnnounceStep(i) ==
    pc'[i] = "announce" =>
        /\ msg'[i] = msg[i]
        /\ \/ pc[i] = "announce"
           \/ EventId(msg[i]) \in processed' /\ Handling(i, "OrderCreated")

LEMMA AnnounceSteps ==
    ASSUME TypeOK, [Next]_vars, NEW i \in Instances
    PROVE  AnnounceStep(i)
<1> USE DEF Goto, At
<1>0. /\ pc \in [Instances -> Labels] /\ msg \in [Instances -> Messages \cup {NoMessage}]
      /\ \A h \in Instances : pc[h] \in {"lock", "commit"} => Handling(h, "OrderCreated")
  BY DEF TypeOK, HandlersTypeOK, OrderCreatedLabels
<1>1. ASSUME NEW h \in Instances, NEW m \in inbox, Receive(h, m) PROVE AnnounceStep(i)
  BY <1>0, <1>1 DEF AnnounceStep, Receive
<1>2. ASSUME NEW h \in Instances, HandlerStep(h) PROVE AnnounceStep(i)
  <2>1. CASE IsEventProcessed(h)
    BY <1>0, <2>1 DEF IsEventProcessed, AnnounceStep, Finish
  <2>2. CASE CheckInTransaction(h)
    BY <1>0, <2>2 DEF AnnounceStep, CheckInTransaction, servers, db
  <2>3. CASE CommitReservation(h)
    BY <1>0, <2>3 DEF AnnounceStep, CommitReservation, Reserve
  <2>4. CASE AcquireLock(h) \/ GiveUpLock(h) \/ RollBack(h) \/ EmitOutcome(h) \/ ReleaseLock(h)
    BY <1>0, <2>4 DEF AnnounceStep, AcquireLock, GiveUpLock, RollBack, EmitOutcome,
       ReleaseLock
  <2>5. CASE LocksReleased(h)
    BY <1>0, <2>5 DEF AnnounceStep, LocksReleased, Finish, Throw
  <2>6. CASE FindReserved(h) \/ DropProductLock(h) \/ MarkReleased(h)
    BY <1>0, <2>6 DEF AnnounceStep, FindReserved, DropProductLock, MarkReleased
  <2>7. CASE AnnounceRelease(h) \/ SendToDlq(h)
    BY <1>0, <2>7 DEF AnnounceStep, AnnounceRelease, SendToDlq, Finish
  <2>8. CASE ReleaseReservation(h)
    BY <1>0, <2>8 DEF AnnounceStep, ReleaseReservation
  <2> QED
    BY <1>2, <2>1, <2>2, <2>3, <2>4, <2>5, <2>6, <2>7, <2>8 DEF HandlerStep
<1>3. ASSUME NEW h \in Instances, CallFails(h) PROVE AnnounceStep(i)
  BY <1>0, <1>3 DEF AnnounceStep, CallFails, Throw, Finish
<1>4. ASSUME NEW h \in Instances, Crash(h) PROVE AnnounceStep(i)
  BY <1>0, <1>4 DEF AnnounceStep, Crash, Finish
<1>5. ASSUME UNCHANGED local PROVE AnnounceStep(i)
  BY <1>5 DEF AnnounceStep, local
<1>6. ASSUME NEW j \in Jobs, JobStep(j) \/ JobCallFails(j) \/ JobCrash(j)
      PROVE  AnnounceStep(i)
  BY <1>5, <1>6 DEF JobStep, JobStart, JobScan, JobExpire, JobEnd, JobCallFails,
     JobCrash, notJob
<1>7. ASSUME NEW k \in Keys, LockExpires(k) PROVE AnnounceStep(i)
  BY <1>5, <1>7 DEF LockExpires
<1>8. ASSUME NEW o \in Orders, NEW n \in Copies, ReservationOverdue(o, n)
      PROVE  AnnounceStep(i)
  BY <1>5, <1>8 DEF ReservationOverdue
<1>9. UNCHANGED vars => AnnounceStep(i)
  BY <1>5 DEF vars
<1> QED
  BY <1>1, <1>2, <1>3, <1>4, <1>6, <1>7, <1>8, <1>9, NextCases

\* A StockReserved is of a handler that announces.
EventStep ==
    \A e \in events' : e.type = "StockReserved" =>
        e \in events \/ \E i \in Instances : pc[i] = "announce" /\ e.order = Order(i)

LEMMA EmitSteps ==
    ASSUME NEW i \in Instances, NEW type, Emit(type, msg[i]),
           type = "StockReserved" => pc[i] = "announce"
    PROVE  EventStep
BY DEF Emit, EventStep, Order

LEMMA EventSteps == ASSUME TypeOK, [Next]_vars PROVE EventStep
<1>1. ASSUME UNCHANGED events PROVE EventStep
  BY <1>1 DEF EventStep
<1>2. ASSUME NEW i \in Instances, NEW m \in inbox, Receive(i, m) PROVE EventStep
  BY <1>1, <1>2 DEF Receive, servers
<1>3. ASSUME NEW i \in Instances, HandlerStep(i) PROVE EventStep
  <2>1. CASE EmitOutcome(i)
    BY <2>1, EmitSteps, OutcomeLabels DEF EmitOutcome
  <2>2. CASE AnnounceRelease(i)
    BY <2>2, EmitSteps DEF AnnounceRelease
  <2> QED
    BY <1>1, <1>3, <2>1, <2>2
       DEF HandlerStep, IsEventProcessed, AcquireLock, GiveUpLock, CheckInTransaction,
           CommitReservation, RollBack, ReleaseLock, LocksReleased, FindReserved,
           ReleaseReservation, DropProductLock, MarkReleased, SendToDlq,
           SetLock, DropLock, EmitToDlq, Reserve, Restore, MarkProcessed, servers
<1>4. ASSUME NEW i \in Instances, CallFails(i) PROVE EventStep
  <2>1. \/ UNCHANGED events
        \/ pc[i] \in DOMAIN Outcome /\ Emit(Outcome[pc[i]], msg[i])
        \/ Emit("StockReleased", msg[i])
    BY <1>4 DEF CallFails, Landed, SetLock, DropLock, EmitToDlq, Reserve, Restore,
       MarkProcessed, servers
  <2> QED
    BY <1>1, <2>1, EmitSteps, OutcomeLabels
<1>5. ASSUME NEW i \in Instances, Crash(i) PROVE EventStep
  BY <1>1, <1>5 DEF Crash, servers
<1>6. ASSUME NEW j \in Jobs, JobStep(j) \/ JobCallFails(j) \/ JobCrash(j) PROVE EventStep
  BY <1>1, <1>6 DEF JobStep, JobStart, JobScan, JobExpire, JobEnd, JobCallFails,
     JobCrash, SetLock, DropLock, Restore, servers
<1>7. ASSUME NEW k \in Keys, LockExpires(k) PROVE EventStep
  BY <1>1, <1>7 DEF LockExpires
<1>8. ASSUME NEW o \in Orders, NEW n \in Copies, ReservationOverdue(o, n) PROVE EventStep
  BY <1>1, <1>8 DEF ReservationOverdue, servers
<1>9. UNCHANGED vars => EventStep
  BY <1>1 DEF vars, servers
<1> QED
  BY <1>2, <1>3, <1>4, <1>5, <1>6, <1>7, <1>8, <1>9, NextCases

Backed(o) ==
    \A p \in ProductsOf(o) : \E n \in Copies : reservation[<<o, p, n>>] # "NONE"

AnnouncementInv ==
    /\ \A o \in Orders : Done("OrderCreated", o) => Backed(o)
    /\ \A i \in Instances : pc[i] = "announce" => Done("OrderCreated", Order(i))
    /\ \A e \in events : e.type = "StockReserved" => Done("OrderCreated", e.order)

LEMMA DoneSteps ==
    ASSUME TypeOK, [Next]_vars, NEW o \in Orders,
           <<"OrderCreated", o>> \in processed', <<"OrderCreated", o>> \notin processed
    PROVE  \E i \in Instances : pc[i] = "commit" /\ Reserve(msg[i]) /\ msg[i].order = o
BY DbSteps DEF DbStep, db, Reserve, Restore, MarkProcessed, EventId, Handling

LEMMA AnnouncementStep ==
    ASSUME TypeOK, AnnouncementInv, [Next]_vars
    PROVE  AnnouncementInv'
<1>1. processed \subseteq processed'
  BY DbSteps DEF DbStep, db, Reserve, Restore, MarkProcessed
<1>2. ASSUME NEW o \in Orders, <<"OrderCreated", o>> \in processed' PROVE Backed(o)'
  <2> SUFFICES ASSUME NEW p \in ProductsOf(o)
               PROVE  \E n \in Copies : reservation'[<<o, p, n>>] # "NONE"
    BY DEF Backed, ProductsOf
  <2>1. p \in Products
    BY DEF ProductsOf
  <2>2. CASE <<"OrderCreated", o>> \in processed
    <3>1. PICK n \in Copies : reservation[<<o, p, n>>] # "NONE"
      BY <2>2 DEF AnnouncementInv, Done, Backed
    <3>2. <<o, p, n>> \in Rows
      BY <2>1 DEF Rows
    <3> QED
      BY <3>1, <3>2, RowSteps
  <2>3. CASE <<"OrderCreated", o>> \notin processed
    <3>1. PICK i \in Instances : pc[i] = "commit" /\ Reserve(msg[i]) /\ msg[i].order = o
      BY <1>2, <2>3, DoneSteps
    <3>2. msg[i].copy \in Copies
      BY <3>1, AtLabel, MessageTypes
    <3>3. /\ <<o, p, msg[i].copy>> \in Rows
          /\ <<o, p, msg[i].copy>> \in RowsOf(msg[i].order, msg[i].copy)
      BY <2>1, <3>1, <3>2 DEF Rows, RowsOf
    <3>4. reservation'[<<o, p, msg[i].copy>>] = "RESERVED"
      BY <3>1, <3>3 DEF Reserve
    <3> QED
      BY <3>2, <3>4
  <2> QED
    BY <2>2, <2>3
<1>3. ASSUME NEW i \in Instances, pc'[i] = "announce"
      PROVE  <<"OrderCreated", msg'[i].order>> \in processed'
  BY <1>1, <1>3, AnnounceSteps
     DEF AnnounceStep, AnnouncementInv, Done, Order, EventId, Handling
<1>4. ASSUME NEW e \in events', e.type = "StockReserved"
      PROVE  <<"OrderCreated", e.order>> \in processed'
  BY <1>1, <1>4, EventSteps DEF EventStep, AnnouncementInv, Done, Order
<1> QED
  BY <1>2, <1>3, <1>4 DEF AnnouncementInv, Done, Order

LEMMA AnnouncementInvariant == Spec => []AnnouncementInv
<1>1. Init => AnnouncementInv
  BY DEF Init, AnnouncementInv, Done
<1>2. TypeOK /\ AnnouncementInv /\ [Next]_vars => AnnouncementInv'
  BY AnnouncementStep
<1> QED
  BY <1>1, <1>2, TypeCorrect, PTL DEF Spec

\* StockReserved is only emitted for an order whose every product has a
\* reservation (handleOrderCreated emits after the transaction, and a duplicate
\* found inside the transaction emits again).
THEOREM InventoryReservedIsBacked == Spec => []ReservedIsBacked
<1>1. TypeOK /\ AnnouncementInv => ReservedIsBacked
  <2> SUFFICES ASSUME TypeOK, AnnouncementInv, NEW e \in events, e.type = "StockReserved"
               PROVE  Backed(e.order)
    BY DEF ReservedIsBacked, Backed
  <2>1. e.order \in Orders
    BY DEF TypeOK, ServersTypeOK
  <2> QED
    BY <2>1 DEF AnnouncementInv
<1> QED
  BY <1>1, AnnouncementInvariant, TypeCorrect, PTL
-----------------------------------------------------------------------------
(* Refusals.  While no call fails an OrderCreated handler runs to its end  *)
(* once, so that until it emits, nothing was emitted for its copy.         *)

Refusing == {"productLocked", "outOfStock"}
Undecided == {"check", "lock", "commit"} \cup Refusing
Failing == {"technicalFailure", "unlockThrow"}
Refusals == {"OutOfStock", "ProductLocked"}

About(e, m) == e.order = m.order /\ e.copy = m.copy

Unanswered(es, m) == \A e \in es : About(e, m) => e.type = "StockReleased"

Untouched(rows, o, n) == \A r \in RowsOf(o, n) : rows[r] = "NONE"

RefusalInv ==
    errors = 0 =>
        /\ \A m \in inbox : m.type = "OrderCreated" => Unanswered(events, m)
        /\ \A i \in Instances :
              /\ pc[i] \notin Failing
              /\ Handling(i, "OrderCreated") /\ pc[i] \in Undecided => Unanswered(events, msg[i])
              /\ pc[i] \in Refusing => Untouched(reservation, msg[i].order, msg[i].copy)
              /\ pc[i] = "announce" =>
                    \A e \in events : About(e, msg[i]) => e.type \notin Refusals
        /\ RefusalIsFinal

\* How a handler goes on while no call fails.
SmoothStep(i) ==
    /\ pc'[i] \in Failing => pc[i] \in Failing
    /\ pc'[i] \in Undecided =>
          \/ pc[i] \in Failing
          \/ msg'[i] \in inbox /\ pc'[i] = "check"
          \/ /\ msg'[i] = msg[i] /\ pc[i] \in Undecided
             /\ pc'[i] \in Refusing =>
                   pc[i] = pc'[i] \/ (pc[i] \in Reserving /\ UNCHANGED reservation)
    /\ pc'[i] = "announce" => msg'[i] = msg[i] /\ pc[i] \in {"announce", "lock", "commit"}

LEMMA SmoothSteps ==
    ASSUME TypeOK, [Next]_vars, errors' = errors, NEW i \in Instances
    PROVE  SmoothStep(i)
<1> USE DEF Goto, At, Failing, Undecided, Refusing, Reserving
<1>0. /\ pc \in [Instances -> Labels] /\ msg \in [Instances -> Messages \cup {NoMessage}]
      /\ errors \in Nat
  BY InventoryAssumption DEF TypeOK, HandlersTypeOK
<1>1. ASSUME NEW h \in Instances, NEW m \in inbox, Receive(h, m) PROVE SmoothStep(i)
  BY <1>0, <1>1 DEF SmoothStep, Receive
<1>2. ASSUME NEW h \in Instances, Finish(h) PROVE SmoothStep(i)
  BY <1>0, <1>2 DEF SmoothStep, Finish
<1>3. ASSUME NEW h \in Instances, HandlerStep(h) PROVE SmoothStep(i)
  <2>1. CASE IsEventProcessed(h)
    BY <1>0, <1>2, <2>1 DEF IsEventProcessed, SmoothStep
  <2>2. CASE AcquireLock(h) \/ GiveUpLock(h) \/ CheckInTransaction(h)
    BY <1>0, <2>2 DEF SmoothStep, AcquireLock, GiveUpLock, CheckInTransaction, servers, db
  <2>3. CASE CommitReservation(h) \/ RollBack(h) \/ ReleaseLock(h)
    BY <1>0, <2>3 DEF SmoothStep, CommitReservation, RollBack, ReleaseLock, servers, db
  <2>4. CASE EmitOutcome(h)
    BY <1>0, <2>4, OutcomeLabels DEF SmoothStep, EmitOutcome
  <2>5. CASE LocksReleased(h)
    BY <1>0, <1>2, <2>5 DEF LocksReleased, Throw, SmoothStep
  <2>6. CASE AnnounceRelease(h) \/ SendToDlq(h)
    BY <1>2, <2>6 DEF AnnounceRelease, SendToDlq
  <2>7. CASE \/ FindReserved(h) \/ ReleaseReservation(h) \/ DropProductLock(h)
             \/ MarkReleased(h)
    BY <1>0, <2>7 DEF SmoothStep, FindReserved, ReleaseReservation, DropProductLock,
       MarkReleased
  <2> QED
    BY <1>3, <2>1, <2>2, <2>3, <2>4, <2>5, <2>6, <2>7 DEF HandlerStep
<1>4. ASSUME NEW h \in Instances, CallFails(h) PROVE SmoothStep(i)
  BY <1>0, <1>4 DEF CallFails
<1>5. ASSUME NEW h \in Instances, Crash(h) PROVE SmoothStep(i)
  BY <1>2, <1>5 DEF Crash
<1>6. ASSUME UNCHANGED local PROVE SmoothStep(i)
  BY <1>6 DEF SmoothStep, local
<1>7. ASSUME NEW j \in Jobs, JobStep(j) \/ JobCallFails(j) \/ JobCrash(j)
      PROVE  SmoothStep(i)
  BY <1>6, <1>7 DEF JobStep, JobStart, JobScan, JobExpire, JobEnd, JobCallFails,
     JobCrash, notJob
<1>8. ASSUME NEW k \in Keys, LockExpires(k) PROVE SmoothStep(i)
  BY <1>6, <1>8 DEF LockExpires
<1>9. ASSUME NEW o \in Orders, NEW n \in Copies, ReservationOverdue(o, n)
      PROVE  SmoothStep(i)
  BY <1>6, <1>9 DEF ReservationOverdue
<1>10. UNCHANGED vars => SmoothStep(i)
  BY <1>6 DEF vars
<1> QED
  BY <1>1, <1>3, <1>4, <1>5, <1>7, <1>8, <1>9, <1>10, NextCases

\* While no call fails, an outcome is emitted by the handler that then unlocks.
AnswerStep ==
    \A e \in events' :
        \/ e \in events \/ e.type = "StockReleased"
        \/ \E i \in Instances :
              /\ pc[i] \in DOMAIN Outcome /\ pc'[i] \in {"unlockReturn", "unlockThrow"}
              /\ e = [type |-> Outcome[pc[i]], order |-> msg[i].order, copy |-> msg[i].copy]
              /\ UNCHANGED <<reservation, inbox>>

LEMMA AnswerSteps == ASSUME TypeOK, [Next]_vars, errors' = errors PROVE AnswerStep
<1>0. errors \in Nat /\ pc \in [Instances -> Labels]
  BY InventoryAssumption DEF TypeOK, HandlersTypeOK
<1>1. ASSUME UNCHANGED events PROVE AnswerStep
  BY <1>1 DEF AnswerStep
<1>2. ASSUME NEW i \in Instances, NEW m \in inbox, Receive(i, m) PROVE AnswerStep
  BY <1>1, <1>2 DEF Receive, servers
<1>3. ASSUME NEW i \in Instances, HandlerStep(i) PROVE AnswerStep
  <2>1. CASE EmitOutcome(i)
    BY <1>0, <2>1 DEF EmitOutcome, Emit, AnswerStep, Goto, db, rest
  <2>2. CASE AnnounceRelease(i)
    BY <2>2 DEF AnnounceRelease, Emit, AnswerStep
  <2> QED
    BY <1>1, <1>3, <2>1, <2>2
       DEF HandlerStep, IsEventProcessed, AcquireLock, GiveUpLock, CheckInTransaction,
           CommitReservation, RollBack, ReleaseLock, LocksReleased, FindReserved,
           ReleaseReservation, DropProductLock, MarkReleased, SendToDlq,
           SetLock, DropLock, EmitToDlq, Reserve, Restore, MarkProcessed, servers
<1>4. ASSUME NEW i \in Instances, CallFails(i) PROVE AnswerStep
  BY <1>0, <1>4 DEF CallFails
<1>5. ASSUME NEW i \in Instances, Crash(i) PROVE AnswerStep
  BY <1>1, <1>5 DEF Crash, servers
<1>6. ASSUME NEW j \in Jobs, JobStep(j) \/ JobCallFails(j) \/ JobCrash(j) PROVE AnswerStep
  BY <1>1, <1>6 DEF JobStep, JobStart, JobScan, JobExpire, JobEnd, JobCallFails,
     JobCrash, SetLock, DropLock, Restore, servers
<1>7. ASSUME NEW k \in Keys, LockExpires(k) PROVE AnswerStep
  BY <1>1, <1>7 DEF LockExpires
<1>8. ASSUME NEW o \in Orders, NEW n \in Copies, ReservationOverdue(o, n) PROVE AnswerStep
  BY <1>1, <1>8 DEF ReservationOverdue, servers
<1>9. UNCHANGED vars => AnswerStep
  BY <1>1 DEF vars, servers
<1> QED
  BY <1>2, <1>3, <1>4, <1>5, <1>6, <1>7, <1>8, <1>9, NextCases

\* A copy of OrderCreated that two handlers do not share.
LEMMA HandlersApart ==
    ASSUME TypeOK, RefinementInv, NEW i \in Instances, NEW h \in Instances, i # h,
           Handling(i, "OrderCreated"), Handling(h, "OrderCreated")
    PROVE  /\ msg[i] \in Messages /\ msg[h] \in Messages
           /\ msg[i].order # msg[h].order \/ msg[i].copy # msg[h].copy
<1>1. pc[i] # "idle" /\ pc[h] # "idle" /\ msg[i] \in Messages /\ msg[h] \in Messages
  BY DEF TypeOK, HandlersTypeOK, Handling, NoMessage
<1>2. msg[i] # msg[h]
  BY <1>1 DEF RefinementInv, MessagesApart
<1> QED
  BY <1>1, <1>2 DEF Messages, Handling

\* A copy whose rows nobody inserted, and that no handler is about to reserve
\* for, is left untouched.
LEMMA UntouchedSteps ==
    ASSUME TypeOK, [Next]_vars, NEW o, NEW n, Untouched(reservation, o, n),
           \A h \in Instances :
              pc[h] = "commit" => msg[h].order # o \/ msg[h].copy # n
    PROVE  Untouched(reservation', o, n)
<1> SUFFICES ASSUME NEW r \in RowsOf(o, n) PROVE reservation'[r] = "NONE"
  BY DEF Untouched, RowsOf, Rows, Copies, ProductsOf
<1>1. r \in Rows /\ r[1] = o /\ r[3] = n /\ reservation[r] = "NONE"
  BY DEF Untouched, RowsOf
<1>2. ASSUME NEW h \in Instances, pc[h] = "commit",
             r \in RowsOf(msg[h].order, msg[h].copy)
      PROVE  FALSE
  BY <1>1, <1>2 DEF RowsOf
<1> QED
  BY <1>1, <1>2, RowSteps

LEMMA RefusalStep ==
    ASSUME TypeOK, RefinementInv, RefusalInv, [Next]_vars
    PROVE  RefusalInv'
<1> SUFFICES ASSUME errors' = 0 PROVE RefusalInv'
  BY DEF RefusalInv
<1>0. errors = 0 /\ errors' = errors
  <2>1. errors \in Nat
    BY InventoryAssumption DEF TypeOK
  <2>2. errors' = errors \/ errors' = errors + 1
    <3> DEFINE P == errors' = errors \/ errors' = errors + 1
    <3>1. \A i \in Instances : HandlerStep(i) => P
      BY DEF HandlerStep, IsEventProcessed, AcquireLock, GiveUpLock, CheckInTransaction,
         CommitReservation, RollBack, EmitOutcome, ReleaseLock, LocksReleased,
         FindReserved, ReleaseReservation, DropProductLock, MarkReleased,
         AnnounceRelease, SendToDlq, rest, faults
    <3>2. /\ \A i \in Instances, m \in inbox : Receive(i, m) => P
          /\ \A i \in Instances : CallFails(i) => P
          /\ \A i \in Instances : Crash(i) => P
          /\ \A k \in Keys : LockExpires(k) => P
          /\ \A o \in Orders, n \in Copies : ReservationOverdue(o, n) => P
          /\ UNCHANGED vars => P
      BY DEF Receive, CallFails, Crash, LockExpires, ReservationOverdue, vars, faults
    <3>3. \A j \in Jobs : JobStep(j) \/ JobCallFails(j) \/ JobCrash(j) => P
      BY DEF JobStep, JobStart, JobScan, JobExpire, JobEnd, JobCallFails, JobCrash
    <3> HIDE DEF P
    <3>4. P
      BY <3>1, <3>2, <3>3, NextCases
    <3> QED
      BY <3>4 DEF P
  <2> QED
    BY <2>1, <2>2
<1>1. AnswerStep /\ \A i \in Instances : SmoothStep(i)
  BY <1>0, AnswerSteps, SmoothSteps
<1>2. TypeOK' /\ RefinementInv' /\ inbox' \subseteq inbox
  <2>1. MessagesApart' /\ RowsAreKnown' /\ FreshRows'
    BY MessagesApartStep, RowsAreKnownStep, FreshRowsStep DEF RefinementInv
  <2>2. inbox' \subseteq inbox
    BY MessageSteps DEF MessageStep
  <2> QED
    BY <2>1, <2>2, TypeCorrectStep DEF RefinementInv
<1>3. ASSUME NEW i \in Instances, pc[i] \in {"announce", "commit"} \cup Refusing
      PROVE  Handling(i, "OrderCreated") /\ msg[i] \in Messages
  BY <1>3, AtLabel DEF OrderCreatedLabels, Refusing
\* An answer emitted in this step is of another message.
<1>4. ASSUME NEW m \in Messages, m.type = "OrderCreated", Unanswered(events, m),
             \A h \in Instances :
                pc[h] \in DOMAIN Outcome /\ pc'[h] \in {"unlockReturn", "unlockThrow"}
                   => ~(msg[h].order = m.order /\ msg[h].copy = m.copy)
      PROVE  Unanswered(events', m)
  BY <1>1, <1>4 DEF AnswerStep, Unanswered, About
<1>5. \A h \in Instances : pc[h] \in DOMAIN Outcome => Handling(h, "OrderCreated")
  BY AtLabel, OutcomeLabels DEF OrderCreatedLabels
<1>6. ASSUME NEW m \in inbox, m.type = "OrderCreated" PROVE Unanswered(events', m)
  <2>1. m \in Messages /\ Unanswered(events, m)
    BY <1>0, <1>6 DEF RefusalInv, TypeOK
  <2>2. ASSUME NEW h \in Instances, Handling(h, "OrderCreated")
        PROVE  ~(msg[h].order = m.order /\ msg[h].copy = m.copy)
    <3>1. msg[h] # m /\ msg[h] \in Messages
      BY <2>2 DEF RefinementInv, MessagesApart, TypeOK, HandlersTypeOK, Handling, NoMessage
    <3> QED
      BY <1>6, <2>1, <2>2, <3>1 DEF Messages, Handling
  <2> QED
    BY <1>4, <1>5, <1>6, <2>1, <2>2
<1>7. ASSUME NEW i \in Instances, msg'[i].type = "OrderCreated", pc'[i] \in Undecided
      PROVE  Unanswered(events', msg'[i])
  <2>1. pc[i] \notin Failing
    BY <1>0 DEF RefusalInv
  <2>2. CASE msg'[i] \in inbox
    BY <1>6, <1>7, <2>2
  <2>3. CASE msg'[i] = msg[i] /\ pc[i] \in Undecided
    <3>1. Handling(i, "OrderCreated") /\ Unanswered(events, msg[i])
      BY <1>0, <1>7, <2>3 DEF RefusalInv, Handling
    <3>2. ASSUME NEW h \in Instances, pc[h] \in DOMAIN Outcome,
                 pc'[h] \in {"unlockReturn", "unlockThrow"}
          PROVE  ~(msg[h].order = msg[i].order /\ msg[h].copy = msg[i].copy)
      BY <1>5, <1>7, <3>1, <3>2, HandlersApart DEF Undecided, Refusing
    <3>3. msg[i] \in Messages
      BY <3>1 DEF TypeOK, HandlersTypeOK, Handling, NoMessage
    <3>4. Unanswered(events', msg[i])
      BY <1>4, <3>1, <3>2, <3>3 DEF Handling
    <3> QED
      BY <2>3, <3>4 DEF Unanswered, About
  <2> QED
    BY <1>1, <1>7, <2>1, <2>2, <2>3 DEF SmoothStep
<1>8. ASSUME NEW i \in Instances, pc'[i] \in Refusing
      PROVE  Untouched(reservation', msg'[i].order, msg'[i].copy)
  <2>1. /\ msg'[i] = msg[i]
        /\ pc[i] \in Refusing \/ (pc[i] \in Reserving /\ UNCHANGED reservation)
    <3>1. pc[i] \notin Failing /\ pc'[i] # "check" /\ pc'[i] \in Undecided
      BY <1>0, <1>8 DEF RefusalInv, Refusing, Undecided
    <3> QED
      BY <1>1, <1>8, <3>1 DEF SmoothStep
  <2>2. CASE pc[i] \in Refusing
    <3>1. Untouched(reservation, msg[i].order, msg[i].copy)
      BY <1>0, <2>2 DEF RefusalInv
    <3>2. ASSUME NEW h \in Instances, pc[h] = "commit"
          PROVE  msg[h].order # msg[i].order \/ msg[h].copy # msg[i].copy
      <4>1. h # i
        BY <2>2, <3>2 DEF Refusing
      <4> QED
        BY <1>3, <2>2, <3>2, <4>1, HandlersApart
    <3>3. Untouched(reservation', msg[i].order, msg[i].copy)
      BY <3>1, <3>2, UntouchedSteps DEF Untouched
    <3> QED
      BY <2>1, <3>3 DEF Untouched
  <2>3. CASE pc[i] \in Reserving /\ UNCHANGED reservation
    BY <2>1, <2>3 DEF RefinementInv, FreshRows, Untouched
  <2> QED
    BY <2>1, <2>2, <2>3
<1>9. ASSUME NEW i \in Instances, pc'[i] = "announce", NEW e \in events', About(e, msg'[i])
      PROVE  e.type \notin Refusals
  <2>1. msg'[i] = msg[i] /\ pc[i] \in {"announce", "lock", "commit"}
    BY <1>1, <1>9 DEF SmoothStep
  <2>2. Handling(i, "OrderCreated")
    BY <2>1, AtLabel DEF OrderCreatedLabels
  <2>3. CASE e \in events
    BY <1>0, <1>9, <2>1, <2>2, <2>3 DEF RefusalInv, Unanswered, Undecided, Refusals
  <2>4. CASE e.type = "StockReleased"
    BY <2>4 DEF Refusals
  <2>5. ASSUME NEW h \in Instances, pc[h] \in DOMAIN Outcome,
               pc'[h] \in {"unlockReturn", "unlockThrow"},
               e.order = msg[h].order, e.copy = msg[h].copy
        PROVE  FALSE
    <3>1. h # i /\ Handling(h, "OrderCreated")
      BY <1>5, <1>9, <2>5
    <3> QED
      BY <1>9, <2>1, <2>2, <2>5, <3>1, HandlersApart DEF About
  <2> QED
    BY <1>1, <2>3, <2>4, <2>5 DEF AnswerStep
<1>10. ASSUME NEW e \in events', e.type \in Refusals
       PROVE  /\ Untouched(reservation', e.order, e.copy)
              /\ [e EXCEPT !.type = "StockReserved"] \notin events'
  <2>0. e \in [type : Outcomes \cup {"StockReleased"}, order : Orders, copy : Copies]
    BY <1>2 DEF TypeOK, ServersTypeOK
  <2> DEFINE s == [e EXCEPT !.type = "StockReserved"]
  <2>1. s.type = "StockReserved" /\ s.order = e.order /\ s.copy = e.copy
    BY <2>0
  \* If it was there, no handler of its copy can reserve or announce.
  <2>2. ASSUME e \in events PROVE Untouched(reservation', e.order, e.copy) /\ s \notin events'
    <3>1. Untouched(reservation, e.order, e.copy) /\ s \notin events
      BY <1>0, <1>10, <2>2 DEF RefusalInv, RefusalIsFinal, Untouched, Refusals
    <3>2. ASSUME NEW h \in Instances, pc[h] = "commit"
          PROVE  msg[h].order # e.order \/ msg[h].copy # e.copy
      BY <1>0, <1>3, <1>10, <2>2, <3>2
         DEF RefusalInv, Unanswered, Undecided, About, Refusals
    <3>3. Untouched(reservation', e.order, e.copy)
      BY <3>1, <3>2, UntouchedSteps DEF Untouched
    <3>4. ASSUME NEW h \in Instances, pc[h] \in DOMAIN Outcome,
                 s = [type |-> Outcome[pc[h]], order |-> msg[h].order, copy |-> msg[h].copy]
          PROVE  FALSE
      <4>1. pc[h] = "announce" /\ msg[h].order = e.order /\ msg[h].copy = e.copy
        BY <2>1, <3>4, OutcomeLabels
      <4> QED
        BY <1>0, <1>10, <2>2, <4>1 DEF RefusalInv, About
    <3>5. s \notin events'
      BY <1>1, <2>1, <3>1, <3>4 DEF AnswerStep
    <3> QED
      BY <3>3, <3>5
  \* If it is new, its handler has found out just before.
  <2>3. ASSUME NEW i \in Instances, pc[i] \in DOMAIN Outcome,
               e = [type |-> Outcome[pc[i]], order |-> msg[i].order, copy |-> msg[i].copy],
               UNCHANGED <<reservation, inbox>>
        PROVE  Untouched(reservation', e.order, e.copy) /\ s \notin events'
    <3>1. pc[i] \in Refusing /\ e.order = msg[i].order /\ e.copy = msg[i].copy
      <4>1. e.type = Outcome[pc[i]] /\ e.order = msg[i].order /\ e.copy = msg[i].copy
        BY <2>3
      <4> QED
        BY <1>10, <2>3, <4>1 DEF Outcome, Refusing, Refusals
    <3>2. Untouched(reservation, e.order, e.copy)
      BY <1>0, <3>1 DEF RefusalInv
    <3>3. s \notin events
      BY <1>0, <1>3, <2>1, <3>1 DEF RefusalInv, Unanswered, Undecided, About
    <3>4. ASSUME NEW h \in Instances, pc[h] \in DOMAIN Outcome,
                 s = [type |-> Outcome[pc[h]], order |-> msg[h].order, copy |-> msg[h].copy]
          PROVE  FALSE
      <4>1. pc[h] = "announce" /\ msg[h].order = e.order /\ msg[h].copy = e.copy
        BY <2>1, <3>4, OutcomeLabels
      <4>2. h # i
        BY <3>1, <4>1 DEF Refusing
      <4> QED
        BY <1>3, <3>1, <4>1, <4>2, HandlersApart
    <3>5. s \notin events'
      BY <1>1, <2>1, <3>3, <3>4 DEF AnswerStep
    <3> QED
      BY <2>3, <3>2, <3>5 DEF Untouched
  <2> HIDE DEF s
  <2>4. e.type # "StockReleased"
    BY <1>10 DEF Refusals
  <2>5. Untouched(reservation', e.order, e.copy) /\ s \notin events'
    <3>1. \/ e \in events
          \/ \E i \in Instances :
                /\ pc[i] \in DOMAIN Outcome
                /\ e = [type |-> Outcome[pc[i]], order |-> msg[i].order, copy |-> msg[i].copy]
                /\ UNCHANGED <<reservation, inbox>>
      BY <1>1, <1>10, <2>4 DEF AnswerStep
    <3> QED
      BY <2>2, <2>3, <3>1
  <2> QED
    BY <2>5 DEF s
<1>11. RefusalIsFinal'
  BY <1>10 DEF RefusalIsFinal, Untouched, Refusals
<1>12. ASSUME NEW i \in Instances PROVE pc'[i] \notin Failing
  BY <1>0, <1>1 DEF RefusalInv, SmoothStep
<1> QED
  BY <1>2, <1>6, <1>7, <1>8, <1>9, <1>11, <1>12 DEF RefusalInv, Handling, About

\* While no call fails, a copy of OrderCreated that was refused (OutOfStock,
\* ProductLocked) has reserved nothing and is not told StockReserved later:
\* handleOrderCreated answers a message once.
THEOREM InventoryRefusalIsFinal == Spec => []RefusalIsFinal
<1>1. Init => RefusalInv
  BY DEF Init, RefusalInv, RefusalIsFinal, Unanswered, Failing, Refusing, Undecided
<1>2. TypeOK /\ RefinementInv /\ RefusalInv /\ [Next]_vars => RefusalInv'
  BY RefusalStep
<1>3. RefusalInv => RefusalIsFinal
  BY DEF RefusalInv, RefusalIsFinal
<1> QED
  BY <1>1, <1>2, <1>3, TypeCorrect, RefinementInvariant, PTL DEF Spec
-----------------------------------------------------------------------------
(* Answers.  HandledIsAnswered is not inductive: it has to follow a failed *)
(* call from where it happens to the answer that will be missing for it.   *)

Final == [outcome |-> Outcomes, verdict |-> {"StockReserved"}, release |-> {"StockReleased"}]
Verdicts == Outcomes \ {"TechnicalFailure"}
Heard(es, o, types) == \E e \in es : e.order = o /\ e.type \in types

\* Where a handler is that has marked its event and will give the answer, and
\* where it is when a failed call keeps it from that.
Leading == [outcome |-> {"announce", "technicalFailure"},
            verdict |-> {"announce"},
            release |-> {"announceRelease"}]
Silent == [outcome |-> {"technicalFailure"},
           verdict |-> {"commit", "announce"},
           release |-> {"release", "announceRelease"}]

Coming(k, o) ==
    \E i \in Instances : Handling(i, AnswerTo[k]) /\ Order(i) = o /\ pc[i] \in Leading[k]
Abandoned(type, o) ==
    \E m \in Inbox \ inbox : /\ m.type = type /\ m.order = o /\ m \notin dlq
                             /\ \A i \in Instances : msg[i] # m
Gap(k, o) ==
    /\ ~Told(k, o)
    /\ IF Done(AnswerTo[k], o) THEN ~Coming(k, o) ELSE Abandoned(AnswerTo[k], o)
Gaps == {a \in (DOMAIN AnswerTo) \X Orders : Gap(a[1], a[2])}

\* A handler of an OrderCreated not yet processed that gives an attempt up has
\* had a failed call that no answer is missing for yet.
GivingUp(i) ==
    /\ Handling(i, "OrderCreated")
    /\ pc[i] \in Failing \cup {"dlq"}
    /\ ~Done("OrderCreated", Order(i))
Charges == Gaps \cup {c \in {"attempt"} \X Instances : GivingUp(c[2])}

\* handleOrderCreated returns after it has emitted an outcome, and not the one
\* it throws after.
ReturnsAnswered ==
    \A i \in Instances : pc[i] = "unlockReturn" => Heard(events, Order(i), Verdicts)

AnswerInv ==
    /\ ReturnsAnswered
    /\ crashes = 0 => IsFiniteSet(Charges) /\ Cardinality(Charges) <= errors

LEMMA AnswerKinds ==
    /\ DOMAIN AnswerTo = {"outcome", "verdict", "release"}
    /\ \A k \in DOMAIN AnswerTo : /\ AnswerTo[k] \in {"OrderCreated", "PaymentFailed"}
                                  /\ AnswerTo[k] = "PaymentFailed" <=> k = "release"
    /\ Verdicts \subseteq Outcomes /\ "StockReserved" \in Verdicts
<1>1. "StockReserved" \in Outcomes
  BY OutcomeLabels
<1> QED
  BY <1>1 DEF AnswerTo, Verdicts

\* When an order counts as told.
LEMMA ToldBy ==
    ASSUME NEW k \in DOMAIN AnswerTo, NEW o
    PROVE  /\ Done(AnswerTo[k], o) => (Told(k, o) <=> Heard(events, o, Final[k]))
           /\ AnswerTo[k] = "OrderCreated" /\ ~Done("OrderCreated", o)
                 /\ Heard(events, o, Verdicts) => Told(k, o)
<1>1. CASE k = "outcome"
  BY <1>1, AnswerKinds DEF Told, Answers, Heard, Final, AnswerTo
<1>2. CASE k = "verdict"
  BY <1>2, AnswerKinds DEF Told, Answers, Heard, Final, AnswerTo, Verdicts
<1>3. CASE k = "release"
  BY <1>3, AnswerKinds DEF Told, Answers, Heard, Final, AnswerTo
<1> QED
  BY <1>1, <1>2, <1>3, AnswerKinds

\* Nothing is taken back from Kafka, and faults are only counted up.
OutputsGrow == /\ events \subseteq events' /\ dlq \subseteq dlq'
               /\ errors <= errors' /\ crashes <= crashes'
               /\ errors' \in Nat /\ crashes' \in Nat

LEMMA OutputSteps == ASSUME TypeOK, [Next]_vars PROVE OutputsGrow
<1>0. errors \in Nat /\ crashes \in Nat
  BY InventoryAssumption DEF TypeOK
<1>1. ASSUME UNCHANGED <<events, dlq, faults>> PROVE OutputsGrow
  BY <1>0, <1>1 DEF OutputsGrow, faults
<1>2. ASSUME NEW i \in Instances, NEW m \in inbox, Receive(i, m) PROVE OutputsGrow
  BY <1>1, <1>2 DEF Receive, servers
<1>3. ASSUME NEW i \in Instances, HandlerStep(i) PROVE OutputsGrow
  <2>1. UNCHANGED faults
    BY <1>3 DEF HandlerStep, IsEventProcessed, AcquireLock, GiveUpLock, CheckInTransaction,
       CommitReservation, RollBack, EmitOutcome, ReleaseLock, LocksReleased, FindReserved,
       ReleaseReservation, DropProductLock, MarkReleased, AnnounceRelease, SendToDlq, rest
  <2>2. events \subseteq events' /\ dlq \subseteq dlq'
    BY <1>3 DEF HandlerStep, IsEventProcessed, AcquireLock, GiveUpLock, CheckInTransaction,
       CommitReservation, RollBack, EmitOutcome, ReleaseLock, LocksReleased, FindReserved,
       ReleaseReservation, DropProductLock, MarkReleased, AnnounceRelease, SendToDlq,
       SetLock, DropLock, Emit, EmitToDlq, Reserve, Restore, MarkProcessed, servers
  <2> QED
    BY <1>0, <2>1, <2>2 DEF OutputsGrow, faults
<1>4. ASSUME NEW i \in Instances, CallFails(i) PROVE OutputsGrow
  <2>1. events \subseteq events' /\ dlq \subseteq dlq'
    BY <1>4 DEF CallFails, Landed, SetLock, DropLock, Emit, EmitToDlq, Reserve, Restore,
       MarkProcessed, servers
  <2> QED
    BY <1>0, <1>4, <2>1 DEF CallFails, OutputsGrow
<1>5. ASSUME NEW i \in Instances, Crash(i) PROVE OutputsGrow
  BY <1>0, <1>5 DEF Crash, servers, OutputsGrow
<1>6. ASSUME NEW j \in Jobs, JobStep(j) \/ JobCallFails(j) \/ JobCrash(j) PROVE OutputsGrow
  <2>1. UNCHANGED <<events, dlq>>
    BY <1>6 DEF JobStep, JobStart, JobScan, JobExpire, JobEnd, JobCallFails, JobCrash,
       SetLock, DropLock, Restore, servers
  <2>2. /\ errors' = errors \/ errors' = errors + 1
        /\ crashes' = crashes \/ crashes' = crashes + 1
    BY <1>6 DEF JobStep, JobStart, JobScan, JobExpire, JobEnd, JobCallFails, JobCrash, notJob
  <2> QED
    BY <1>0, <2>1, <2>2 DEF OutputsGrow
<1>7. ASSUME NEW k \in Keys, LockExpires(k) PROVE OutputsGrow
  BY <1>1, <1>7 DEF LockExpires
<1>8. ASSUME NEW o \in Orders, NEW n \in Copies, ReservationOverdue(o, n) PROVE OutputsGrow
  BY <1>1, <1>8 DEF ReservationOverdue, servers
<1>9. UNCHANGED vars => OutputsGrow
  BY <1>1 DEF vars, servers
<1> QED
  BY <1>2, <1>3, <1>4, <1>5, <1>6, <1>7, <1>8, <1>9, NextCases

\* A handler comes to fail, and to return, from where it may.
FailStep(i) ==
    pc'[i] \in Failing \cup {"dlq"} =>
        /\ msg'[i] = msg[i]
        /\ pc[i] \in Failing \cup {"dlq"} \/ CallFails(i)
ReturnStep(i) ==
    pc'[i] = "unlockReturn" =>
        /\ msg'[i] = msg[i]
        /\ pc[i] = "unlockReturn" \/ Heard(events', msg[i].order, Verdicts)

LEMMA LeavingSteps ==
    ASSUME TypeOK, [Next]_vars, NEW i \in Instances
    PROVE  FailStep(i) /\ ReturnStep(i)
<1> USE DEF Goto, At, Failing
<1> DEFINE P == FailStep(i) /\ ReturnStep(i)
<1>0. pc \in [Instances -> Labels] /\ msg \in [Instances -> Messages \cup {NoMessage}]
  BY DEF TypeOK, HandlersTypeOK
<1>1. ASSUME NEW h \in Instances, NEW m \in inbox, Receive(h, m) PROVE P
  BY <1>0, <1>1 DEF FailStep, ReturnStep, Receive
<1>2. ASSUME NEW h \in Instances, Finish(h) PROVE P
  BY <1>0, <1>2 DEF FailStep, ReturnStep, Finish
<1>3. ASSUME NEW h \in Instances, HandlerStep(h) PROVE P
  <2>1. CASE IsEventProcessed(h)
    BY <1>0, <1>2, <2>1 DEF IsEventProcessed, FailStep, ReturnStep
  <2>2. CASE AcquireLock(h) \/ GiveUpLock(h) \/ CheckInTransaction(h)
    BY <1>0, <2>2 DEF FailStep, ReturnStep, AcquireLock, GiveUpLock, CheckInTransaction
  <2>3. CASE CommitReservation(h) \/ RollBack(h) \/ ReleaseLock(h)
    BY <1>0, <2>3 DEF FailStep, ReturnStep, CommitReservation, RollBack, ReleaseLock
  <2>4. CASE EmitOutcome(h)
    <3>1. pc[h] \in DOMAIN Outcome /\ Outcome[pc[h]] \in Outcomes /\ msg' = msg
          /\ pc' = [pc EXCEPT ![h] = IF pc[h] = "technicalFailure" THEN "unlockThrow"
                                     ELSE "unlockReturn"]
      BY <2>4, OutcomeLabels DEF EmitOutcome
    <3>2. FailStep(i)
      BY <1>0, <3>1 DEF FailStep
    <3>3. ASSUME pc[h] # "technicalFailure" PROVE Heard(events', msg[h].order, Verdicts)
      <4> DEFINE e == [type |-> Outcome[pc[h]], order |-> msg[h].order, copy |-> msg[h].copy]
      <4>1. e \in events' /\ e.order = msg[h].order /\ e.type = Outcome[pc[h]]
        BY <2>4 DEF EmitOutcome, Emit
      <4>2. Outcome[pc[h]] \in Verdicts
        BY <3>1, <3>3 DEF Outcome, Outcomes, Verdicts
      <4> QED
        BY <4>1, <4>2 DEF Heard
    <3>4. ReturnStep(i)
      BY <1>0, <3>1, <3>3 DEF ReturnStep
    <3> QED
      BY <3>2, <3>4
  <2>5. CASE LocksReleased(h)
    BY <1>0, <1>2, <2>5 DEF LocksReleased, Throw, FailStep, ReturnStep
  <2>6. CASE AnnounceRelease(h) \/ SendToDlq(h)
    BY <1>2, <2>6 DEF AnnounceRelease, SendToDlq
  <2>7. CASE \/ FindReserved(h) \/ ReleaseReservation(h) \/ DropProductLock(h)
             \/ MarkReleased(h)
    BY <1>0, <2>7 DEF FailStep, ReturnStep, FindReserved, ReleaseReservation,
       DropProductLock, MarkReleased
  <2> QED
    BY <1>3, <2>1, <2>2, <2>3, <2>4, <2>5, <2>6, <2>7 DEF HandlerStep
<1>4. ASSUME NEW h \in Instances, CallFails(h) PROVE P
  <2>1. FailStep(i)
    BY <1>0, <1>4 DEF CallFails, FailStep, Throw, Finish
  <2>2. ReturnStep(i)
    BY <1>0, <1>4 DEF CallFails, ReturnStep, Throw, Finish
  <2> QED
    BY <2>1, <2>2
<1>5. ASSUME NEW h \in Instances, Crash(h) PROVE P
  BY <1>2, <1>5 DEF Crash
<1>6. ASSUME UNCHANGED local PROVE P
  BY <1>6 DEF FailStep, ReturnStep, local
<1>7. ASSUME NEW j \in Jobs, JobStep(j) \/ JobCallFails(j) \/ JobCrash(j) PROVE P
  BY <1>6, <1>7 DEF JobStep, JobStart, JobScan, JobExpire, JobEnd, JobCallFails,
     JobCrash, notJob
<1>8. ASSUME NEW k \in Keys, LockExpires(k) PROVE P
  BY <1>6, <1>8 DEF LockExpires
<1>9. ASSUME NEW o \in Orders, NEW n \in Copies, ReservationOverdue(o, n) PROVE P
  BY <1>6, <1>9 DEF ReservationOverdue
<1>10. UNCHANGED vars => P
  BY <1>6 DEF vars
<1> HIDE DEF P
<1>11. P
  BY <1>1, <1>3, <1>4, <1>5, <1>7, <1>8, <1>9, <1>10, NextCases
<1> QED
  BY <1>11 DEF P

\* Of a failed call one handler knows.
LEMMA OneFails ==
    ASSUME TypeOK, NEW i \in Instances, NEW h \in Instances, CallFails(i), CallFails(h)
    PROVE  i = h
<1> SUFFICES ASSUME i # h PROVE FALSE
  OBVIOUS
<1> USE DEF Goto, At
<1>0. /\ pc \in [Instances -> Labels] /\ attempt \in [Instances -> 1..MaxAttempts]
      /\ MaxAttempts \in Nat
  BY InventoryAssumption DEF TypeOK, HandlersTypeOK
<1>1. pc'[i] = pc[i] /\ attempt'[i] = attempt[i]
  BY <1>0 DEF CallFails, Throw, Finish
<1>2. pc'[i] # pc[i] \/ attempt'[i] # attempt[i]
  BY <1>0 DEF CallFails, Throw, Finish
<1> QED
  BY <1>1, <1>2

\* What becomes of a message at work whose event is not processed: its handler
\* keeps it until it is answered, in the DLQ, or the call to the DLQ failed.
KeepStep(i) ==
    \/ msg'[i] = msg[i]
    \/ msg[i] \in dlq'
    \/ pc[i] = "unlockReturn"
    \/ msg[i].type = "PaymentFailed" /\ Heard(events', msg[i].order, {"StockReleased"})
    \/ pc[i] = "dlq" /\ CallFails(i)

LEMMA KeepSteps ==
    ASSUME TypeOK, [Next]_vars, NEW i \in Instances, pc[i] # "idle", crashes' = 0,
           ~Done(msg[i].type, msg[i].order)
    PROVE  KeepStep(i)
<1> USE DEF Goto, At
<1>0. /\ pc \in [Instances -> Labels] /\ msg \in [Instances -> Messages \cup {NoMessage}]
      /\ crashes \in Nat /\ msg[i] \in Messages
  BY AtLabel, InventoryAssumption DEF TypeOK, HandlersTypeOK
<1>1. ASSUME msg'[i] = msg[i] PROVE KeepStep(i)
  BY <1>1 DEF KeepStep
<1>2. ASSUME NEW h \in Instances, NEW m \in inbox, Receive(h, m) PROVE KeepStep(i)
  BY <1>0, <1>1, <1>2 DEF Receive
<1>3. ASSUME NEW h \in Instances, HandlerStep(h), h # i PROVE KeepStep(i)
  BY <1>0, <1>1, <1>3 DEF HandlerStep, IsEventProcessed, AcquireLock, GiveUpLock,
     CheckInTransaction, CommitReservation, RollBack, EmitOutcome, ReleaseLock, LocksReleased,
     FindReserved, ReleaseReservation, DropProductLock, MarkReleased, AnnounceRelease,
     SendToDlq, Finish, Throw
<1>4. ASSUME HandlerStep(i) PROVE KeepStep(i)
  <2>1. CASE IsEventProcessed(i)
    <3>1. EventId(msg[i]) \notin processed
      BY <1>0, MessageTypes DEF Done
    <3> QED
      BY <1>1, <2>1, <3>1 DEF IsEventProcessed
  <2>2. CASE LocksReleased(i)
    BY <1>1, <2>2 DEF LocksReleased, Throw, KeepStep
  <2>3. CASE AnnounceRelease(i)
    <3> DEFINE e == [type |-> "StockReleased", order |-> msg[i].order, copy |-> msg[i].copy]
    <3>1. e \in events' /\ e.order = msg[i].order /\ e.type = "StockReleased"
      BY <2>3 DEF AnnounceRelease, Emit
    <3>2. msg[i].type = "PaymentFailed"
      BY <2>3, AtLabel DEF AnnounceRelease, PaymentFailedLabels, Handling
    <3> QED
      BY <3>1, <3>2 DEF KeepStep, Heard
  <2>4. CASE SendToDlq(i)
    BY <2>4 DEF SendToDlq, EmitToDlq, KeepStep
  <2> QED
    BY <1>1, <1>4, <2>1, <2>2, <2>3, <2>4 DEF HandlerStep, AcquireLock, GiveUpLock,
       CheckInTransaction, CommitReservation, RollBack, EmitOutcome, ReleaseLock,
       FindReserved, ReleaseReservation, DropProductLock, MarkReleased
<1>5. ASSUME NEW h \in Instances, CallFails(h), h # i PROVE KeepStep(i)
  BY <1>0, <1>1, <1>5 DEF CallFails, Finish, Throw
<1>6. ASSUME CallFails(i) PROVE KeepStep(i)
  BY <1>1, <1>6 DEF CallFails, Throw, KeepStep
<1>7. \A h \in Instances : ~Crash(h)
  BY <1>0 DEF Crash
<1>8. ASSUME UNCHANGED local PROVE KeepStep(i)
  BY <1>1, <1>8 DEF local
<1>9. ASSUME NEW j \in Jobs, JobStep(j) \/ JobCallFails(j) \/ JobCrash(j) PROVE KeepStep(i)
  BY <1>8, <1>9 DEF JobStep, JobStart, JobScan, JobExpire, JobEnd, JobCallFails,
     JobCrash, notJob
<1>10. ASSUME NEW k \in Keys, LockExpires(k) PROVE KeepStep(i)
  BY <1>8, <1>10 DEF LockExpires
<1>11. ASSUME NEW o \in Orders, NEW n \in Copies, ReservationOverdue(o, n) PROVE KeepStep(i)
  BY <1>8, <1>11 DEF ReservationOverdue
<1>12. UNCHANGED vars => KeepStep(i)
  BY <1>8 DEF vars
<1>13. \A h \in Instances : HandlerStep(h) => KeepStep(i)
  BY <1>3, <1>4
<1>14. \A h \in Instances : CallFails(h) => KeepStep(i)
  BY <1>5, <1>6
<1> QED
  BY <1>2, <1>7, <1>9, <1>10, <1>11, <1>12, <1>13, <1>14, NextCases

\* A handler that is about to answer does, or goes on, unless its call fails.
LeadStep(i, k) ==
    \/ msg'[i] = msg[i] /\ pc'[i] \in Leading[k]
    \/ Heard(events', msg[i].order, Final[k])
    \/ pc[i] \in Silent[k] /\ CallFails(i)

LEMMA LeadSteps ==
    ASSUME TypeOK, [Next]_vars, crashes' = 0, NEW i \in Instances, NEW k \in DOMAIN AnswerTo,
           pc[i] \in Leading[k]
    PROVE  LeadStep(i, k)
<1> USE DEF Goto, At
<1>0. /\ pc \in [Instances -> Labels] /\ msg \in [Instances -> Messages \cup {NoMessage}]
      /\ crashes \in Nat
  BY InventoryAssumption DEF TypeOK, HandlersTypeOK
<1>01. /\ \/ k = "outcome" /\ pc[i] \in {"announce", "technicalFailure"}
          \/ k = "verdict" /\ pc[i] = "announce"
          \/ k = "release" /\ pc[i] = "announceRelease"
       /\ k = "release" <=> pc[i] = "announceRelease"
       /\ pc[i] # "idle"
  BY AnswerKinds DEF Leading
<1>1. ASSUME pc'[i] = pc[i] /\ msg'[i] = msg[i] PROVE LeadStep(i, k)
  BY <1>1 DEF LeadStep
<1>2. ASSUME NEW h \in Instances, NEW m \in inbox, Receive(h, m) PROVE LeadStep(i, k)
  BY <1>0, <1>01, <1>1, <1>2 DEF Receive
<1>3. ASSUME NEW h \in Instances, HandlerStep(h), h # i PROVE LeadStep(i, k)
  BY <1>0, <1>1, <1>3 DEF HandlerStep, IsEventProcessed, AcquireLock, GiveUpLock,
     CheckInTransaction, CommitReservation, RollBack, EmitOutcome, ReleaseLock, LocksReleased,
     FindReserved, ReleaseReservation, DropProductLock, MarkReleased, AnnounceRelease,
     SendToDlq, Finish, Throw
<1>4. ASSUME HandlerStep(i) PROVE LeadStep(i, k)
  <2>1. CASE EmitOutcome(i)
    <3> DEFINE e == [type |-> Outcome[pc[i]], order |-> msg[i].order, copy |-> msg[i].copy]
    <3>1. e \in events' /\ e.order = msg[i].order /\ e.type = Outcome[pc[i]]
      BY <2>1 DEF EmitOutcome, Emit
    <3>2. pc[i] \in DOMAIN Outcome /\ pc[i] # "announceRelease"
      BY <2>1, OutcomeLabels DEF EmitOutcome
    <3>3. Outcome[pc[i]] \in Final[k]
      BY <1>01, <3>2, OutcomeLabels DEF Final
    <3> QED
      BY <3>1, <3>3 DEF LeadStep, Heard
  <2>2. CASE AnnounceRelease(i)
    <3> DEFINE e == [type |-> "StockReleased", order |-> msg[i].order, copy |-> msg[i].copy]
    <3>1. e \in events' /\ e.order = msg[i].order /\ e.type = "StockReleased"
      BY <2>2 DEF AnnounceRelease, Emit
    <3>2. k = "release"
      BY <1>01, <2>2 DEF AnnounceRelease
    <3> QED
      BY <3>1, <3>2 DEF LeadStep, Heard, Final
  <2> QED
    BY <1>01, <1>4, <2>1, <2>2 DEF HandlerStep, IsEventProcessed, AcquireLock, GiveUpLock,
       CheckInTransaction, CommitReservation, RollBack, ReleaseLock, LocksReleased,
       FindReserved, ReleaseReservation, DropProductLock, MarkReleased, SendToDlq
<1>5. ASSUME NEW h \in Instances, CallFails(h), h # i PROVE LeadStep(i, k)
  BY <1>0, <1>1, <1>5 DEF CallFails, Finish, Throw
<1>6. ASSUME CallFails(i) PROVE LeadStep(i, k)
  <2>1. CASE k = "outcome" /\ pc[i] = "announce"
    <3>1. pc'[i] = "technicalFailure" /\ msg'[i] = msg[i]
      BY <1>0, <1>6, <2>1 DEF CallFails
    <3> QED
      BY <2>1, <3>1 DEF LeadStep, Leading
  <2> QED
    BY <1>01, <1>6, <2>1 DEF LeadStep, Silent
<1>7. \A h \in Instances : ~Crash(h)
  BY <1>0 DEF Crash
<1>8. ASSUME UNCHANGED local PROVE LeadStep(i, k)
  BY <1>1, <1>8 DEF local
<1>9. ASSUME NEW j \in Jobs, JobStep(j) \/ JobCallFails(j) \/ JobCrash(j) PROVE LeadStep(i, k)
  BY <1>8, <1>9 DEF JobStep, JobStart, JobScan, JobExpire, JobEnd, JobCallFails,
     JobCrash, notJob
<1>10. ASSUME NEW q \in Keys, LockExpires(q) PROVE LeadStep(i, k)
  BY <1>8, <1>10 DEF LockExpires
<1>11. ASSUME NEW o \in Orders, NEW n \in Copies, ReservationOverdue(o, n) PROVE LeadStep(i, k)
  BY <1>8, <1>11 DEF ReservationOverdue
<1>12. UNCHANGED vars => LeadStep(i, k)
  BY <1>8 DEF vars
<1>13. \A h \in Instances : HandlerStep(h) => LeadStep(i, k)
  BY <1>3, <1>4
<1>14. \A h \in Instances : CallFails(h) => LeadStep(i, k)
  BY <1>5, <1>6
<1> QED
  BY <1>2, <1>7, <1>9, <1>10, <1>11, <1>12, <1>13, <1>14, NextCases

\* Whoever marks an event processed is about to answer it, or fails to.
MarkedBy(i, k) ==
    \/ pc'[i] \in Leading[k]
    \/ pc[i] \in Silent[k] /\ CallFails(i)
MarkingStep(type, o) ==
    <<type, o>> \in processed' =>
        \/ <<type, o>> \in processed
        \/ \E i \in Instances :
              /\ pc[i] # "idle" /\ msg' = msg /\ msg[i].type = type /\ msg[i].order = o
              /\ \A k \in DOMAIN AnswerTo : AnswerTo[k] = type => MarkedBy(i, k)

LEMMA MarkingSteps ==
    ASSUME TypeOK, [Next]_vars, NEW type, NEW o
    PROVE  MarkingStep(type, o)
<1> USE DEF Goto, At
<1>0. pc \in [Instances -> Labels]
  BY DEF TypeOK, HandlersTypeOK
<1>1. ASSUME UNCHANGED processed PROVE MarkingStep(type, o)
  BY <1>1 DEF MarkingStep
<1>2. ASSUME NEW i \in Instances, msg' = msg, processed' = processed \cup {EventId(msg[i])},
             pc[i] # "idle",
             \A k \in DOMAIN AnswerTo : AnswerTo[k] = msg[i].type => MarkedBy(i, k)
      PROVE  MarkingStep(type, o)
  <2>1. EventId(msg[i]) = <<msg[i].type, msg[i].order>>
    BY <1>2, AtLabel, MessageTypes
  <2> QED
    BY <1>2, <2>1 DEF MarkingStep
<1>3. ASSUME NEW i \in Instances, NEW m \in inbox, Receive(i, m) PROVE MarkingStep(type, o)
  BY <1>1, <1>3 DEF Receive, servers, db
<1>4. ASSUME NEW i \in Instances, HandlerStep(i) PROVE MarkingStep(type, o)
  <2>1. CASE CommitReservation(i)
    <3>1. pc'[i] = "announce" /\ msg' = msg /\ pc[i] = "commit"
          /\ processed' = processed \cup {EventId(msg[i])}
      BY <1>0, <2>1 DEF CommitReservation, Reserve
    <3>2. msg[i].type = "OrderCreated"
      BY <3>1, AtLabel DEF OrderCreatedLabels, Handling
    <3>3. \A k \in DOMAIN AnswerTo : AnswerTo[k] = msg[i].type => MarkedBy(i, k)
      BY <3>1, <3>2, AnswerKinds DEF MarkedBy, Leading
    <3> QED
      BY <1>2, <3>1, <3>3
  <2>2. CASE MarkReleased(i)
    <3>1. pc'[i] = "announceRelease" /\ msg' = msg /\ pc[i] = "release"
          /\ processed' = processed \cup {EventId(msg[i])}
      BY <1>0, <2>2 DEF MarkReleased, MarkProcessed
    <3>2. msg[i].type = "PaymentFailed"
      BY <3>1, AtLabel DEF PaymentFailedLabels, Handling
    <3>3. \A k \in DOMAIN AnswerTo : AnswerTo[k] = msg[i].type => MarkedBy(i, k)
      BY <3>1, <3>2, AnswerKinds DEF MarkedBy, Leading
    <3> QED
      BY <1>2, <3>1, <3>3
  <2> QED
    BY <1>1, <1>4, <2>1, <2>2 DEF HandlerStep, IsEventProcessed, AcquireLock, GiveUpLock,
       CheckInTransaction, RollBack, EmitOutcome, ReleaseLock, LocksReleased, FindReserved,
       ReleaseReservation, DropProductLock, AnnounceRelease, SendToDlq,
       SetLock, DropLock, Emit, EmitToDlq, Restore, servers, db
<1>5. ASSUME NEW i \in Instances, CallFails(i) PROVE MarkingStep(type, o)
  <2>1. CASE pc[i] = "commit" /\ Reserve(msg[i])
    <3>1. pc'[i] = "technicalFailure" /\ msg' = msg
          /\ processed' = processed \cup {EventId(msg[i])}
      BY <1>0, <1>5, <2>1 DEF CallFails, Reserve
    <3>2. msg[i].type = "OrderCreated"
      BY <2>1, AtLabel DEF OrderCreatedLabels, Handling
    <3>3. \A k \in DOMAIN AnswerTo : AnswerTo[k] = msg[i].type => MarkedBy(i, k)
      BY <1>5, <2>1, <3>1, <3>2, AnswerKinds DEF MarkedBy, Leading, Silent
    <3> QED
      BY <1>2, <2>1, <3>1, <3>3
  <2>2. CASE pc[i] = "release" /\ MarkProcessed(msg[i])
    <3>1. msg' = msg /\ processed' = processed \cup {EventId(msg[i])}
      BY <1>5, <2>2 DEF CallFails, Throw, MarkProcessed
    <3>2. msg[i].type = "PaymentFailed"
      BY <2>2, AtLabel DEF PaymentFailedLabels, Handling
    <3>3. \A k \in DOMAIN AnswerTo : AnswerTo[k] = msg[i].type => MarkedBy(i, k)
      BY <1>5, <2>2, <3>2, AnswerKinds DEF MarkedBy, Silent
    <3> QED
      BY <1>2, <2>2, <3>1, <3>3
  <2> QED
    BY <1>1, <1>5, <2>1, <2>2 DEF CallFails, Landed, SetLock, DropLock, Emit, EmitToDlq,
       Restore, servers, db
<1>6. ASSUME NEW i \in Instances, Crash(i) PROVE MarkingStep(type, o)
  BY <1>1, <1>6 DEF Crash, servers, db
<1>7. ASSUME NEW j \in Jobs, JobStep(j) \/ JobCallFails(j) \/ JobCrash(j)
      PROVE  MarkingStep(type, o)
  BY <1>1, <1>7 DEF JobStep, JobStart, JobScan, JobExpire, JobEnd, JobCallFails,
     JobCrash, SetLock, DropLock, Restore, servers, db
<1>8. ASSUME NEW k \in Keys, LockExpires(k) PROVE MarkingStep(type, o)
  BY <1>1, <1>8 DEF LockExpires, db
<1>9. ASSUME NEW q \in Orders, NEW n \in Copies, ReservationOverdue(q, n)
      PROVE  MarkingStep(type, o)
  BY <1>1, <1>9 DEF ReservationOverdue, servers, db
<1>10. UNCHANGED vars => MarkingStep(type, o)
  BY <1>1 DEF vars, servers, db
<1> QED
  BY <1>3, <1>4, <1>5, <1>6, <1>7, <1>8, <1>9, <1>10, NextCases

LEMMA ProcessedGrows == ASSUME TypeOK, [Next]_vars PROVE processed \subseteq processed'
<1>1. ASSUME UNCHANGED processed PROVE processed \subseteq processed'
  BY <1>1
<1>2. \A i \in Instances, m \in inbox : Receive(i, m) => processed \subseteq processed'
  BY <1>1 DEF Receive, servers, db
<1>3. \A i \in Instances : HandlerStep(i) => processed \subseteq processed'
  BY <1>1 DEF HandlerStep, IsEventProcessed, AcquireLock, GiveUpLock, CheckInTransaction,
     CommitReservation, RollBack, EmitOutcome, ReleaseLock, LocksReleased, FindReserved,
     ReleaseReservation, DropProductLock, MarkReleased, AnnounceRelease, SendToDlq,
     SetLock, DropLock, Emit, EmitToDlq, Reserve, Restore, MarkProcessed, servers, db
<1>4. \A i \in Instances : CallFails(i) => processed \subseteq processed'
  BY <1>1 DEF CallFails, Landed, SetLock, DropLock, Emit, EmitToDlq, Reserve, Restore,
     MarkProcessed, servers, db
<1>5. \A i \in Instances : Crash(i) => processed \subseteq processed'
  BY <1>1 DEF Crash, servers, db
<1>6. \A j \in Jobs : JobStep(j) \/ JobCallFails(j) \/ JobCrash(j)
                         => processed \subseteq processed'
  BY <1>1 DEF JobStep, JobStart, JobScan, JobExpire, JobEnd, JobCallFails, JobCrash,
     SetLock, DropLock, Restore, servers, db
<1>7. /\ \A k \in Keys : LockExpires(k) => processed \subseteq processed'
      /\ \A o \in Orders, n \in Copies :
            ReservationOverdue(o, n) => processed \subseteq processed'
      /\ UNCHANGED vars => processed \subseteq processed'
  BY <1>1 DEF LockExpires, ReservationOverdue, vars, servers, db
<1> QED
  BY <1>2, <1>3, <1>4, <1>5, <1>6, <1>7, NextCases

\* An answer that comes to be missing is one whose handler's call has failed.
Costs(i, k, o) ==
    /\ CallFails(i) /\ msg[i].type = AnswerTo[k] /\ msg[i].order = o
    /\ \/ pc[i] \in Silent[k] /\ <<AnswerTo[k], o>> \in processed'
       \/ pc[i] = "dlq" /\ <<AnswerTo[k], o>> \notin processed

LEMMA GapSteps ==
    ASSUME TypeOK, ReturnsAnswered, [Next]_vars, crashes' = 0,
           NEW k \in DOMAIN AnswerTo, NEW o \in Orders, Gap(k, o)', ~Gap(k, o)
    PROVE  \E i \in Instances : Costs(i, k, o)
<1> DEFINE type == AnswerTo[k]
<1>0. /\ OutputsGrow /\ MessageStep /\ processed \subseteq processed'
      /\ inbox \subseteq Messages /\ Inbox \subseteq Messages
      /\ msg \in [Instances -> Messages \cup {NoMessage}]
      /\ type \in {"OrderCreated", "PaymentFailed"}
  BY OutputSteps, MessageSteps, ProcessedGrows, AnswerKinds, InventoryAssumption
     DEF TypeOK, HandlersTypeOK
<1>1. /\ ~Told(k, o)'
      /\ Done(type, o)' => ~Coming(k, o)'
      /\ ~Done(type, o)' => Abandoned(type, o)'
  BY DEF Gap
<1>2. CASE <<type, o>> \in processed
  <2>1. Done(type, o) /\ Done(type, o)'
    BY <1>0, <1>2 DEF Done
  <2>2. ~Heard(events', o, Final[k])
    <3>1. Done(type, o)' => (Told(k, o)' <=> Heard(events', o, Final[k]))
      BY AnswerKinds DEF Told, Answers, Heard, Final, AnswerTo
    <3> QED
      BY <1>1, <2>1, <3>1
  <2>3. ~Told(k, o)
    BY <1>0, <2>1, <2>2, ToldBy DEF Heard, OutputsGrow
  <2>4. PICK i \in Instances : Handling(i, type) /\ Order(i) = o /\ pc[i] \in Leading[k]
    BY <2>1, <2>3 DEF Gap, Coming
  <2>5. LeadStep(i, k) /\ msg[i].type = type /\ msg[i].order = o
    BY <2>4, LeadSteps DEF Handling, Order
  <2>6. ~(msg'[i] = msg[i] /\ pc'[i] \in Leading[k])
    BY <1>1, <2>1, <2>5 DEF Coming, Handling, Order
  <2>7. pc[i] \in Silent[k] /\ CallFails(i)
    BY <2>2, <2>5, <2>6 DEF LeadStep
  <2> QED
    BY <1>0, <1>2, <2>5, <2>7 DEF Costs
<1>3. CASE <<type, o>> \notin processed /\ <<type, o>> \in processed'
  <2>1. MarkingStep(type, o)
    BY MarkingSteps
  <2>2. PICK i \in Instances :
           /\ msg' = msg /\ msg[i].type = type /\ msg[i].order = o /\ MarkedBy(i, k)
    BY <1>3, <2>1 DEF MarkingStep
  <2>3. pc'[i] \notin Leading[k]
    BY <1>1, <1>3, <2>2 DEF Coming, Handling, Order, Done
  <2> QED
    BY <1>3, <2>2, <2>3 DEF MarkedBy, Costs
<1>4. CASE <<type, o>> \notin processed'
  <2>1. ~Done(type, o) /\ ~Done(type, o)'
    BY <1>0, <1>4 DEF Done
  <2>2. PICK m \in Inbox : /\ m \notin inbox' /\ m.type = type /\ m.order = o /\ m \notin dlq'
                           /\ \A i \in Instances : msg'[i] # m
    BY <1>1, <2>1 DEF Abandoned
  <2>3. m \in Messages /\ m \notin dlq /\ m \notin inbox
    BY <1>0, <2>2 DEF OutputsGrow, MessageStep
  <2>4. Told(k, o) => Told(k, o)'
    BY <1>0, <2>1 DEF Told, Answers, OutputsGrow, Done, AnswerTo
  <2>5. PICK i \in Instances : msg[i] = m
    BY <1>1, <2>1, <2>2, <2>3, <2>4 DEF Gap, Abandoned
  <2>6. pc[i] # "idle"
    BY <2>3, <2>5, MessageTypes DEF TypeOK, HandlersTypeOK
  <2>7. KeepStep(i)
    BY <2>1, <2>2, <2>5, <2>6, KeepSteps
  <2>8. ASSUME pc[i] = "unlockReturn" PROVE FALSE
    <3>1. type = "OrderCreated" /\ Heard(events, o, Verdicts)
      BY <2>2, <2>5, <2>8, AtLabel DEF OrderCreatedLabels, Handling, ReturnsAnswered, Order
    <3>2. Told(k, o)
      BY <2>1, <3>1, ToldBy
    <3> QED
      BY <1>1, <2>4, <3>2
  <2>9. ASSUME type = "PaymentFailed", Heard(events', o, {"StockReleased"}) PROVE FALSE
    <3>1. k = "release"
      BY <2>9, AnswerKinds
    <3>2. Told(k, o)'
      BY <2>9, <3>1 DEF Told, Answers, Heard
    <3> QED
      BY <1>1, <3>2
  <2>10. pc[i] = "dlq" /\ CallFails(i)
    BY <2>2, <2>5, <2>7, <2>8, <2>9 DEF KeepStep
  <2> QED
    BY <1>0, <1>4, <2>2, <2>5, <2>10 DEF Costs
<1> QED
  BY <1>2, <1>3, <1>4

\* Who gives an attempt up has a call that just failed.
LEMMA GivingUpStep ==
    ASSUME TypeOK, [Next]_vars, NEW i \in Instances, GivingUp(i)', ~GivingUp(i)
    PROVE  CallFails(i) /\ msg'[i] = msg[i]
<1>1. /\ pc'[i] \in Failing \cup {"dlq"} /\ msg'[i].type = "OrderCreated"
      /\ <<"OrderCreated", msg'[i].order>> \notin processed'
  BY DEF GivingUp, Handling, Order, Done
<1>2. FailStep(i) /\ processed \subseteq processed'
  BY LeavingSteps, ProcessedGrows
<1>3. msg'[i] = msg[i]
  BY <1>1, <1>2 DEF FailStep
<1>4. pc[i] \notin Failing \cup {"dlq"}
  BY <1>1, <1>2, <1>3 DEF GivingUp, Handling, Order, Done
<1> QED
  BY <1>1, <1>2, <1>3, <1>4 DEF FailStep

\* A step charges nothing, or a failed call for one thing, or a failed emitToDlq
\* next to what the attempt had been charged for already.
ChargeStep ==
    \/ Charges' \subseteq Charges
    \/ /\ errors' = errors + 1
       /\ \E x : Charges' \subseteq Charges \cup {x}
    \/ /\ errors' = errors + 1
       /\ \E x, y : \E b \in Charges : Charges' \subseteq ((Charges \ {b}) \cup {x}) \cup {y}

LEMMA NewCharges ==
    ASSUME TypeOK, ReturnsAnswered, [Next]_vars, crashes' = 0, NEW c \in Charges',
           c \notin Charges
    PROVE  \/ \E k \in DOMAIN AnswerTo, o \in Orders : \E i \in Instances :
                 c = <<k, o>> /\ Costs(i, k, o)
           \/ \E i \in Instances : /\ c = <<"attempt", i>> /\ GivingUp(i)'
                                   /\ CallFails(i) /\ msg'[i] = msg[i]
<1>1. CASE c \in Gaps'
  <2>1. c \in (DOMAIN AnswerTo) \X Orders /\ c \notin Gaps
    BY <1>1 DEF Gaps, Charges
  <2>2. PICK k \in DOMAIN AnswerTo, o \in Orders : c = <<k, o>>
    BY <2>1
  <2>3. Gap(k, o)'
    BY <1>1, <2>2 DEF Gaps
  <2>4. ~Gap(k, o)
    BY <2>1, <2>2 DEF Gaps
  <2> QED
    BY <2>2, <2>3, <2>4, GapSteps
<1>2. CASE c \notin Gaps'
  <2>1. c \in {"attempt"} \X Instances
    BY <1>2 DEF Charges
  <2>2. PICK i \in Instances : c = <<"attempt", i>>
    BY <2>1
  <2>3. GivingUp(i)'
    BY <1>2, <2>2 DEF Charges
  <2>4. ~GivingUp(i)
    BY <2>2 DEF Charges
  <2> QED
    BY <2>2, <2>3, <2>4, GivingUpStep
<1> QED
  BY <1>1, <1>2

LEMMA ChargeSteps ==
    ASSUME TypeOK, ReturnsAnswered, [Next]_vars, crashes' = 0
    PROVE  ChargeStep
<1>1. ASSUME \A i \in Instances : ~CallFails(i) PROVE ChargeStep
  BY <1>1, NewCharges DEF ChargeStep, Costs
<1>2. ASSUME NEW i \in Instances, CallFails(i) PROVE ChargeStep
  <2> DEFINE type == msg[i].type
             o == msg[i].order
             marked == <<"OrderCreated", o>> \in processed'
  <2>0. /\ errors' = errors + 1
        /\ \A h \in Instances : CallFails(h) => h = i
    BY <1>2, OneFails DEF CallFails
  <2>1. \A c \in Charges' \ Charges :
           \/ \E k \in DOMAIN AnswerTo : /\ c = <<k, o>> /\ type = AnswerTo[k]
                                         /\ Costs(i, k, o)
           \/ c = <<"attempt", i>> /\ GivingUp(i)' /\ msg'[i] = msg[i]
    BY <2>0, NewCharges DEF Costs
  <2>2. CASE type = "PaymentFailed"
    <3>1. \A c \in Charges' \ Charges : c = <<"release", o>>
      BY <2>1, <2>2, AnswerKinds DEF GivingUp, Handling
    <3> QED
      BY <2>0, <3>1 DEF ChargeStep
  <2>3. CASE pc[i] = "dlq" /\ type = "OrderCreated" /\ <<"OrderCreated", o>> \notin processed
    <3>1. <<"attempt", i>> \in Charges
      BY <2>3 DEF Charges, GivingUp, Handling, Order, Done
    <3>2. ~GivingUp(i)'
      BY <1>2, <2>3 DEF CallFails, Finish, Goto, At, GivingUp, Failing, TypeOK, HandlersTypeOK
    <3>3. <<"attempt", i>> \notin Charges'
      BY <3>2, AnswerKinds DEF Charges, Gaps
    <3>4. \A c \in Charges' \ Charges : c = <<"outcome", o>> \/ c = <<"verdict", o>>
      BY <2>1, <2>3, <3>2, AnswerKinds
    <3>5. Charges' \subseteq ((Charges \ {<<"attempt", i>>}) \cup {<<"outcome", o>>})
                                \cup {<<"verdict", o>>}
      BY <3>3, <3>4
    <3> QED
      BY <2>0, <3>1, <3>5 DEF ChargeStep
  <2>4. CASE type = "OrderCreated" /\ (pc[i] # "dlq" \/ <<"OrderCreated", o>> \in processed)
    <3>1. \A k \in DOMAIN AnswerTo : Costs(i, k, o) =>
             /\ marked /\ pc[i] \in Silent[k]
      BY <2>4, AnswerKinds DEF Costs
    <3>2. GivingUp(i)' /\ msg'[i] = msg[i] => ~marked
      BY DEF GivingUp, Order, Done
    <3>3. CASE ~marked
      <4>1. \A c \in Charges' \ Charges : c = <<"attempt", i>>
        BY <2>1, <3>1, <3>3
      <4> QED
        BY <2>0, <4>1 DEF ChargeStep
    <3>4. CASE marked /\ pc[i] = "technicalFailure"
      <4>1. \A c \in Charges' \ Charges : c = <<"outcome", o>>
        BY <2>1, <2>4, <3>1, <3>2, <3>4, AnswerKinds DEF Silent
      <4> QED
        BY <2>0, <4>1 DEF ChargeStep
    <3>5. CASE marked /\ pc[i] # "technicalFailure"
      <4>1. \A c \in Charges' \ Charges : c = <<"verdict", o>>
        BY <2>1, <2>4, <3>1, <3>2, <3>5, AnswerKinds DEF Silent
      <4> QED
        BY <2>0, <4>1 DEF ChargeStep
    <3> QED
      BY <3>3, <3>4, <3>5
  <2>5. type \in {"OrderCreated", "PaymentFailed"}
    <3>1. pc[i] # "idle"
      BY <1>2 DEF CallFails, At
    <3> QED
      BY <3>1, AtLabel, MessageTypes
  <2> QED
    BY <2>2, <2>3, <2>4, <2>5
<1> QED
  BY <1>1, <1>2

LEMMA AnswerStepInv ==
    ASSUME TypeOK, AnswerInv, [Next]_vars
    PROVE  AnswerInv'
<1>0. OutputsGrow /\ errors \in Nat /\ crashes \in Nat
  BY OutputSteps, InventoryAssumption DEF TypeOK
<1>1. ReturnsAnswered'
  BY <1>0, LeavingSteps DEF AnswerInv, ReturnsAnswered, ReturnStep, Order, Heard, OutputsGrow
<1>2. ASSUME crashes' = 0 PROVE IsFiniteSet(Charges') /\ Cardinality(Charges') <= errors'
  <2>1. crashes = 0 /\ errors' \in Nat /\ errors <= errors'
    BY <1>0, <1>2 DEF OutputsGrow
  <2>2. IsFiniteSet(Charges) /\ Cardinality(Charges) <= errors /\ Cardinality(Charges) \in Nat
    BY <2>1, FS_CardinalityType DEF AnswerInv
  <2>3. CASE Charges' \subseteq Charges
    <3>1. /\ IsFiniteSet(Charges') /\ Cardinality(Charges') <= Cardinality(Charges)
          /\ Cardinality(Charges') \in Nat
      BY <2>2, <2>3, FS_Subset, FS_CardinalityType
    <3> QED
      BY <1>0, <2>1, <2>2, <3>1
  <2>4. ASSUME errors' = errors + 1, NEW x, Charges' \subseteq Charges \cup {x}
        PROVE  IsFiniteSet(Charges') /\ Cardinality(Charges') <= errors'
    <3>1. /\ IsFiniteSet(Charges \cup {x})
          /\ Cardinality(Charges \cup {x}) \in {Cardinality(Charges), Cardinality(Charges) + 1}
      BY <2>2, FS_AddElement
    <3>2. /\ IsFiniteSet(Charges') /\ Cardinality(Charges') <= Cardinality(Charges \cup {x})
          /\ Cardinality(Charges') \in Nat
      BY <2>4, <3>1, FS_Subset, FS_CardinalityType
    <3> QED
      BY <1>0, <2>2, <2>4, <3>1, <3>2
  <2>5. ASSUME errors' = errors + 1, NEW x, NEW y, NEW b \in Charges,
               Charges' \subseteq ((Charges \ {b}) \cup {x}) \cup {y}
        PROVE  IsFiniteSet(Charges') /\ Cardinality(Charges') <= errors'
    <3> DEFINE A == Charges \ {b}
               B == A \cup {x}
               C == B \cup {y}
    <3>1. IsFiniteSet(A) /\ Cardinality(A) = Cardinality(Charges) - 1
      BY <2>2, FS_RemoveElement
    <3>2. IsFiniteSet(B) /\ Cardinality(B) \in {Cardinality(A), Cardinality(A) + 1}
      BY <3>1, FS_AddElement
    <3>3. IsFiniteSet(C) /\ Cardinality(C) \in {Cardinality(B), Cardinality(B) + 1}
      BY <3>2, FS_AddElement
    <3>4. IsFiniteSet(Charges') /\ Cardinality(Charges') <= Cardinality(C)
          /\ Cardinality(Charges') \in Nat
      BY <2>5, <3>3, FS_Subset, FS_CardinalityType
    <3> HIDE DEF A, B, C
    <3> QED
      BY <1>0, <2>2, <2>5, <3>1, <3>2, <3>3, <3>4
  <2>6. ChargeStep
    BY <1>2, ChargeSteps DEF AnswerInv
  <2> QED
    BY <2>3, <2>4, <2>5, <2>6 DEF ChargeStep
<1> QED
  BY <1>1, <1>2 DEF AnswerInv

\* Marking the event before the answer is emitted (MarkReleased,
\* CommitReservation) costs an answer only where a call failed: as long as nobody
\* crashes, a message that was handled and is not in the DLQ was answered, and
\* truthfully, but for one missing answer per failed call.
THEOREM InventoryHandledIsAnswered == Spec => []HandledIsAnswered
<1>1. ASSUME Init PROVE AnswerInv
  <2>1. ReturnsAnswered
    BY <1>1 DEF Init, ReturnsAnswered
  <2>2. \A k, o : ~Gap(k, o)
    BY <1>1 DEF Init, Gap, Done, Abandoned
  <2>3. \A i \in Instances : ~GivingUp(i)
    BY <1>1 DEF Init, GivingUp, Failing
  <2>4. Charges = {}
    BY <2>2, <2>3 DEF Charges, Gaps
  <2> QED
    BY <1>1, <2>1, <2>4, FS_EmptySet DEF AnswerInv, Init
<1>2. TypeOK /\ AnswerInv /\ [Next]_vars => AnswerInv'
  BY AnswerStepInv
<1>3. ASSUME TypeOK, AnswerInv, crashes = 0 PROVE Cardinality(Missing) <= errors
  <2>1. ASSUME NEW k \in DOMAIN AnswerTo, NEW o \in Orders, Handled(AnswerTo[k], o), ~Told(k, o)
        PROVE  Gap(k, o)
    <3>1. CASE Done(AnswerTo[k], o)
      BY <2>1, <3>1 DEF Handled, Gap, Coming
    <3>2. CASE ~Done(AnswerTo[k], o)
      BY <2>1, <3>2 DEF Handled, Gap, Abandoned, Handling, Order
    <3> QED
      BY <3>1, <3>2
  <2>2. Missing \subseteq Charges
    BY <2>1 DEF Missing, Charges, Gaps
  <2>3. IsFiniteSet(Charges) /\ Cardinality(Charges) <= errors
    BY <1>3 DEF AnswerInv
  <2>4. /\ Cardinality(Missing) <= Cardinality(Charges)
        /\ Cardinality(Missing) \in Nat /\ Cardinality(Charges) \in Nat
    BY <2>2, <2>3, FS_Subset, FS_CardinalityType
  <2>5. errors \in Nat
    BY <1>3, InventoryAssumption DEF TypeOK
  <2> QED
    BY <2>3, <2>4, <2>5
<1>4. TypeOK /\ AnswerInv => HandledIsAnswered
  BY <1>3 DEF HandledIsAnswered
<1> QED
  BY <1>1, <1>2, <1>4, TypeCorrect, PTL DEF Spec

=============================================================================
