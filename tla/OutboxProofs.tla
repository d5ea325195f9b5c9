---------------------------- MODULE OutboxProofs ----------------------------
(***************************************************************************)
(* Proofs about the order producer: what its outbox rows promise, with any *)
(* number of overlapping ticks, and what a client's POST comes to.         *)
(***************************************************************************)
EXTENDS OrderIntake, FiniteSetTheorems, WellFoundedInduction, TLAPS

LEMMA HasLeast ==
    ASSUME NEW S \in SUBSET Nat, S # {}
    PROVE  \E o \in S : \A p \in S : o <= p
<1> DEFINE Less == {ss \in Nat \X Nat : ss[1] < ss[2]}
<1>1. IsWellFoundedOn(Less, Nat)
  BY NatLessThanWellFounded DEF OpToRel
<1>2. PICK o \in S : \A p \in S : <<p, o>> \notin Less
  BY <1>1, WFMin
<1>3. \A p \in S : ~(p < o)
  BY <1>2
<1> QED
  BY <1>3

\* A tick that finds a waiting row has a row to emit.
LEMMA FirstOfSome ==
    ASSUME NEW S \in SUBSET Orders, S # {}
    PROVE  FirstOf(S) # {}
<1>1. PICK o \in S : \A p \in S : o <= p
  BY OutboxAssumption, HasLeast
<1>2. {p \in S : p < o} = {}
  <2>1. o \in Nat /\ \A p \in S : p \in Nat
    BY OutboxAssumption
  <2>2. \A p \in S : ~(p < o)
    BY <1>1, <2>1
  <2> QED
    BY <2>2
<1>3. Cardinality({p \in S : p < o}) < Take
  BY <1>2, FS_EmptySet, OutboxAssumption
<1> QED
  BY <1>3 DEF FirstOf

BatchOK ==
    /\ batch \in [Ticks -> SUBSET Orders]
    /\ tickPc \in [Ticks -> {"off", "emit", "update"}]
    /\ \A t \in Ticks : tickPc[t] = "off" <=> batch[t] = {}

LEMMA AdvanceBatch ==
    ASSUME TypeOK, NEW t \in Ticks, NEW o \in batch[t], Advance(t, o)
    PROVE  BatchOK'
<1>1. /\ batch' \in [Ticks -> SUBSET Orders]
      /\ tickPc' \in [Ticks -> {"off", "emit", "update"}]
  BY DEF TypeOK, Advance
<1>2. ASSUME NEW u \in Ticks PROVE tickPc'[u] = "off" <=> batch'[u] = {}
  <2>1. CASE u = t
    <3>1. /\ batch'[t] = batch[t] \ {o}
          /\ tickPc'[t] = "off" <=> batch[t] = {o}
      BY <1>2, <2>1 DEF TypeOK, Advance
    <3> QED
      BY <2>1, <3>1
  <2>2. CASE u # t
    BY <1>2, <2>2 DEF TypeOK, Advance
  <2> QED
    BY <2>1, <2>2
<1> QED
  BY <1>1, <1>2 DEF BatchOK

LEMMA TypeCorrectStep ==
    ASSUME TypeOK, [Next]_vars
    PROVE  TypeOK'
<1> USE OutboxAssumption
<1>1. ASSUME NEW o \in Orders, CreateOrder(o) PROVE TypeOK'
  BY <1>1 DEF TypeOK, CreateOrder, InsertRow, tick
<1>0. CreateFails => TypeOK'
  BY DEF TypeOK, CreateFails, InsertRow, tick
<1>2. ASSUME NEW t \in Ticks, FindUnpublished(t) PROVE TypeOK'
  <2>1. FirstOf(Waiting) \in SUBSET Orders /\ FirstOf(Waiting) # {}
    <3>1. Waiting \in SUBSET Orders /\ Waiting # {}
      BY <1>2 DEF FindUnpublished, Waiting
    <3> QED
      BY <3>1, FirstOfSome DEF FirstOf
  <2> QED
    BY <1>2, <2>1 DEF TypeOK, FindUnpublished
<1>3. ASSUME NEW t \in Ticks, EmitRow(t) PROVE TypeOK'
  BY <1>3 DEF TypeOK, EmitRow, Publish
<1>4. ASSUME NEW t \in Ticks, UpdateRow(t) PROVE TypeOK'
  <2>1. BatchOK'
    BY <1>4, AdvanceBatch DEF UpdateRow, Current
  <2> QED
    BY <1>4, <2>1 DEF TypeOK, BatchOK, UpdateRow, SetPublishedAt
<1>5. ASSUME NEW t \in Ticks, CallFails(t) PROVE TypeOK'
  <2>1. BatchOK'
    BY <1>5, AdvanceBatch DEF CallFails, Current
  <2>2. row' \in [Orders -> {"absent", "waiting", "published"}] /\ emitted' \in [Orders -> Nat]
    BY <1>5 DEF TypeOK, CallFails, SetPublishedAt, Publish
  <2>3. errors' \in 0..MaxErrors /\ crashes' \in 0..MaxCrashes
    BY <1>5 DEF TypeOK, CallFails
  <2> QED
    BY <2>1, <2>2, <2>3 DEF TypeOK, BatchOK
<1>6. Crash => TypeOK'
  BY DEF TypeOK, Crash
<1>7. UNCHANGED vars => TypeOK'
  BY DEF TypeOK, vars, tick
<1> QED
  BY <1>0, <1>1, <1>2, <1>3, <1>4, <1>5, <1>6, <1>7 DEF Next, TickStep

\* Every variable keeps its type, and a tick under way has a row to work on.
THEOREM OutboxTypeCorrect == Spec => []TypeOK
<1>1. Init => TypeOK
  BY OutboxAssumption DEF Init, TypeOK
<1>2. TypeOK /\ [Next]_vars => TypeOK'
  BY TypeCorrectStep
<1> QED
  BY <1>1, <1>2, PTL DEF Spec

-----------------------------------------------------------------------------
\* PublishedIsEmitted is not inductive: a tick about to set publishedAt has
\* emitted the row, and other ticks may have come by since.
EmittedInv ==
    /\ PublishedIsEmitted
    /\ \A t \in Ticks, o \in Orders :
          tickPc[t] = "update" /\ Current(t, o) => emitted[o] > 0

\* At least once (outbox-worker.service.ts): publishedAt is only set on rows
\* that are in the topic, however ticks overlap and whatever fails or crashes.
THEOREM PublishedRowsAreEmitted == Spec => []PublishedIsEmitted
<1>1. Init => EmittedInv
  BY DEF Init, EmittedInv, PublishedIsEmitted
<1>2. TypeOK /\ EmittedInv /\ [Next]_vars => EmittedInv'
  <2> SUFFICES ASSUME TypeOK, EmittedInv, [Next]_vars PROVE EmittedInv'
    OBVIOUS
  <2> USE OutboxAssumption DEF EmittedInv, PublishedIsEmitted
  <2>0. /\ emitted \in [Orders -> Nat] /\ batch \in [Ticks -> SUBSET Orders]
        /\ row \in [Orders -> {"absent", "waiting", "published"}]
        /\ tickPc \in [Ticks -> {"off", "emit", "update"}]
    BY DEF TypeOK
  \* A tick's current row is unique, so an advancing tick is no longer at it.
  <2>1. ASSUME NEW t \in Ticks, NEW o \in Orders, Advance(t, o)
        PROVE  /\ tickPc'[t] # "update"
               /\ \A u \in Ticks \ {t} : tickPc'[u] = tickPc[u] /\ batch'[u] = batch[u]
    BY <2>0, <2>1 DEF Advance
  <2>2. ASSUME NEW o \in Orders, CreateOrder(o) PROVE EmittedInv'
    BY <2>0, <2>2 DEF CreateOrder, InsertRow, tick, Current
  <2>9. CreateFails => EmittedInv'
    BY <2>0 DEF CreateFails, InsertRow, tick, Current
  <2>3. ASSUME NEW t \in Ticks, FindUnpublished(t) PROVE EmittedInv'
    BY <2>0, <2>3 DEF FindUnpublished, Current
  <2>4. ASSUME NEW t \in Ticks, EmitRow(t) PROVE EmittedInv'
    <3>1. PICK o \in Orders : Current(t, o) /\ Publish(o)
      BY <2>4 DEF EmitRow
    <3>2. \A p \in Orders : emitted'[p] >= emitted[p]
      BY <2>0, <3>1 DEF Publish
    <3>3. emitted'[o] > 0
      BY <2>0, <3>1 DEF Publish
    <3>4. \A p \in Orders : Current(t, p) => p = o
      BY <2>0, <3>1 DEF Current
    <3>5. /\ UNCHANGED <<row, batch>>
          /\ \A u \in Ticks \ {t} : tickPc'[u] = tickPc[u]
      BY <2>0, <2>4 DEF EmitRow
    <3>6. PublishedIsEmitted'
      BY <2>0, <3>1, <3>2, <3>5 DEF Publish
    <3>7. ASSUME NEW u \in Ticks, NEW p \in Orders, tickPc'[u] = "update", Current(u, p)'
          PROVE  emitted'[p] > 0
      <4>0. Current(u, p)
        BY <3>5, <3>7 DEF Current
      <4>1. CASE u = t
        BY <3>3, <3>4, <4>0, <4>1
      <4>2. CASE u # t
        BY <2>0, <3>1, <3>2, <3>5, <3>7, <4>0, <4>2 DEF Publish
      <4> QED
        BY <4>1, <4>2
    <3> QED
      BY <3>6, <3>7
  <2>5. ASSUME NEW t \in Ticks, UpdateRow(t) PROVE EmittedInv'
    <3>1. PICK o \in Orders : Current(t, o) /\ SetPublishedAt(o) /\ Advance(t, o)
      BY <2>5 DEF UpdateRow
    <3>2. emitted[o] > 0 /\ emitted' = emitted
      BY <2>5, <3>1 DEF UpdateRow
    <3>3. PublishedIsEmitted'
      BY <2>0, <3>1, <3>2 DEF SetPublishedAt
    <3> QED
      BY <2>0, <2>1, <3>1, <3>2, <3>3 DEF Current
  <2>6. ASSUME NEW t \in Ticks, CallFails(t) PROVE EmittedInv'
    <3>1. PICK o \in Orders :
            /\ Current(t, o) /\ Advance(t, o)
            /\ \/ UNCHANGED <<row, emitted>>
               \/ tickPc[t] = "emit" /\ Publish(o) /\ UNCHANGED row
               \/ tickPc[t] = "update" /\ SetPublishedAt(o) /\ UNCHANGED emitted
      BY <2>6 DEF CallFails
    <3>2. \A p \in Orders : emitted'[p] \in Nat /\ emitted'[p] >= emitted[p]
      BY <2>0, <3>1 DEF Publish
    <3>3. ASSUME NEW p \in Orders, row'[p] = "published" PROVE emitted'[p] > 0
      BY <2>0, <3>1, <3>2, <3>3 DEF SetPublishedAt
    <3>4. ASSUME NEW u \in Ticks, NEW p \in Orders, tickPc'[u] = "update", Current(u, p)'
          PROVE  emitted'[p] > 0
      <4>1. u # t /\ tickPc[u] = "update" /\ Current(u, p)
        BY <2>1, <3>1, <3>4 DEF Current
      <4> QED
        BY <2>0, <3>2, <4>1
    <3> QED
      BY <3>3, <3>4
  <2>7. Crash => EmittedInv'
    BY <2>0 DEF Crash
  <2>8. UNCHANGED vars => EmittedInv'
    BY DEF vars, tick, Current
  <2> QED
    BY <2>2, <2>3, <2>4, <2>5, <2>6, <2>7, <2>8, <2>9 DEF Next, TickStep
<1>3. EmittedInv => PublishedIsEmitted
  BY DEF EmittedInv
<1> QED
  BY <1>1, <1>2, <1>3, OutboxTypeCorrect, PTL DEF Spec
-----------------------------------------------------------------------------
(***************************************************************************)
(* The way in: its steps are the producer's, so what holds of the producer *)
(* alone holds of it behind the gateway.                                   *)
(***************************************************************************)
LEMMA IntakeStep == [IntakeNext]_intakeVars => [Next]_vars
<1>1. ASSUME NEW p \in Posts, PostOrder(p) PROVE UNCHANGED vars
  BY <1>1 DEF PostOrder
<1>2. ASSUME NEW p \in Posts, CommitOrder(p) PROVE Next
  BY <1>2 DEF CommitOrder, Commit, Next
<1>3. ASSUME NEW p \in Posts, AnswerPost(p) PROVE UNCHANGED vars
  BY <1>3 DEF AnswerPost
<1>4. ASSUME NEW p \in Posts, PostFails(p) PROVE Next
  BY <1>4 DEF PostFails, Next
<1>5. ASSUME NEW p \in Posts, GatewayTimesOut(p) PROVE UNCHANGED vars
  BY <1>5 DEF GatewayTimesOut
<1>6. ProducerCrash => Next
  BY DEF ProducerCrash, Next
<1>7. ASSUME NEW t \in Ticks, TickStep(t) \/ CallFails(t) PROVE Next
  BY <1>7 DEF Next
<1>8. UNCHANGED intakeVars => UNCHANGED vars
  BY DEF intakeVars
<1> QED
  BY <1>1, <1>2, <1>3, <1>4, <1>5, <1>6, <1>7, <1>8 DEF IntakeNext

\* The producer behind the gateway (orders-proxy.service.ts) does what the
\* producer alone does: nothing the gateway does reaches its rows.
THEOREM IntakeRunsTheOutbox == IntakeSpec => Spec
<1>1. IntakeInit => Init
  BY DEF IntakeInit
<1> QED
  BY <1>1, IntakeStep, PTL DEF IntakeSpec, Spec

\* Every variable keeps its type, with any number of POSTs under way.
THEOREM IntakeTypeCorrect == IntakeSpec => []IntakeTypeOK
<1>1. IntakeInit => IntakeTypeOK
  BY OutboxAssumption DEF IntakeInit, Init, IntakeTypeOK, TypeOK
<1>2. IntakeTypeOK /\ [IntakeNext]_intakeVars => IntakeTypeOK'
  <2> SUFFICES ASSUME IntakeTypeOK, [IntakeNext]_intakeVars PROVE IntakeTypeOK'
    OBVIOUS
  <2>1. TypeOK'
    BY IntakeStep, TypeCorrectStep DEF IntakeTypeOK
  <2> DEFINE IntakeOK ==
          /\ reply \in [Posts -> {"none", "waiting", "created", "failed"}]
          /\ handler \in [Posts -> {"idle", "transaction", "answer"}]
          /\ orderOf \in [Posts -> Orders \cup {0}]
  <2>2. ASSUME NEW p \in Posts, PostOrder(p) PROVE IntakeOK'
    BY <2>2 DEF IntakeTypeOK, PostOrder, Handler
  <2>3. ASSUME NEW p \in Posts, CommitOrder(p) PROVE IntakeOK'
    BY <2>3 DEF IntakeTypeOK, CommitOrder, Commit, Handler
  <2>4. ASSUME NEW p \in Posts, AnswerPost(p) PROVE IntakeOK'
    BY <2>4 DEF IntakeTypeOK, AnswerPost, Handler, Tell
  <2>5. ASSUME NEW p \in Posts, PostFails(p) PROVE IntakeOK'
    BY <2>5 DEF IntakeTypeOK, PostFails, Handler, Tell
  <2>6. ASSUME NEW p \in Posts, GatewayTimesOut(p) PROVE IntakeOK'
    BY <2>6 DEF IntakeTypeOK, GatewayTimesOut
  <2>7. ProducerCrash => IntakeOK'
    BY DEF IntakeTypeOK, ProducerCrash
  <2>8. UNCHANGED intake => IntakeOK'
    BY DEF IntakeTypeOK, intake
  <2>9. IntakeOK'
    BY <2>2, <2>3, <2>4, <2>5, <2>6, <2>7, <2>8 DEF IntakeNext, intakeVars
  <2> QED
    BY <2>1, <2>9 DEF IntakeTypeOK
<1> QED
  BY <1>1, <1>2, PTL DEF IntakeSpec

-----------------------------------------------------------------------------
\* What a POST's answer says of its order.  A handler still in its transaction
\* has no order yet, or it would commit a second one.
PostsInv ==
    /\ OneOrderPerPost
    /\ \A p \in Posts :
          /\ reply[p] = "none" => handler[p] = "idle"
          /\ reply[p] = "none" \/ handler[p] = "transaction" => orderOf[p] = 0
          /\ reply[p] = "created" \/ handler[p] = "answer" => orderOf[p] # 0
          /\ orderOf[p] # 0 => row[orderOf[p]] # "absent"

LEMMA CommitKeepsPosts ==
    ASSUME IntakeTypeOK, PostsInv, NEW p \in Posts, NEW o \in Orders,
           InsertRow(o), orderOf[p] = 0, orderOf' = [orderOf EXCEPT ![p] = o]
    PROVE  /\ OneOrderPerPost'
           /\ \A q \in Posts : orderOf'[q] # 0 => row'[orderOf'[q]] # "absent"
<1>0. /\ row \in [Orders -> {"absent", "waiting", "published"}]
      /\ orderOf \in [Posts -> Orders \cup {0}]
      /\ 0 \notin Orders
  BY IntakeAssumption DEF IntakeTypeOK, TypeOK
<1>1. /\ row[o] = "absent" /\ row'[o] = "waiting"
      /\ \A w \in Orders \ {o} : row'[w] = row[w]
  BY <1>0 DEF InsertRow
<1>2. orderOf'[p] = o /\ \A q \in Posts \ {p} : orderOf'[q] = orderOf[q] /\ orderOf[q] # o
  BY <1>0, <1>1 DEF PostsInv
<1>3. ASSUME NEW w \in Orders, row'[w] # "absent" PROVE \E q \in Posts : orderOf'[q] = w
  <2>1. CASE w = o
    BY <1>2, <2>1
  <2>2. CASE w # o
    <3>1. PICK q \in Posts : orderOf[q] = w
      BY <1>1, <1>3, <2>2 DEF PostsInv, OneOrderPerPost
    <3>2. q # p
      BY <1>0, <3>1
    <3> QED
      BY <1>2, <3>1, <3>2
  <2> QED
    BY <2>1, <2>2
<1>4. ASSUME NEW q \in Posts, NEW r \in Posts, orderOf'[q] = orderOf'[r], orderOf'[q] # 0
      PROVE  q = r
  BY <1>2, <1>4 DEF PostsInv, OneOrderPerPost
<1>5. ASSUME NEW q \in Posts, orderOf'[q] # 0 PROVE row'[orderOf'[q]] # "absent"
  <2>1. CASE q = p
    BY <1>1, <1>2, <2>1
  <2>2. CASE q # p
    BY <1>0, <1>1, <1>2, <1>5, <2>2 DEF PostsInv
  <2> QED
    BY <2>1, <2>2
<1> QED
  BY <1>3, <1>4, <1>5 DEF OneOrderPerPost

\* The rows of a batch were read from the table, so that marking one published
\* marks a row that is there.
ReadRows == \A t \in Ticks : \A o \in batch[t] : row[o] # "absent"

LEMMA ReadRowsStep ==
    ASSUME TypeOK, ReadRows, [Next]_vars
    PROVE  ReadRows'
<1>0. /\ row \in [Orders -> {"absent", "waiting", "published"}]
      /\ batch \in [Ticks -> SUBSET Orders]
  BY DEF TypeOK
\* No row is deleted, and but for FindUnpublished a batch only shrinks.
<1>1. ASSUME \A o \in Orders : row'[o] = "absent" => row[o] = "absent",
             \A t \in Ticks : batch'[t] \subseteq batch[t]
      PROVE  ReadRows'
  BY <1>0, <1>1 DEF ReadRows
<1>2. ASSUME NEW o \in Orders, CreateOrder(o) PROVE ReadRows'
  BY <1>0, <1>1, <1>2 DEF CreateOrder, InsertRow, tick
<1>3. CreateFails => ReadRows'
  BY <1>0, <1>1 DEF CreateFails, InsertRow, tick
<1>4. ASSUME NEW t \in Ticks, FindUnpublished(t) PROVE ReadRows'
  BY <1>0, <1>4 DEF FindUnpublished, FirstOf, Waiting, ReadRows
<1>5. ASSUME NEW t \in Ticks, EmitRow(t) PROVE ReadRows'
  BY <1>1, <1>5 DEF EmitRow
<1>6. ASSUME NEW t \in Ticks, UpdateRow(t) PROVE ReadRows'
  BY <1>0, <1>1, <1>6 DEF UpdateRow, SetPublishedAt, Advance
<1>7. ASSUME NEW t \in Ticks, CallFails(t) PROVE ReadRows'
  BY <1>0, <1>1, <1>7 DEF CallFails, SetPublishedAt, Advance
<1>8. Crash => ReadRows'
  BY <1>1 DEF Crash
<1>9. UNCHANGED vars => ReadRows'
  BY <1>1 DEF vars, tick
<1> QED
  BY <1>2, <1>3, <1>4, <1>5, <1>6, <1>7, <1>8, <1>9 DEF Next, TickStep

LEMMA PostsStep ==
    ASSUME IntakeTypeOK, ReadRows, PostsInv, [IntakeNext]_intakeVars
    PROVE  PostsInv'
<1>0. /\ row \in [Orders -> {"absent", "waiting", "published"}]
      /\ reply \in [Posts -> {"none", "waiting", "created", "failed"}]
      /\ handler \in [Posts -> {"idle", "transaction", "answer"}]
      /\ orderOf \in [Posts -> Orders \cup {0}]
      /\ 0 \notin Orders
  BY IntakeAssumption DEF IntakeTypeOK, TypeOK
\* The steps that leave the orders of POSTs alone.
<1>1. ASSUME UNCHANGED orderOf,
             \A o \in Orders : row'[o] = "absent" <=> row[o] = "absent",
             \A q \in Posts :
                /\ reply'[q] = "none" =>
                      reply[q] = "none" /\ handler'[q] \in {handler[q], "idle"}
                /\ reply'[q] = "created" => reply[q] = "created" \/ handler[q] = "answer"
                /\ handler'[q] = "transaction" => handler[q] = "transaction" \/ reply[q] = "none"
                /\ handler'[q] = "answer" => handler[q] = "answer"
      PROVE  PostsInv'
  <2>1. OneOrderPerPost'
    BY <1>1 DEF PostsInv, OneOrderPerPost
  <2> QED
    BY <1>0, <1>1, <2>1 DEF PostsInv
<1>2. ASSUME NEW p \in Posts, PostOrder(p) PROVE PostsInv'
  BY <1>0, <1>1, <1>2 DEF PostOrder, Handler, vars
<1>3. ASSUME NEW p \in Posts, handler[p] = "transaction", NEW o \in Orders, InsertRow(o),
             orderOf' = [orderOf EXCEPT ![p] = o],
             \/ Handler(p, "answer") /\ UNCHANGED reply
             \/ Handler(p, "idle") /\ Tell(p, "failed")
      PROVE  PostsInv'
  <2>1. orderOf[p] = 0 /\ reply[p] # "none"
    BY <1>0, <1>3 DEF PostsInv
  <2>2. /\ OneOrderPerPost'
        /\ \A q \in Posts : orderOf'[q] # 0 => row'[orderOf'[q]] # "absent"
    BY <1>3, <2>1, CommitKeepsPosts
  <2>3. ASSUME NEW q \in Posts
        PROVE  /\ (reply[q] = "none" => handler[q] = "idle")'
               /\ (reply[q] = "none" \/ handler[q] = "transaction" => orderOf[q] = 0)'
               /\ (reply[q] = "created" \/ handler[q] = "answer" => orderOf[q] # 0)'
    <3>1. CASE q = p
      <4>1. orderOf'[q] = o /\ o # 0 /\ handler'[q] # "transaction"
        BY <1>0, <1>3, <3>1 DEF Handler
      <4>2. reply'[q] # "none"
        BY <1>0, <1>3, <2>1, <3>1 DEF Tell
      <4> QED
        BY <4>1, <4>2
    <3>2. CASE q # p
      BY <1>0, <1>3, <3>2 DEF PostsInv, Handler, Tell
    <3> QED
      BY <3>1, <3>2
  <2> QED
    BY <2>2, <2>3 DEF PostsInv
<1>4. ASSUME NEW p \in Posts, CommitOrder(p) PROVE PostsInv'
  <2>1. PICK o \in Orders : CreateOrder(o) /\ orderOf' = [orderOf EXCEPT ![p] = o]
    BY <1>4 DEF CommitOrder, Commit
  <2>2. handler[p] = "transaction" /\ Handler(p, "answer") /\ UNCHANGED reply
    BY <1>4 DEF CommitOrder
  <2>3. InsertRow(o)
    BY <2>1 DEF CreateOrder
  <2> QED
    BY <1>3, <2>1, <2>2, <2>3
<1>5. ASSUME NEW p \in Posts, AnswerPost(p) PROVE PostsInv'
  BY <1>0, <1>1, <1>5 DEF AnswerPost, Tell, Handler, vars
<1>6. ASSUME NEW p \in Posts, PostFails(p) PROVE PostsInv'
  <2>1. Tell(p, "failed") /\ Handler(p, "idle")
    BY <1>6 DEF PostFails
  <2>2. CASE UNCHANGED <<row, orderOf>>
    BY <1>0, <1>1, <2>1, <2>2 DEF Tell, Handler
  <2>3. CASE ~UNCHANGED <<row, orderOf>>
    BY <1>3, <1>6, <2>1, <2>3 DEF PostFails
  <2> QED
    BY <2>2, <2>3
<1>7. ASSUME NEW p \in Posts, GatewayTimesOut(p) PROVE PostsInv'
  BY <1>0, <1>1, <1>7 DEF GatewayTimesOut, vars
<1>8. ProducerCrash => PostsInv'
  BY <1>0, <1>1 DEF ProducerCrash, Crash
<1>9. ASSUME NEW t \in Ticks, TickStep(t) \/ CallFails(t), UNCHANGED intake PROVE PostsInv'
  <2>1. \A o \in Orders : row'[o] = "absent" <=> row[o] = "absent"
    <3>1. CASE FindUnpublished(t) \/ EmitRow(t)
      BY <3>1 DEF FindUnpublished, EmitRow
    <3>2. CASE UpdateRow(t) \/ CallFails(t)
      <4>1. UNCHANGED row \/ \E o \in batch[t] : SetPublishedAt(o)
        BY <3>2 DEF UpdateRow, CallFails, Current
      <4> QED
        BY <1>0, <4>1 DEF SetPublishedAt, ReadRows
    <3> QED
      BY <1>9, <3>1, <3>2 DEF TickStep
  <2> QED
    BY <1>0, <1>1, <1>9, <2>1 DEF intake
<1>10. UNCHANGED intakeVars => PostsInv'
  BY <1>1 DEF intakeVars, vars, intake
<1> QED
  BY <1>2, <1>4, <1>5, <1>6, <1>7, <1>8, <1>9, <1>10 DEF IntakeNext

LEMMA PostsInvariant == IntakeSpec => []PostsInv
<1>1. IntakeInit => ReadRows /\ PostsInv
  BY DEF IntakeInit, Init, ReadRows, PostsInv, OneOrderPerPost
<1>2. IntakeTypeOK /\ ReadRows /\ PostsInv /\ [IntakeNext]_intakeVars => (ReadRows /\ PostsInv)'
  BY IntakeStep, ReadRowsStep, PostsStep DEF IntakeTypeOK
<1> QED
  BY <1>1, <1>2, IntakeTypeCorrect, PTL DEF IntakeSpec

\* One POST, one order (orders-proxy.service.ts, order.service.ts): neither the
\* gateway's timeout nor a failed transaction makes the system order twice.
THEOREM PostsOrderOnce == IntakeSpec => []OneOrderPerPost
<1>1. PostsInv => OneOrderPerPost
  BY DEF PostsInv
<1> QED
  BY <1>1, PostsInvariant, PTL

\* A 201 is only sent for an order whose transaction has committed.
THEOREM CreatedMeansCommitted == IntakeSpec => []CreatedIsCommitted
<1>1. PostsInv => CreatedIsCommitted
  BY DEF PostsInv, CreatedIsCommitted
<1> QED
  BY <1>1, PostsInvariant, PTL
-----------------------------------------------------------------------------
(***************************************************************************)
(* How often a row is emitted.  A tick at its setPublishedAt has paid for  *)
(* its copy until it advances, and a published row can still be emitted by *)
(* the ticks that read it before it was marked, once each.  A crash starts *)
(* that over with a full set of ticks, and a failed call gives one more.   *)
(***************************************************************************)
Emitting(o) == {t \in Ticks : tickPc[t] = "update" /\ Current(t, o)}
Pending(o) == {t \in Ticks : tickPc[t] # "off" /\ o \in batch[t]} \ Emitting(o)

Bound == Cardinality(Ticks) * (crashes + 1) + errors

Counted(o) ==
    IF row[o] = "published"
    THEN emitted[o] + Cardinality(Pending(o)) <= Bound
    ELSE emitted[o] + Cardinality(Ticks) <= Cardinality(Emitting(o)) + Bound

CountInv == \A o \in Orders : Counted(o)

LEMMA TicksAreCounted ==
    /\ Cardinality(Ticks) \in Nat
    /\ \A S \in SUBSET Ticks :
          IsFiniteSet(S) /\ Cardinality(S) \in Nat /\ Cardinality(S) <= Cardinality(Ticks)
<1>1. ASSUME NEW S \in SUBSET Ticks
      PROVE  IsFiniteSet(S) /\ Cardinality(S) \in Nat /\ Cardinality(S) <= Cardinality(Ticks)
  BY FS_Subset, FS_CardinalityType, OutboxAssumption
<1> QED
  BY <1>1, FS_CardinalityType, OutboxAssumption

LEMMA BoundIsNat ==
    ASSUME TypeOK
    PROVE  /\ Bound \in Nat
           /\ Cardinality(Ticks) * (crashes + 1 + 1) =
                 Cardinality(Ticks) * (crashes + 1) + Cardinality(Ticks)
           /\ Cardinality(Ticks) * (crashes + 1) \in Nat
<1>1. crashes \in Nat /\ errors \in Nat
  BY OutboxAssumption DEF TypeOK
<1>2. \A n \in Nat, c \in Nat : n * c \in Nat /\ n * (c + 1) = n * c + n
  OBVIOUS
<1>3. /\ Cardinality(Ticks) * (crashes + 1) \in Nat
      /\ Cardinality(Ticks) * (crashes + 1 + 1) =
            Cardinality(Ticks) * (crashes + 1) + Cardinality(Ticks)
  <2>1. crashes + 1 \in Nat
    BY <1>1
  <2> QED
    BY <1>2, <2>1, TicksAreCounted
<1> QED
  BY <1>1, <1>3 DEF Bound

LEMMA EmittingAndPending ==
    ASSUME NEW o \in Orders
    PROVE  /\ Cardinality(Emitting(o)) \in Nat
           /\ Cardinality(Pending(o)) \in Nat
           /\ Cardinality(Emitting(o)) + Cardinality(Pending(o)) <= Cardinality(Ticks)
<1>1. Emitting(o) \in SUBSET Ticks /\ Pending(o) \in SUBSET Ticks
  BY DEF Emitting, Pending
<1>2. Emitting(o) \cup Pending(o) \in SUBSET Ticks /\ Emitting(o) \cap Pending(o) = {}
  BY <1>1 DEF Pending
<1>3. Cardinality(Emitting(o) \cup Pending(o)) =
         Cardinality(Emitting(o)) + Cardinality(Pending(o)) - 0
  BY <1>1, <1>2, TicksAreCounted, FS_Union, FS_EmptySet
<1> QED
  BY <1>1, <1>2, <1>3, TicksAreCounted

\* A tick that is through with a row leaves both sets of that row, and moves
\* in none of another's.
LEMMA AdvanceCounts ==
    ASSUME TypeOK, NEW t \in Ticks, NEW o \in Orders, Current(t, o), Advance(t, o)
    PROVE  /\ Emitting(o)' = Emitting(o) \ {t}
           /\ Pending(o)' = Pending(o) \ {t}
           /\ \A p \in Orders \ {o} :
                 Emitting(p)' = Emitting(p) /\ Pending(p)' = Pending(p)
<1>0. /\ batch \in [Ticks -> SUBSET Orders] /\ Orders \subseteq Nat
      /\ tickPc \in [Ticks -> {"off", "emit", "update"}]
  BY OutboxAssumption DEF TypeOK
<1>1. /\ \A u \in Ticks \ {t} : tickPc'[u] = tickPc[u] /\ batch'[u] = batch[u]
      /\ tickPc'[t] # "update" /\ batch'[t] = batch[t] \ {o}
      /\ tickPc'[t] = "off" <=> batch[t] = {o}
  BY <1>0 DEF Advance
<1>2. \A p \in Orders : Current(t, p) => p = o
  BY <1>0 DEF Current
<1>3. \A u \in Ticks \ {t}, p \in Orders : Current(u, p)' = Current(u, p)
  BY <1>1 DEF Current
<1>4. \A p \in Orders : Emitting(p)' = Emitting(p) \ {t}
  BY <1>1, <1>3 DEF Emitting
<1>5. \A p \in Orders \ {o} : t \notin Emitting(p)
  BY <1>2 DEF Emitting
<1>6. Pending(o)' = Pending(o) \ {t}
  BY <1>1, <1>4 DEF Pending
<1>7. ASSUME NEW p \in Orders \ {o} PROVE Pending(p)' = Pending(p)
  <2>1. tickPc[t] # "off"
    BY DEF TypeOK, Current
  <2> QED
    BY <1>1, <1>4, <1>5, <2>1 DEF Pending
<1> QED
  BY <1>4, <1>5, <1>6, <1>7

LEMMA CountStep ==
    ASSUME TypeOK, CountInv, [Next]_vars
    PROVE  CountInv'
<1>0. /\ row \in [Orders -> {"absent", "waiting", "published"}]
      /\ emitted \in [Orders -> Nat]
      /\ batch \in [Ticks -> SUBSET Orders]
      /\ tickPc \in [Ticks -> {"off", "emit", "update"}]
      /\ Orders \subseteq Nat
      /\ \A t \in Ticks : tickPc[t] = "off" <=> batch[t] = {}
  BY OutboxAssumption DEF TypeOK
<1>1. Bound \in Nat /\ errors \in Nat /\ Cardinality(Ticks) * (crashes + 1) \in Nat
  BY BoundIsNat DEF TypeOK
<1>2. \A o \in Orders :
         /\ Cardinality(Emitting(o)) \in Nat /\ Cardinality(Pending(o)) \in Nat
         /\ Cardinality(Emitting(o)) + Cardinality(Pending(o)) <= Cardinality(Ticks)
  BY EmittingAndPending
<1>3. Cardinality(Ticks) \in Nat
  BY TicksAreCounted
<1>4. \A t \in Ticks, o \in Orders :
         /\ Cardinality(Emitting(o) \ {t}) =
               Cardinality(Emitting(o)) - (IF t \in Emitting(o) THEN 1 ELSE 0)
         /\ Cardinality(Pending(o) \ {t}) =
               Cardinality(Pending(o)) - (IF t \in Pending(o) THEN 1 ELSE 0)
  <2> SUFFICES ASSUME NEW t \in Ticks, NEW o \in Orders
               PROVE  /\ Cardinality(Emitting(o) \ {t}) =
                            Cardinality(Emitting(o)) - (IF t \in Emitting(o) THEN 1 ELSE 0)
                      /\ Cardinality(Pending(o) \ {t}) =
                            Cardinality(Pending(o)) - (IF t \in Pending(o) THEN 1 ELSE 0)
    OBVIOUS
  <2>1. IsFiniteSet(Emitting(o)) /\ IsFiniteSet(Pending(o))
    BY TicksAreCounted DEF Emitting, Pending
  <2>2. Cardinality(Emitting(o) \ {t}) =
           IF t \in Emitting(o) THEN Cardinality(Emitting(o)) - 1 ELSE Cardinality(Emitting(o))
    BY <2>1, FS_RemoveElement
  <2>3. Cardinality(Pending(o) \ {t}) =
           IF t \in Pending(o) THEN Cardinality(Pending(o)) - 1 ELSE Cardinality(Pending(o))
    BY <2>1, FS_RemoveElement
  <2> QED
    BY <1>2, <2>2, <2>3
\* A row stays counted while the counts of its ticks do and the bound grows.
<1>5. ASSUME NEW o \in Orders, Bound' \in Nat, Bound' >= Bound,
             row'[o] = row[o] \/ (row[o] = "absent" /\ row'[o] = "waiting"),
             emitted'[o] = emitted[o],
             Emitting(o)' = Emitting(o), Pending(o)' = Pending(o)
      PROVE  Counted(o)'
  <2>1. Cardinality(Emitting(o))' = Cardinality(Emitting(o)) /\ Cardinality(Pending(o))' = Cardinality(Pending(o))
    BY <1>5
  <2>2. emitted[o] \in Nat /\ Counted(o)
    BY <1>0 DEF CountInv
  <2>3. Cardinality(Ticks)' = Cardinality(Ticks)
    OBVIOUS
  <2> QED
    BY <1>1, <1>2, <1>3, <1>5, <2>1, <2>2 DEF Counted
<1>6. ASSUME UNCHANGED <<tickPc, batch>>
      PROVE  \A o \in Orders : Emitting(o)' = Emitting(o) /\ Pending(o)' = Pending(o)
  BY <1>6 DEF Emitting, Pending, Current
<1>7. UNCHANGED <<errors, crashes>> => Bound' = Bound
  BY DEF Bound
<1>8. UNCHANGED crashes /\ errors' = errors + 1 => Bound' = Bound + 1
  BY <1>1 DEF Bound
<1>9. ASSUME NEW o \in Orders, CreateOrder(o) PROVE CountInv'
  <2>1. \A w \in Orders : row'[w] = row[w] \/ (row[w] = "absent" /\ row'[w] = "waiting")
    BY <1>0, <1>9 DEF CreateOrder, InsertRow
  <2>2. emitted' = emitted /\ Bound' = Bound
    BY <1>7, <1>9 DEF CreateOrder
  <2> QED
    BY <1>1, <1>5, <1>6, <1>9, <2>1, <2>2 DEF CreateOrder, tick, CountInv
<1>10. CreateFails => CountInv'
  <2> SUFFICES ASSUME CreateFails PROVE CountInv'
    OBVIOUS
  <2>1. \A w \in Orders : row'[w] = row[w] \/ (row[w] = "absent" /\ row'[w] = "waiting")
    BY <1>0 DEF CreateFails, InsertRow
  <2>2. emitted' = emitted /\ Bound' = Bound + 1
    BY <1>8 DEF CreateFails
  <2> QED
    BY <1>1, <1>5, <1>6, <2>1, <2>2 DEF CreateFails, tick, CountInv
<1>11. ASSUME NEW t \in Ticks, FindUnpublished(t) PROVE CountInv'
  <2>1. \A u \in Ticks \ {t} : tickPc'[u] = tickPc[u] /\ batch'[u] = batch[u]
    BY <1>0, <1>11 DEF FindUnpublished
  <2>2. tickPc[t] = "off" /\ tickPc'[t] = "emit" /\ batch'[t] \subseteq Waiting
    BY <1>0, <1>11 DEF FindUnpublished, FirstOf
  <2>3. \A o \in Orders : Emitting(o)' = Emitting(o)
    BY <2>1, <2>2 DEF Emitting, Current
  <2>4. \A o \in Orders : row[o] = "published" => Pending(o)' = Pending(o)
    BY <1>0, <2>1, <2>2, <2>3 DEF Pending, Waiting
  <2>5. row' = row /\ emitted' = emitted /\ Bound' = Bound
    BY <1>7, <1>11 DEF FindUnpublished
  <2> QED
    BY <2>3, <2>4, <2>5 DEF CountInv, Counted
<1>12. ASSUME NEW t \in Ticks, EmitRow(t) PROVE CountInv'
  <2>1. PICK o \in Orders : Current(t, o) /\ Publish(o)
    BY <1>12 DEF EmitRow
  <2>2. /\ tickPc[t] = "emit" /\ tickPc'[t] = "update" /\ batch' = batch /\ row' = row
        /\ \A u \in Ticks \ {t} : tickPc'[u] = tickPc[u]
        /\ emitted'[o] = emitted[o] + 1
        /\ \A p \in Orders \ {o} : emitted'[p] = emitted[p]
    BY <1>0, <1>12, <2>1 DEF EmitRow, Publish
  <2>3. \A p \in Orders : Current(t, p) => p = o
    BY <1>0, <2>1 DEF Current
  <2>4. \A u \in Ticks, p \in Orders : Current(u, p)' = Current(u, p)
    BY <2>2 DEF Current
  <2>5. t \notin Emitting(o) /\ Emitting(o)' = Emitting(o) \cup {t}
    BY <2>1, <2>2, <2>4 DEF Emitting
  <2>6. t \in Pending(o) /\ Pending(o)' = Pending(o) \ {t}
    BY <2>1, <2>2, <2>5 DEF Pending, Current
  <2>7. Cardinality(Emitting(o))' = Cardinality(Emitting(o)) + 1
    BY <2>5, TicksAreCounted, FS_AddElement DEF Emitting
  <2>8. Cardinality(Pending(o))' = Cardinality(Pending(o)) - 1
    BY <1>4, <2>6
  <2>9. Bound' = Bound
    BY <1>7, <1>12 DEF EmitRow
  <2>10. Counted(o)'
    <3>1. Counted(o) /\ emitted[o] \in Nat
      BY <1>0 DEF CountInv
    <3> QED
      BY <1>1, <1>2, <1>3, <2>2, <2>7, <2>8, <2>9, <3>1 DEF Counted
  <2>11. ASSUME NEW p \in Orders \ {o} PROVE Counted(p)'
    <3>1. Emitting(p)' = Emitting(p)
      BY <2>2, <2>3, <2>4 DEF Emitting
    <3>2. Pending(p)' = Pending(p)
      BY <2>2, <3>1 DEF Pending
    <3>3. emitted'[p] = emitted[p] /\ row'[p] = row[p] /\ Bound' >= Bound /\ Bound' \in Nat
      BY <1>1, <2>2, <2>9
    <3> QED
      BY <1>5, <3>1, <3>2, <3>3
  <2> QED
    BY <2>10, <2>11 DEF CountInv
\* A tick that advances past o, with or without a failure to pay for it.
<1>13. ASSUME NEW t \in Ticks, NEW o \in Orders, Current(t, o), Advance(t, o),
              Bound' \in Nat, Bound' >= Bound,
              \A p \in Orders \ {o} : row'[p] = row[p] /\ emitted'[p] = emitted[p],
              emitted'[o] \in Nat,
              \/ /\ row'[o] = row[o] /\ Bound' = Bound + 1
                 /\ \/ emitted'[o] = emitted[o]
                    \/ emitted'[o] = emitted[o] + 1 /\ tickPc[t] = "emit"
              \/ row'[o] = "published" /\ emitted'[o] = emitted[o] /\ tickPc[t] = "update"
       PROVE  CountInv'
  <2>1. /\ Emitting(o)' = Emitting(o) \ {t} /\ Pending(o)' = Pending(o) \ {t}
        /\ \A p \in Orders \ {o} : Emitting(p)' = Emitting(p) /\ Pending(p)' = Pending(p)
    BY <1>13, AdvanceCounts
  <2>2. \A p \in Orders \ {o} : Counted(p)'
    BY <1>5, <1>13, <2>1
  <2>3. t \in Emitting(o) <=> tickPc[t] = "update"
    BY <1>13 DEF Emitting
  <2>4. t \in Pending(o) <=> tickPc[t] = "emit"
    BY <1>0, <1>13, <2>3 DEF Pending, Current
  <2>5. /\ Cardinality(Emitting(o))' =
              Cardinality(Emitting(o)) - (IF tickPc[t] = "update" THEN 1 ELSE 0)
        /\ Cardinality(Pending(o))' =
              Cardinality(Pending(o)) - (IF tickPc[t] = "emit" THEN 1 ELSE 0)
    BY <1>4, <2>1, <2>3, <2>4
  <2>6. Counted(o) /\ emitted[o] \in Nat /\ Cardinality(Emitting(o)) \in Nat
        /\ Cardinality(Pending(o)) \in Nat
        /\ Cardinality(Emitting(o)) + Cardinality(Pending(o)) <= Cardinality(Ticks)
    BY <1>0, <1>2 DEF CountInv
  <2>7. Counted(o)'
    <3>1. CASE /\ row'[o] = row[o] /\ Bound' = Bound + 1
               /\ \/ emitted'[o] = emitted[o]
                  \/ emitted'[o] = emitted[o] + 1 /\ tickPc[t] = "emit"
      BY <1>1, <1>3, <2>5, <2>6, <3>1 DEF Counted
    <3>2. CASE row'[o] = "published" /\ emitted'[o] = emitted[o] /\ tickPc[t] = "update"
      <4>1. Bound' \in Nat /\ Bound' >= Bound
        BY <1>13
      <4> QED
        BY <1>1, <1>3, <2>5, <2>6, <3>2, <4>1 DEF Counted
    <3> QED
      BY <1>13, <3>1, <3>2
  <2> QED
    BY <2>2, <2>7 DEF CountInv
<1>14. ASSUME NEW t \in Ticks, UpdateRow(t) PROVE CountInv'
  <2>1. PICK o \in Orders : Current(t, o) /\ SetPublishedAt(o) /\ Advance(t, o)
    BY <1>14 DEF UpdateRow
  <2>2. /\ tickPc[t] = "update" /\ emitted' = emitted /\ Bound' = Bound
        /\ row'[o] = "published" /\ \A p \in Orders \ {o} : row'[p] = row[p]
    BY <1>0, <1>7, <1>14, <2>1 DEF UpdateRow, SetPublishedAt
  <2> QED
    BY <1>0, <1>1, <1>13, <2>1, <2>2
<1>15. ASSUME NEW t \in Ticks, CallFails(t) PROVE CountInv'
  <2>1. PICK o \in Orders :
          /\ Current(t, o) /\ Advance(t, o)
          /\ \/ UNCHANGED <<row, emitted>>
             \/ tickPc[t] = "emit" /\ Publish(o) /\ UNCHANGED row
             \/ tickPc[t] = "update" /\ SetPublishedAt(o) /\ UNCHANGED emitted
    BY <1>15 DEF CallFails
  <2>2. Bound' = Bound + 1
    BY <1>8, <1>15 DEF CallFails
  <2>3. \A p \in Orders \ {o} : row'[p] = row[p] /\ emitted'[p] = emitted[p]
    BY <1>0, <2>1 DEF Publish, SetPublishedAt
  <2>4. /\ emitted'[o] \in Nat
        /\ \/ /\ row'[o] = row[o] /\ Bound' = Bound + 1
              /\ \/ emitted'[o] = emitted[o]
                 \/ emitted'[o] = emitted[o] + 1 /\ tickPc[t] = "emit"
           \/ row'[o] = "published" /\ emitted'[o] = emitted[o] /\ tickPc[t] = "update"
    BY <1>0, <2>1, <2>2 DEF Publish, SetPublishedAt
  <2>5. Bound' \in Nat /\ Bound' >= Bound
    BY <1>1, <2>2
  <2> QED
    BY <1>13, <2>1, <2>3, <2>4, <2>5
<1>16. Crash => CountInv'
  <2> SUFFICES ASSUME Crash PROVE CountInv'
    OBVIOUS
  <2>1. \A o \in Orders : Emitting(o)' = {} /\ Pending(o)' = {}
    BY DEF Crash, Emitting, Pending
  <2>2. \A o \in Orders : Cardinality(Emitting(o))' = 0 /\ Cardinality(Pending(o))' = 0
    BY <2>1, FS_EmptySet
  <2>3. Bound' = Bound + Cardinality(Ticks)
    BY <1>1, <1>3, BoundIsNat DEF Bound, Crash
  <2>4. row' = row /\ emitted' = emitted
    BY DEF Crash
  <2>5. ASSUME NEW o \in Orders PROVE Counted(o)'
    <3>1. Counted(o) /\ emitted[o] \in Nat
      BY <1>0 DEF CountInv
    <3> QED
      BY <1>1, <1>2, <1>3, <2>2, <2>3, <2>4, <3>1 DEF Counted
  <2> QED
    BY <2>5 DEF CountInv
<1>17. UNCHANGED vars => CountInv'
  <2> SUFFICES ASSUME UNCHANGED vars PROVE CountInv'
    OBVIOUS
  <2>1. UNCHANGED <<row, emitted, tickPc, batch>> /\ Bound' = Bound
    BY <1>7 DEF vars, tick
  <2> QED
    BY <1>1, <1>5, <1>6, <2>1 DEF CountInv
<1> QED
  BY <1>9, <1>10, <1>11, <1>12, <1>14, <1>15, <1>16, <1>17 DEF Next, TickStep

\* No storm of copies (outbox-worker.service.ts): a row is in the topic at most
\* once per tick that can overlap, again after each crash, and once more for
\* each call that failed, with any number of rows, ticks and failures.
THEOREM CopiesHaveABound == Spec => []CopiesAreBounded
<1>1. Init => CountInv
  <2> SUFFICES ASSUME Init, NEW o \in Orders PROVE Counted(o)
    BY DEF CountInv
  <2>1. Emitting(o) = {} /\ row[o] # "published" /\ emitted[o] = 0
    BY DEF Init, Emitting
  <2>2. Bound = Cardinality(Ticks) * (0 + 1) + 0
    BY DEF Init, Bound
  <2>3. Cardinality(Ticks) * (0 + 1) = Cardinality(Ticks)
    BY TicksAreCounted
  <2> QED
    BY <2>1, <2>2, <2>3, FS_EmptySet, TicksAreCounted DEF Counted
<1>2. TypeOK /\ CountInv /\ [Next]_vars => CountInv'
  BY CountStep
<1>3. TypeOK /\ CountInv => CopiesAreBounded
  <2> SUFFICES ASSUME TypeOK, CountInv, NEW o \in Orders PROVE emitted[o] <= Bound
    BY DEF CopiesAreBounded, Bound
  <2>1. Counted(o) /\ emitted[o] \in Nat
    BY DEF CountInv, TypeOK
  <2> QED
    BY <2>1, BoundIsNat, TicksAreCounted, EmittingAndPending DEF Counted
<1> QED
  BY <1>1, <1>2, <1>3, OutboxTypeCorrect, PTL DEF Spec
=============================================================================
