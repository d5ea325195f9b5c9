---------------------------- MODULE OrderOutbox ----------------------------
(***************************************************************************)
(* The order producer: createOrder writes the order and its outbox row in  *)
(* one transaction, and outbox-worker.service.ts publishes the rows.  A    *)
(* timer starts a tick every POLL_MS whether or not the last one has       *)
(* ended, so ticks overlap.  A tick reads a batch of unpublished rows,     *)
(* then emits each to Kafka and sets its publishedAt: three awaits, and    *)
(* any of them may fail, having taken effect or not.                       *)
(*                                                                         *)
(* An order stands for its outbox row as well.  Its number is the row's    *)
(* id: the sequence hands ids out before the transactions commit, so rows  *)
(* become visible in any order.                                            *)
(***************************************************************************)
EXTENDS Naturals, FiniteSets

CONSTANTS
    Orders,        \* by the id of their outbox row
    Ticks,         \* ticks that may be under way at once
    Take,          \* rows a tick reads
    MaxErrors,     \* bound on failed calls
    MaxCrashes     \* bound on crashes of the process

ASSUME OutboxAssumption ==
    /\ Orders \subseteq Nat
    /\ IsFiniteSet(Ticks)
    /\ Take \in Nat \ {0}
    /\ MaxErrors \in Nat
    /\ MaxCrashes \in Nat

VARIABLES
    row,           \* "absent", "waiting" (publishedAt null) or "published"
    emitted,       \* how often each order's OrderCreated is in order.events
    tickPc, batch, \* each tick: where it is, and the rows it has left
    errors, crashes

tick == <<tickPc, batch>>
vars == <<row, emitted, tick, errors, crashes>>

Init ==
    /\ row = [o \in Orders |-> "absent"]
    /\ emitted = [o \in Orders |-> 0]
    /\ tickPc = [t \in Ticks |-> "off"]
    /\ batch = [t \in Ticks |-> {}]
    /\ errors = 0
    /\ crashes = 0

-----------------------------------------------------------------------------
InsertRow(o) == row[o] = "absent" /\ row' = [row EXCEPT ![o] = "waiting"]

CreateOrder(o) == InsertRow(o) /\ UNCHANGED <<emitted, tick, errors, crashes>>

\* The transaction fails, committed or not.
CreateFails ==
    /\ errors < MaxErrors
    /\ errors' = errors + 1
    /\ UNCHANGED row \/ \E o \in Orders : InsertRow(o)
    /\ UNCHANGED <<emitted, tick, crashes>>

Waiting == {o \in Orders : row[o] = "waiting"}

FirstOf(S) == {o \in S : Cardinality({p \in S : p < o}) < Take}

\* Mutated form: a cursor, rows after the last published id.
FindAfterLast(t) ==
    LET rows == {o \in Waiting : \A p \in Orders : row[p] = "published" => p < o}
    IN  /\ tickPc[t] = "off"
        /\ rows # {}
        /\ batch' = [batch EXCEPT ![t] = FirstOf(rows)]
        /\ tickPc' = [tickPc EXCEPT ![t] = "emit"]
        /\ UNCHANGED <<row, emitted, errors, crashes>>

FindUnpublished(t) ==
    /\ tickPc[t] = "off"
    /\ Waiting # {}
    /\ batch' = [batch EXCEPT ![t] = FirstOf(Waiting)]
    /\ tickPc' = [tickPc EXCEPT ![t] = "emit"]
    /\ UNCHANGED <<row, emitted, errors, crashes>>

Current(t, o) == o \in batch[t] /\ \A p \in batch[t] : o <= p

\* Mutated form: the loop does not end with its batch.
AdvanceOn(t, o) ==
    /\ batch' = [batch EXCEPT ![t] = @ \ {o}]
    /\ tickPc' = [tickPc EXCEPT ![t] = "emit"]

\* On to the batch's next row, or the end of the tick.
Advance(t, o) ==
    /\ batch' = [batch EXCEPT ![t] = @ \ {o}]
    /\ tickPc' = [tickPc EXCEPT ![t] = IF batch[t] = {o} THEN "off" ELSE "emit"]

Publish(o) == emitted' = [emitted EXCEPT ![o] = @ + 1]
SetPublishedAt(o) == row' = [row EXCEPT ![o] = "published"]

EmitRow(t) ==
    /\ tickPc[t] = "emit"
    /\ \E o \in Orders : Current(t, o) /\ Publish(o)
    /\ tickPc' = [tickPc EXCEPT ![t] = "update"]
    /\ UNCHANGED <<row, batch, errors, crashes>>

\* Mutated form: the row stays unpublished.
NoUpdateRow(t) ==
    /\ tickPc[t] = "update"
    /\ \E o \in Orders : Current(t, o) /\ Advance(t, o)
    /\ UNCHANGED <<row, emitted, errors, crashes>>

UpdateRow(t) ==
    /\ tickPc[t] = "update"
    /\ \E o \in Orders : Current(t, o) /\ SetPublishedAt(o) /\ Advance(t, o)
    /\ UNCHANGED <<emitted, errors, crashes>>

\* Mutated form: a failed emit is logged, and the row updated all the same.
CallFailsUnnoticed(t) ==
    /\ errors < MaxErrors
    /\ errors' = errors + 1
    /\ \E o \in Orders :
          /\ Current(t, o)
          /\ \/ tickPc[t] = "emit" /\ SetPublishedAt(o) /\ UNCHANGED emitted
             \/ tickPc[t] = "update" /\ UNCHANGED <<row, emitted>>
          /\ Advance(t, o)
    /\ UNCHANGED crashes

\* The inner catch skips the row until a later tick reads it again.
CallFails(t) ==
    /\ errors < MaxErrors
    /\ errors' = errors + 1
    /\ \E o \in Orders :
          /\ Current(t, o)
          /\ \/ UNCHANGED <<row, emitted>>
             \/ tickPc[t] = "emit" /\ Publish(o) /\ UNCHANGED row
             \/ tickPc[t] = "update" /\ SetPublishedAt(o) /\ UNCHANGED emitted
          /\ Advance(t, o)
    /\ UNCHANGED crashes

\* The process dies and restarts, with all its ticks.
Crash ==
    /\ crashes < MaxCrashes
    /\ crashes' = crashes + 1
    /\ tickPc' = [t \in Ticks |-> "off"]
    /\ batch' = [t \in Ticks |-> {}]
    /\ UNCHANGED <<row, emitted, errors>>

TickStep(t) == FindUnpublished(t) \/ EmitRow(t) \/ UpdateRow(t)

Next ==
    \/ \E o \in Orders : CreateOrder(o)
    \/ CreateFails
    \/ \E t \in Ticks : TickStep(t) \/ CallFails(t)
    \/ Crash

Spec == Init /\ [][Next]_vars

-----------------------------------------------------------------------------
TypeOK ==
    /\ row \in [Orders -> {"absent", "waiting", "published"}]
    /\ emitted \in [Orders -> Nat]
    /\ tickPc \in [Ticks -> {"off", "emit", "update"}]
    /\ batch \in [Ticks -> SUBSET Orders]
    /\ \A t \in Ticks : tickPc[t] = "off" <=> batch[t] = {}
    /\ errors \in 0..MaxErrors
    /\ crashes \in 0..MaxCrashes

\* At least once (README.md:131): a row with a publishedAt is in the topic,
\* whichever of the overlapping ticks set it and whatever failed before.
PublishedIsEmitted == \A o \in Orders : row[o] = "published" => emitted[o] > 0

\* How far from exactly once: a row is emitted again only by a tick that read
\* it before it was marked, after a failed call, or after a crash.
CopiesAreBounded ==
    \A o \in Orders :
        emitted[o] <= Cardinality(Ticks) * (crashes + 1) + errors

\* The timer keeps firing, and the event loop runs the ticks; orders come or
\* not.  Nothing obliges a call to fail.
FairSpec == Spec /\ \A t \in Ticks : WF_vars(TickStep(t))

\* Every order of a committed transaction is published, though newer rows
\* come in and every tick takes Take rows only.
EveryOrderIsPublished ==
    \A o \in Orders : row[o] = "waiting" ~> row[o] = "published"
=============================================================================
