--------------------------- MODULE OrderReadModel ---------------------------
(***************************************************************************)
(* The read model's document of one order (documents of different orders   *)
(* do not touch): applyEvent reads it, adds the event's label to its       *)
(* timeline and writes it back, under withRetryAndDlq.  A read that fails  *)
(* counts as an absent document, a write that fails is logged; applyEvent  *)
(* never throws, so nothing is tried again or sent to the DLQ.             *)
(*                                                                         *)
(* Kafka keeps the order's events in order topic by topic: a worker takes  *)
(* the next event of a topic that no worker is handling.  No offset is     *)
(* committed, so a topic that changes hands goes on at its end.            *)
(***************************************************************************)
EXTENDS Naturals, Sequences

CONSTANTS
    Workers,       \* members of the consumer group
    Topics,
    Arrivals,      \* the labels of the order's events in each topic
    MaxErrors,     \* bound on failed calls
    MaxRestarts    \* bound on crashes and on groups that rejoin

NoTopic == "none"

ASSUME ReadModelAssumption ==
    /\ Arrivals \in [Topics -> Seq(STRING)]
    /\ \A t, u \in Topics : \A m \in DOMAIN Arrivals[t], n \in DOMAIN Arrivals[u] :
          Arrivals[t][m] = Arrivals[u][n] => t = u    \* a type has one topic
    /\ NoTopic \notin Topics
    /\ MaxErrors \in Nat
    /\ MaxRestarts \in Nat

NoDocument == [status |-> "none", timeline |-> <<>>]
NewStatus == [OrderConfirmed |-> "CONFIRMED", OrderCancelled |-> "CANCELLED"]

VARIABLES
    document,      \* the order's document in ORDER_INDEX
    next,          \* the next event of each topic
    dlq,           \* labels of the events sent to the DLQ
    pc, topic, existing,   \* each worker: where it is, what it handles and read
    errors, restarts

vars == <<document, next, dlq, pc, topic, existing, errors, restarts>>

Init ==
    /\ document = NoDocument
    /\ next = [t \in Topics |-> 1]
    /\ dlq = {}
    /\ pc = [w \in Workers |-> "idle"]
    /\ topic = [w \in Workers |-> NoTopic]
    /\ existing = [w \in Workers |-> NoDocument]
    /\ errors = 0
    /\ restarts = 0

Elements(s) == {s[n] : n \in DOMAIN s}
Label(w) == Arrivals[topic[w]][next[topic[w]]]

\* Mutated forms: a timeline that grows at the front, and a status that starts
\* again with every event.
AppliedInFront(d, label) ==
    [status   |-> IF label \in DOMAIN NewStatus THEN NewStatus[label]
                  ELSE IF d = NoDocument THEN "PENDING" ELSE d.status,
     timeline |-> IF label \in Elements(d.timeline) THEN d.timeline
                  ELSE <<label>> \o d.timeline]

AppliedAfresh(d, label) ==
    [status   |-> IF label \in DOMAIN NewStatus THEN NewStatus[label] ELSE "PENDING",
     timeline |-> IF label \in Elements(d.timeline) THEN d.timeline
                  ELSE Append(d.timeline, label)]

\* The document after an event, from the document that was read.
Applied(d, label) ==
    [status   |-> IF label \in DOMAIN NewStatus THEN NewStatus[label]
                  ELSE IF d = NoDocument THEN "PENDING" ELSE d.status,
     timeline |-> IF label \in Elements(d.timeline) THEN d.timeline
                  ELSE Append(d.timeline, label)]

-----------------------------------------------------------------------------
Receive(w, t) ==
    /\ pc[w] = "idle"
    /\ next[t] \in DOMAIN Arrivals[t]
    /\ \A v \in Workers : topic[v] # t
    /\ topic' = [topic EXCEPT ![w] = t]
    /\ pc' = [pc EXCEPT ![w] = "get"]
    /\ UNCHANGED <<document, next, dlq, existing, errors, restarts>>

GetDocument(w) ==
    /\ pc[w] = "get"
    /\ \/ existing' = [existing EXCEPT ![w] = document] /\ UNCHANGED errors
       \/ \* the read fails: { found: false }
          /\ errors < MaxErrors
          /\ errors' = errors + 1
          /\ existing' = [existing EXCEPT ![w] = NoDocument]
    /\ pc' = [pc EXCEPT ![w] = "index"]
    /\ UNCHANGED <<document, next, dlq, topic, restarts>>

\* The worker is done with its event, or dies with it.
Finish(w) ==
    /\ next' = [next EXCEPT ![topic[w]] = @ + 1]
    /\ topic' = [topic EXCEPT ![w] = NoTopic]
    /\ existing' = [existing EXCEPT ![w] = NoDocument]
    /\ pc' = [pc EXCEPT ![w] = "idle"]

\* applyEvent returns, and the worker goes on to its next event.
IndexDocument(w) ==
    /\ pc[w] = "index"
    /\ LET applied == Applied(existing[w], Label(w))
       IN  \/ document' = applied /\ UNCHANGED errors
           \/ \* the write fails, or seems to
              /\ errors < MaxErrors
              /\ errors' = errors + 1
              /\ document' \in {document, applied}
    /\ Finish(w)
    /\ UNCHANGED <<dlq, restarts>>

\* The write it had sent may be done.
Crash(w) ==
    /\ restarts < MaxRestarts
    /\ pc[w] # "idle"
    /\ restarts' = restarts + 1
    /\ UNCHANGED document \/ (pc[w] = "index" /\ document' = Applied(existing[w], Label(w)))
    /\ Finish(w)
    /\ UNCHANGED <<dlq, errors>>

\* The topic goes to another member, and what waits in it is never handled.
Rejoin(t) ==
    /\ restarts < MaxRestarts
    /\ \A w \in Workers : topic[w] # t
    /\ restarts' = restarts + 1
    /\ \E n \in DOMAIN Arrivals[t] : n >= next[t] /\ next' = [next EXCEPT ![t] = n + 1]
    /\ UNCHANGED <<document, dlq, pc, topic, existing, errors>>

Next ==
    \/ \E w \in Workers : \/ \E t \in Topics : Receive(w, t)
                          \/ GetDocument(w) \/ IndexDocument(w) \/ Crash(w)
    \/ \E t \in Topics : Rejoin(t)

Spec == Init /\ [][Next]_vars

-----------------------------------------------------------------------------
Handled(t) == {Arrivals[t][n] : n \in 1..(next[t] - 1)}
Shown == Elements(document.timeline)
Position(label) == CHOOSE n \in DOMAIN document.timeline : document.timeline[n] = label

\* Every a in the topic comes before every b.
Before(t, a, b) ==
    \A m, n \in DOMAIN Arrivals[t] : Arrivals[t][m] = a /\ Arrivals[t][n] = b => m < n

\* The timeline shows no label twice, and what it shows of one topic is in the
\* topic's order, though a label may have been lost, and added again by a
\* duplicate, to a document that another worker read long ago (applyEvent).
TopicOrderIsKept ==
    /\ \A m, n \in DOMAIN document.timeline :
          document.timeline[m] = document.timeline[n] => m = n
    /\ \A t \in Topics : \A a, b \in Handled(t) \cap Shown :
          Before(t, a, b) => Position(a) < Position(b)

\* The two fields of the document never disagree, whatever failed and whoever
\* overwrote whose update: an order shown as CONFIRMED or CANCELLED has the
\* event in its timeline, one shown as PENDING has neither.
StatusMatchesTimeline ==
    LET outcomes == {l \in Shown : l \in DOMAIN NewStatus}
    IN  IF outcomes = {} THEN document.status \in {"none", "PENDING"}
        ELSE document.status \in {NewStatus[l] : l \in outcomes}

\* README.md:32, "Uses retry + DLQ (order.dlq)": an event that was handled is in
\* the timeline or in the DLQ.
HandledOrInDlq ==
    \A t \in Topics : Handled(t) \subseteq Shown \cup dlq
=============================================================================
