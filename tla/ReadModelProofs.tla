-------------------------- MODULE ReadModelProofs --------------------------
(***************************************************************************)
(* Proofs about the read model's document, for any number of workers,      *)
(* topics and events, failed calls and restarts.                           *)
(*                                                                         *)
(* What a worker has read may be written long after, over newer updates,   *)
(* so the invariant is about the copies of the document that workers hold  *)
(* as much as about the document: each is one that the handled events      *)
(* could have led to.                                                      *)
(***************************************************************************)
EXTENDS OrderReadModel, SequenceTheorems, TLAPS

Labels == UNION {Elements(Arrivals[t]) : t \in Topics}
Statuses == {"none", "PENDING", "CONFIRMED", "CANCELLED"}
Docs == [status : Statuses, timeline : Seq(Labels)]

\* A topic has one worker at most, which is at an event of it.
WorkInv ==
    /\ next \in [Topics -> Nat \ {0}]
    /\ pc \in [Workers -> {"idle", "get", "index"}]
    /\ topic \in [Workers -> Topics \cup {NoTopic}]
    /\ \A w \in Workers :
          IF pc[w] = "idle" THEN topic[w] = NoTopic
          ELSE topic[w] \in Topics /\ next[topic[w]] \in DOMAIN Arrivals[topic[w]]
    /\ \A v, w \in Workers : topic[v] = topic[w] => v = w \/ topic[v] = NoTopic

LEMMA WorkStep ==
    ASSUME WorkInv, [Next]_vars
    PROVE  WorkInv'
<1> USE ReadModelAssumption DEF WorkInv
<1>1. ASSUME NEW w \in Workers, NEW t \in Topics, Receive(w, t) PROVE WorkInv'
  BY <1>1 DEF Receive
<1>2. ASSUME NEW w \in Workers, GetDocument(w) PROVE WorkInv'
  BY <1>2 DEF GetDocument
<1>3. ASSUME NEW w \in Workers, pc[w] # "idle", Finish(w) PROVE WorkInv'
  <2>1. /\ next' \in [Topics -> Nat \ {0}]
        /\ \A t \in Topics \ {topic[w]} : next'[t] = next[t]
    BY <1>3 DEF Finish
  <2>2. /\ topic'[w] = NoTopic /\ pc'[w] = "idle"
        /\ \A v \in Workers \ {w} : topic'[v] = topic[v] /\ pc'[v] = pc[v]
        /\ topic' \in [Workers -> Topics \cup {NoTopic}]
        /\ pc' \in [Workers -> {"idle", "get", "index"}]
    BY <1>3 DEF Finish
  <2>3. \A v \in Workers \ {w} : topic[v] # topic[w]
    BY <1>3
  <2>4. \A v \in Workers : IF pc'[v] = "idle" THEN topic'[v] = NoTopic
           ELSE topic'[v] \in Topics /\ next'[topic'[v]] \in DOMAIN Arrivals[topic'[v]]
    <3> SUFFICES ASSUME NEW v \in Workers, v # w, pc[v] # "idle"
                 PROVE  topic[v] \in Topics /\ next'[topic[v]] \in DOMAIN Arrivals[topic[v]]
      BY <2>2
    <3> QED
      BY <2>1, <2>3
  <2>5. \A v, u \in Workers : topic'[v] = topic'[u] => v = u \/ topic'[v] = NoTopic
    <3> SUFFICES ASSUME NEW v \in Workers, NEW u \in Workers, v # u, topic'[v] = topic'[u]
                 PROVE  topic'[v] = NoTopic
      OBVIOUS
    <3>1. CASE v # w /\ u # w
      <4>1. topic[v] = topic[u] /\ topic'[v] = topic[v]
        BY <2>2, <3>1
      <4> QED
        BY <4>1
    <3>2. CASE v = w \/ u = w
      BY <2>2, <3>2
    <3> QED
      BY <3>1, <3>2
  <2> QED
    BY <2>1, <2>2, <2>4, <2>5
<1>4. ASSUME NEW w \in Workers, IndexDocument(w) \/ Crash(w) PROVE WorkInv'
  BY <1>3, <1>4 DEF IndexDocument, Crash
<1>5. ASSUME NEW t \in Topics, Rejoin(t) PROVE WorkInv'
  <2>1. PICK n \in DOMAIN Arrivals[t] : n >= next[t] /\ next' = [next EXCEPT ![t] = n + 1]
    BY <1>5 DEF Rejoin
  <2>2. n + 1 \in Nat \ {0}
    <3>1. Arrivals[t] \in Seq(STRING)
      OBVIOUS
    <3> QED
      BY <2>1, <3>1
  <2>3. \A w \in Workers : topic[w] # t
    BY <1>5 DEF Rejoin
  <2> QED
    BY <1>5, <2>1, <2>2, <2>3 DEF Rejoin
<1>6. UNCHANGED vars => WorkInv'
  BY DEF vars
<1> QED
  BY <1>1, <1>2, <1>4, <1>5, <1>6 DEF Next

LEMMA WorkInvariant == Spec => []WorkInv
<1>1. Init => WorkInv
  BY ReadModelAssumption DEF Init, WorkInv
<1> QED
  BY <1>1, WorkStep, PTL DEF Spec

-----------------------------------------------------------------------------
(* What is good about a document.                                          *)

OutcomesIn(d) == {l \in Elements(d.timeline) : l \in DOMAIN NewStatus}

StatusFits(d) ==
    IF OutcomesIn(d) = {} THEN d.status \in {"none", "PENDING"}
    ELSE d.status \in {NewStatus[l] : l \in OutcomesIn(d)}

Distinct(d) ==
    \A m, n \in DOMAIN d.timeline : d.timeline[m] = d.timeline[n] => m = n

InTopicOrder(d) ==
    \A t \in Topics : \A m, n \in DOMAIN d.timeline :
        /\ d.timeline[m] \in Elements(Arrivals[t])
        /\ d.timeline[n] \in Elements(Arrivals[t])
        /\ Before(t, d.timeline[m], d.timeline[n])
        => m < n

\* It shows no event that is still to come.
Known(d) ==
    \A t \in Topics : Elements(d.timeline) \cap Elements(Arrivals[t]) \subseteq Handled(t)

WellFormed(d) == d \in Docs /\ StatusFits(d) /\ Distinct(d) /\ InTopicOrder(d)

LEMMA AppendIs ==
    ASSUME NEW S, NEW s \in Seq(S), NEW label \in S
    PROVE  /\ Append(s, label) \in Seq(S)
           /\ DOMAIN s = 1..Len(s) /\ Len(s) \in Nat
           /\ DOMAIN Append(s, label) = 1..(Len(s) + 1)
           /\ \A n \in DOMAIN s : Append(s, label)[n] = s[n]
           /\ Append(s, label)[Len(s) + 1] = label
           /\ Elements(Append(s, label)) = Elements(s) \cup {label}
<1>1. /\ Append(s, label) \in Seq(S)
      /\ DOMAIN s = 1..Len(s) /\ Len(s) \in Nat
      /\ DOMAIN Append(s, label) = 1..(Len(s) + 1)
      /\ \A n \in DOMAIN s : Append(s, label)[n] = s[n]
      /\ Append(s, label)[Len(s) + 1] = label
  <2>1. /\ Append(s, label) \in Seq(S) /\ Len(Append(s, label)) = Len(s) + 1
        /\ \A n \in 1..Len(s) : Append(s, label)[n] = s[n]
        /\ Append(s, label)[Len(s) + 1] = label
    BY AppendProperties
  <2>2. DOMAIN s = 1..Len(s) /\ Len(s) \in Nat
    BY LenProperties
  <2>3. DOMAIN Append(s, label) = 1..Len(Append(s, label))
    BY <2>1, LenProperties
  <2> QED
    BY <2>1, <2>2, <2>3
<1>2. \A n \in 1..(Len(s) + 1) : n \in 1..Len(s) \/ n = Len(s) + 1
  BY <1>1
<1>3. Elements(Append(s, label)) = Elements(s) \cup {label}
  <2>1. \A n \in DOMAIN s : n \in DOMAIN Append(s, label)
    BY <1>1
  <2>2. Len(s) + 1 \in DOMAIN Append(s, label)
    BY <1>1
  <2>3. Elements(Append(s, label)) \subseteq Elements(s) \cup {label}
    BY <1>1, <1>2 DEF Elements
  <2>4. Elements(s) \cup {label} \subseteq Elements(Append(s, label))
    <3>1. ASSUME NEW n \in DOMAIN s PROVE s[n] \in Elements(Append(s, label))
      BY <1>1, <2>1 DEF Elements
    <3>2. label \in Elements(Append(s, label))
      BY <1>1, <2>2 DEF Elements
    <3> QED
      BY <3>1, <3>2 DEF Elements
  <2> QED
    BY <2>3, <2>4
<1> QED
  BY <1>1, <1>3

LEMMA LabelIs ==
    ASSUME WorkInv, NEW w \in Workers, pc[w] # "idle"
    PROVE  /\ topic[w] \in Topics /\ Label(w) \in Labels
           /\ next[topic[w]] \in DOMAIN Arrivals[topic[w]]
           /\ Label(w) = Arrivals[topic[w]][next[topic[w]]]
<1>1. topic[w] \in Topics /\ next[topic[w]] \in DOMAIN Arrivals[topic[w]]
  BY DEF WorkInv
<1>2. Label(w) \in Elements(Arrivals[topic[w]])
  BY <1>1 DEF Label, Elements
<1> QED
  BY <1>1, <1>2 DEF Label, Labels

\* Events are handled in the order of their topic, so an event whose handler
\* adds its label comes before none that the document shows.
LEMMA AppliedIsWellFormed ==
    ASSUME WorkInv, NEW w \in Workers, pc[w] # "idle",
           NEW d, WellFormed(d), Known(d)
    PROVE  /\ WellFormed(Applied(d, Label(w)))
           /\ Elements(Applied(d, Label(w)).timeline) = Elements(d.timeline) \cup {Label(w)}
<1> DEFINE label == Label(w)
<1> DEFINE a == Applied(d, label)
<1>1. /\ topic[w] \in Topics /\ label \in Labels
      /\ next[topic[w]] \in DOMAIN Arrivals[topic[w]]
      /\ label = Arrivals[topic[w]][next[topic[w]]]
  BY LabelIs
<1>2. d.timeline \in Seq(Labels) /\ d.status \in Statuses
  BY DEF WellFormed, Docs
<1>3. /\ a.status = IF label \in DOMAIN NewStatus THEN NewStatus[label]
                    ELSE IF d = NoDocument THEN "PENDING" ELSE d.status
      /\ a.timeline = IF label \in Elements(d.timeline) THEN d.timeline
                      ELSE Append(d.timeline, label)
      /\ a = [status |-> a.status, timeline |-> a.timeline]
  BY DEF Applied
<1> HIDE DEF a, label
<1>4. /\ Append(d.timeline, label) \in Seq(Labels)
      /\ DOMAIN d.timeline = 1..Len(d.timeline) /\ Len(d.timeline) \in Nat
      /\ DOMAIN Append(d.timeline, label) = 1..(Len(d.timeline) + 1)
      /\ \A n \in DOMAIN d.timeline : Append(d.timeline, label)[n] = d.timeline[n]
      /\ Append(d.timeline, label)[Len(d.timeline) + 1] = label
      /\ Elements(Append(d.timeline, label)) = Elements(d.timeline) \cup {label}
  BY <1>1, <1>2, AppendIs
<1>5. Elements(a.timeline) = Elements(d.timeline) \cup {label}
  BY <1>3, <1>4
<1>6. DOMAIN NewStatus = {"OrderConfirmed", "OrderCancelled"}
      /\ NewStatus["OrderConfirmed"] = "CONFIRMED" /\ NewStatus["OrderCancelled"] = "CANCELLED"
  BY DEF NewStatus
<1>7. a \in Docs
  BY <1>2, <1>3, <1>4, <1>6 DEF Docs, Statuses
<1>8. StatusFits(a)
  <2>1. CASE label \in DOMAIN NewStatus
    <3>1. label \in OutcomesIn(a) /\ a.status = NewStatus[label]
      BY <1>3, <1>5, <2>1 DEF OutcomesIn
    <3> QED
      BY <3>1 DEF StatusFits
  <2>2. CASE label \notin DOMAIN NewStatus
    <3>1. OutcomesIn(a) = OutcomesIn(d)
      BY <1>5, <2>2 DEF OutcomesIn
    <3>2. StatusFits(d)
      BY DEF WellFormed
    <3>3. CASE d = NoDocument
      <4>1. OutcomesIn(d) = {}
        BY <3>3 DEF OutcomesIn, Elements, NoDocument
      <4> QED
        BY <1>3, <2>2, <3>1, <3>3, <4>1 DEF StatusFits
    <3>4. CASE d # NoDocument
      BY <1>3, <2>2, <3>1, <3>2, <3>4 DEF StatusFits
    <3> QED
      BY <3>3, <3>4
  <2> QED
    BY <2>1, <2>2
<1>9. Distinct(a) /\ InTopicOrder(a)
  <2>1. Distinct(d) /\ InTopicOrder(d)
    BY DEF WellFormed
  <2>2. CASE label \in Elements(d.timeline)
    BY <1>3, <2>1, <2>2 DEF Distinct, InTopicOrder
  <2>3. CASE label \notin Elements(d.timeline)
    <3>1. a.timeline = Append(d.timeline, label)
      BY <1>3, <2>3
    <3>2. \A n \in DOMAIN a.timeline :
             \/ n \in DOMAIN d.timeline /\ a.timeline[n] = d.timeline[n]
             \/ n = Len(d.timeline) + 1 /\ a.timeline[n] = label
      BY <1>4, <3>1
    <3>3. \A n \in DOMAIN d.timeline : d.timeline[n] # label
      BY <2>3 DEF Elements
    <3>4. Distinct(a)
      BY <2>1, <3>2, <3>3 DEF Distinct
    <3>5. ASSUME NEW t \in Topics, NEW n \in DOMAIN d.timeline,
                 label \in Elements(Arrivals[t]), d.timeline[n] \in Elements(Arrivals[t])
          PROVE  ~Before(t, label, d.timeline[n])
      <4>1. t = topic[w]
        <5>1. PICK k \in DOMAIN Arrivals[t] : Arrivals[t][k] = label
          BY <3>5 DEF Elements
        <5> QED
          BY <1>1, <5>1, ReadModelAssumption
      <4>2. d.timeline[n] \in Handled(t)
        BY <3>5 DEF Known, Elements
      <4>3. PICK j \in 1..(next[t] - 1) : Arrivals[t][j] = d.timeline[n]
        BY <4>2 DEF Handled
      <4>4. next[t] \in 1..Len(Arrivals[t]) /\ DOMAIN Arrivals[t] = 1..Len(Arrivals[t])
            /\ Len(Arrivals[t]) \in Nat
        BY <1>1, <4>1, ReadModelAssumption, LenProperties
      <4>5. j \in DOMAIN Arrivals[t] /\ ~(next[t] < j)
        BY <4>4
      <4> QED
        BY <1>1, <4>1, <4>3, <4>5 DEF Before
    <3>6. \A t \in Topics : ~Before(t, label, label) \/ label \notin Elements(Arrivals[t])
      <4>1. ASSUME NEW t \in Topics, NEW k \in DOMAIN Arrivals[t], Arrivals[t][k] = label
            PROVE  ~Before(t, label, label)
        <5>1. ~(k < k)
          BY ReadModelAssumption, LenProperties
        <5> QED
          BY <4>1, <5>1 DEF Before
      <4> QED
        BY <4>1 DEF Elements
    <3>7. \A n \in DOMAIN d.timeline : n < Len(d.timeline) + 1
      BY <1>4
    <3>8. InTopicOrder(a)
      BY <2>1, <3>2, <3>5, <3>6, <3>7 DEF InTopicOrder
    <3> QED
      BY <3>4, <3>8
  <2> QED
    BY <2>2, <2>3
<1> QED
  BY <1>5, <1>7, <1>8, <1>9 DEF WellFormed, a, label

-----------------------------------------------------------------------------
(* Every copy of the document is well formed, whenever it was read.        *)

DocInv ==
    /\ WellFormed(document) /\ Known(document)
    /\ existing \in [Workers -> Docs]
    /\ \A w \in Workers : WellFormed(existing[w]) /\ Known(existing[w])

LEMMA NoDocumentIsGood == WellFormed(NoDocument) /\ Known(NoDocument)
<1>1. NoDocument.timeline = <<>> /\ NoDocument.status = "none"
  BY DEF NoDocument
<1>2. <<>> \in Seq(Labels) /\ DOMAIN <<>> = {}
  OBVIOUS
<1>3. NoDocument \in Docs
  BY <1>2 DEF NoDocument, Docs, Statuses
<1>4. Elements(NoDocument.timeline) = {}
  BY <1>1, <1>2 DEF Elements
<1>5. StatusFits(NoDocument)
  BY <1>1, <1>4 DEF StatusFits, OutcomesIn
<1>6. Distinct(NoDocument) /\ InTopicOrder(NoDocument)
  BY <1>1, <1>2 DEF Distinct, InTopicOrder
<1> QED
  BY <1>3, <1>4, <1>5, <1>6 DEF WellFormed, Known

LEMMA FinishHandles ==
    ASSUME WorkInv, NEW w \in Workers, pc[w] # "idle", Finish(w)
    PROVE  /\ \A t \in Topics : Handled(t) \subseteq Handled(t)'
           /\ \A t \in Topics : t = topic[w] => Label(w) \in Handled(t)'
<1>1. /\ topic[w] \in Topics /\ next[topic[w]] \in Nat \ {0}
      /\ next'[topic[w]] = next[topic[w]] + 1
      /\ \A t \in Topics : next[t] \in Nat
      /\ \A t \in Topics \ {topic[w]} : next'[t] = next[t]
  BY DEF WorkInv, Finish
<1>2. \A t \in Topics : 1..(next[t] - 1) \subseteq 1..(next'[t] - 1)
  BY <1>1
<1>3. next[topic[w]] \in 1..(next'[topic[w]] - 1)
  BY <1>1
<1>4. Label(w) = Arrivals[topic[w]][next[topic[w]]]
  BY DEF Label
<1>5. ASSUME NEW t \in Topics PROVE Handled(t)' = {Arrivals[t][n] : n \in 1..(next'[t] - 1)}
  BY DEF Handled
<1>6. \A t \in Topics : Handled(t) \subseteq Handled(t)'
  BY <1>2, <1>5 DEF Handled
<1>7. ASSUME NEW t \in Topics, t = topic[w] PROVE Label(w) \in Handled(t)'
  BY <1>3, <1>4, <1>5, <1>7
<1> QED
  BY <1>6, <1>7

LEMMA FinishKeeps ==
    ASSUME WorkInv, DocInv, NEW w \in Workers, pc[w] # "idle", Finish(w),
           document' \in {document, Applied(existing[w], Label(w))}
    PROVE  DocInv'
<1> DEFINE applied == Applied(existing[w], Label(w))
<1>1. /\ \A t \in Topics : Handled(t) \subseteq Handled(t)'
      /\ \A t \in Topics : t = topic[w] => Label(w) \in Handled(t)'
  BY FinishHandles
<1>2. /\ WellFormed(applied)
      /\ Elements(applied.timeline) = Elements(existing[w].timeline) \cup {Label(w)}
  BY AppliedIsWellFormed DEF DocInv
<1> HIDE DEF applied
<1>3. ASSUME NEW d, Known(d), NEW t \in Topics
      PROVE  Elements(d.timeline) \cap Elements(Arrivals[t]) \subseteq Handled(t)'
  BY <1>1, <1>3 DEF Known
<1>4. ASSUME NEW t \in Topics
      PROVE  Elements(applied.timeline) \cap Elements(Arrivals[t]) \subseteq Handled(t)'
  <2>1. Elements(existing[w].timeline) \cap Elements(Arrivals[t]) \subseteq Handled(t)'
    BY <1>1 DEF DocInv, Known
  <2>2. Label(w) \in Elements(Arrivals[t]) => t = topic[w]
    <3>1. ASSUME NEW k \in DOMAIN Arrivals[t], Arrivals[t][k] = Label(w) PROVE t = topic[w]
      BY <3>1, LabelIs, ReadModelAssumption
    <3> QED
      BY <3>1 DEF Elements
  <2> QED
    BY <1>1, <1>2, <2>1, <2>2
<1>5. existing' = [existing EXCEPT ![w] = NoDocument]
  BY DEF Finish
<1>6. \A v \in Workers : existing'[v] = existing[v] \/ existing'[v] = NoDocument
  BY <1>5 DEF DocInv
<1>7. existing' \in [Workers -> Docs]
  BY <1>5, NoDocumentIsGood DEF DocInv, WellFormed
<1>8. WellFormed(document') /\ \A v \in Workers : WellFormed(existing'[v])
  BY <1>2, <1>6, NoDocumentIsGood DEF DocInv, applied
<1>9. ASSUME NEW t \in Topics
      PROVE  Elements(document'.timeline) \cap Elements(Arrivals[t]) \subseteq Handled(t)'
  <2>1. Elements(document.timeline) \cap Elements(Arrivals[t]) \subseteq Handled(t)'
    BY <1>1 DEF DocInv, Known
  <2> QED
    BY <1>4, <2>1 DEF applied
<1>10. ASSUME NEW v \in Workers, NEW t \in Topics
       PROVE  Elements(existing'[v].timeline) \cap Elements(Arrivals[t]) \subseteq Handled(t)'
  <2>1. Known(existing[v]) /\ Known(NoDocument)
    BY NoDocumentIsGood DEF DocInv
  <2> QED
    BY <1>1, <1>6, <2>1 DEF Known
<1> QED
  BY <1>7, <1>8, <1>9, <1>10 DEF DocInv, Known, WellFormed, Docs

LEMMA DocStep ==
    ASSUME WorkInv, DocInv, [Next]_vars
    PROVE  DocInv'
<1>1. ASSUME NEW w \in Workers, NEW t \in Topics, Receive(w, t) PROVE DocInv'
  <2> QED
    BY <1>1 DEF Receive, DocInv, Known, Handled
<1>2. ASSUME NEW w \in Workers, GetDocument(w) PROVE DocInv'
  <2>1. next' = next /\ document' = document
        /\ existing' \in {[existing EXCEPT ![w] = document], [existing EXCEPT ![w] = NoDocument]}
    BY <1>2 DEF GetDocument
  <2>2. \A v \in Workers : existing'[v] \in {existing[v], document, NoDocument}
    BY <2>1 DEF DocInv
  <2>3. existing' \in [Workers -> Docs]
    BY <2>1, NoDocumentIsGood DEF DocInv, WellFormed
  <2>4. \A v \in Workers : WellFormed(existing'[v]) /\ Known(existing'[v])
    BY <2>2, NoDocumentIsGood DEF DocInv
  <2> QED
    BY <2>1, <2>3, <2>4 DEF DocInv, Known, Handled
<1>3. ASSUME NEW w \in Workers, IndexDocument(w) PROVE DocInv'
  <2>1. /\ pc[w] # "idle" /\ Finish(w)
        /\ document' \in {document, Applied(existing[w], Label(w))}
    BY <1>3 DEF IndexDocument
  <2> QED
    BY <2>1, FinishKeeps
<1>4. ASSUME NEW w \in Workers, Crash(w) PROVE DocInv'
  <2>1. /\ pc[w] # "idle" /\ Finish(w)
        /\ document' \in {document, Applied(existing[w], Label(w))}
    BY <1>4 DEF Crash
  <2> QED
    BY <2>1, FinishKeeps
<1>5. ASSUME NEW u \in Topics, Rejoin(u) PROVE DocInv'
  <2>1. PICK k \in DOMAIN Arrivals[u] : k >= next[u] /\ next' = [next EXCEPT ![u] = k + 1]
    BY <1>5 DEF Rejoin
  <2>2. k \in Nat /\ next \in [Topics -> Nat \ {0}]
    <3>1. Arrivals[u] \in Seq(STRING)
      BY ReadModelAssumption
    <3> QED
      BY <2>1, <3>1 DEF WorkInv
  <2>3. \A t \in Topics : 1..(next[t] - 1) \subseteq 1..(next'[t] - 1)
    BY <2>1, <2>2
  <2>4. \A t \in Topics : Handled(t) \subseteq Handled(t)'
    BY <2>3 DEF Handled
  <2>5. document' = document /\ existing' = existing
    BY <1>5 DEF Rejoin
  <2> QED
    BY <2>4, <2>5 DEF DocInv, Known
<1>6. UNCHANGED vars => DocInv'
  BY DEF vars, DocInv, Known, Handled
<1> QED
  BY <1>1, <1>2, <1>3, <1>4, <1>5, <1>6 DEF Next

LEMMA DocInvariant == Spec => []DocInv
<1>1. Init => DocInv
  BY NoDocumentIsGood DEF Init, DocInv, WellFormed
<1> QED
  BY <1>1, WorkInvariant, DocStep, PTL DEF Spec

-----------------------------------------------------------------------------
\* What was handled had arrived.
CameInv == \A t \in Topics : next[t] - 1 \in 0..Len(Arrivals[t])

LEMMA CameInvariant == Spec => []CameInv
<1>1. \A t \in Topics : DOMAIN Arrivals[t] = 1..Len(Arrivals[t]) /\ Len(Arrivals[t]) \in Nat
  BY ReadModelAssumption, LenProperties
<1>2. Init => CameInv
  BY <1>1 DEF Init, CameInv
<1>3. ASSUME WorkInv, CameInv, [Next]_vars PROVE CameInv'
  <2>1. ASSUME NEW w \in Workers, pc[w] # "idle", Finish(w) PROVE CameInv'
    BY <1>1, <1>3, <2>1 DEF WorkInv, CameInv, Finish
  <2>2. ASSUME NEW t \in Topics, Rejoin(t) PROVE CameInv'
    BY <1>1, <1>3, <2>2 DEF WorkInv, CameInv, Rejoin
  <2>3. UNCHANGED next => CameInv'
    BY <1>3 DEF CameInv
  <2> QED
    BY <1>3, <2>1, <2>2, <2>3
       DEF Next, vars, Receive, GetDocument, IndexDocument, Crash
<1> QED
  BY <1>2, <1>3, WorkInvariant, PTL DEF Spec

LEMMA HandledHaveCome ==
    ASSUME WorkInv, CameInv, NEW t \in Topics
    PROVE  Handled(t) \subseteq Elements(Arrivals[t])
<1>1. DOMAIN Arrivals[t] = 1..Len(Arrivals[t]) /\ Len(Arrivals[t]) \in Nat
  BY ReadModelAssumption, LenProperties
<1>2. 1..(next[t] - 1) \subseteq DOMAIN Arrivals[t]
  BY <1>1 DEF WorkInv, CameInv
<1> QED
  BY <1>2 DEF Handled, Elements

LEMMA DocumentInOrder ==
    ASSUME WorkInv, CameInv, DocInv
    PROVE  TopicOrderIsKept
<1>1. Distinct(document) /\ InTopicOrder(document)
  BY DEF DocInv, WellFormed
<1>2. ASSUME NEW l \in Shown
      PROVE  Position(l) \in DOMAIN document.timeline /\ document.timeline[Position(l)] = l
  BY <1>2 DEF Shown, Elements, Position
<1>3. ASSUME NEW t \in Topics, NEW a \in Handled(t) \cap Shown,
             NEW b \in Handled(t) \cap Shown, Before(t, a, b)
      PROVE  Position(a) < Position(b)
  <2>1. a \in Elements(Arrivals[t]) /\ b \in Elements(Arrivals[t])
    BY HandledHaveCome
  <2> QED
    BY <1>1, <1>2, <1>3, <2>1 DEF InTopicOrder
<1> QED
  BY <1>1, <1>3 DEF TopicOrderIsKept, Distinct

\* The timeline shows no event twice, and the events of one topic in the order
\* of that topic, whichever worker wrote which stale copy last (applyEvent,
\* service.ts:48-75).
THEOREM TimelineIsInTopicOrder == Spec => []TopicOrderIsKept
<1> QED
  BY WorkInvariant, CameInvariant, DocInvariant, DocumentInOrder, PTL

\* The status and the timeline of the document agree, whichever worker wrote
\* which stale copy last (applyEvent, service.ts:48-75).
THEOREM StatusFitsTimeline == Spec => []StatusMatchesTimeline
<1>1. DocInv => StatusMatchesTimeline
  BY DEF DocInv, WellFormed, StatusFits, OutcomesIn, StatusMatchesTimeline, Shown
<1> QED
  BY <1>1, DocInvariant, PTL
=============================================================================
