---------------------------- MODULE AuditProofs ----------------------------
(***************************************************************************)
(* Proofs about the audit consumer, for any number of events, copies,      *)
(* replicas and requests under way.                                        *)
(***************************************************************************)
EXTENDS AuditIndexer, FiniteSetTheorems, TLAPS

LEMMA AuditTypeStep ==
    ASSUME TypeOK, [Next]_vars
    PROVE  TypeOK'
<1> USE AuditAssumption DEF TypeOK, At, Goto, Empty
<1>1. ASSUME NEW r \in Replicas, Start(r) PROVE TypeOK'
  BY <1>1 DEF Start, faults
<1>2. ASSUME Rejoin PROVE inbox' \in [Events -> 0..MaxCopies]
  BY <1>2 DEF Rejoin
<1>3. ASSUME NEW r \in Replicas, CheckIndex(r) PROVE TypeOK'
  BY <1>2, <1>3 DEF CheckIndex, faults
<1>4. ASSUME NEW r \in Replicas, CreateIndex(r) PROVE TypeOK'
  BY <1>2, <1>4 DEF CreateIndex, faults
<1>5. ASSUME NEW r \in Replicas, StartFails(r) PROVE TypeOK'
  <2>1. exists' \in BOOLEAN /\ (exists => exists')
    <3>1. exists' = exists \/ exists' = TRUE
      BY <1>5 DEF StartFails
    <3>2. exists \in BOOLEAN
      OBVIOUS
    <3>3. CASE exists' = exists
      BY <3>2, <3>3, Zenon
    <3>4. CASE exists' = TRUE
      BY <3>4, Zenon
    <3> QED
      BY <3>1, <3>3, <3>4, Zenon
  <2>2. pc' \in [Replicas -> {"off", "check", "create", "up", "dead"}]
    BY <1>5 DEF StartFails
  <2>3. \A u \in Replicas : pc'[u] = "up" => pc[u] = "up"
    BY <1>5 DEF StartFails
  <2>4. pc[r] \in {"check", "create"}
    BY <1>5 DEF StartFails
  <2>5. errors' \in 0..MaxErrors /\ UNCHANGED <<inbox, indexed, buffer, requests, received, stops>>
    BY <1>5 DEF StartFails
  <2> QED
    BY <1>5, <2>1, <2>2, <2>3, <2>4, <2>5 DEF StartFails
<1>6. ASSUME NEW r \in Replicas, NEW batch \in SUBSET Events, At(r, "up"), UNCHANGED pc,
             Flush(r, batch) \/ Keep(r, batch), exists' = exists
      PROVE  /\ buffer' \in [Replicas -> SUBSET Events]
             /\ requests' \in [Replicas -> [Slots -> SUBSET Events]]
             /\ \A u \in Replicas : IF pc'[u] = "up" THEN exists'
                                    ELSE buffer'[u] = {} /\ requests'[u] = Empty
  <2>1. buffer' \in [Replicas -> SUBSET Events]
    BY <1>6 DEF Flush, Keep
  <2>2. /\ requests' \in [Replicas -> [Slots -> SUBSET Events]]
        /\ \A u \in Replicas \ {r} : requests'[u] = requests[u] /\ buffer'[u] = buffer[u]
    <3>1. CASE Keep(r, batch)
      BY <3>1 DEF Keep
    <3>2. CASE Flush(r, batch)
      BY <3>2 DEF Flush
    <3> QED
      BY <1>6, <3>1, <3>2
  <2> QED
    BY <1>6, <2>1, <2>2
<1>7. ASSUME NEW r \in Replicas, IndexEvent(r) PROVE TypeOK'
  <2>1. PICK e \in Events :
          /\ inbox[e] > 0
          /\ inbox' = [inbox EXCEPT ![e] = @ - 1]
          /\ received' = received \cup {e}
          /\ Flush(r, buffer[r] \cup {e}) \/ Keep(r, buffer[r] \cup {e})
    BY <1>7 DEF IndexEvent
  <2>2. At(r, "up") /\ UNCHANGED <<exists, indexed, pc, faults>>
    BY <1>7 DEF IndexEvent
  <2>3. inbox' \in [Events -> 0..MaxCopies] /\ received' \subseteq Events
    BY <2>1
  <2>4. buffer[r] \cup {e} \in SUBSET Events
    OBVIOUS
  <2> QED
    BY <1>6, <2>1, <2>2, <2>3, <2>4 DEF faults
<1>8. ASSUME NEW r \in Replicas, Timer(r) PROVE TypeOK'
  <2>1. buffer[r] \in SUBSET Events
    OBVIOUS
  <2> QED
    BY <1>6, <1>8, <2>1 DEF Timer, faults
<1>9. ASSUME NEW r \in Replicas, NEW s \in Slots, NEW documents \in SUBSET requests[r][s],
             Answered(r, s, documents), errors' \in 0..MaxErrors
      PROVE  TypeOK'
  <2>1. requests' \in [Replicas -> [Slots -> SUBSET Events]]
    BY <1>9 DEF Answered
  <2>2. \A u \in Replicas \ {r} : requests'[u] = requests[u]
    BY <1>9 DEF Answered
  <2>3. requests[r] # Empty
    BY <1>9 DEF Answered
  <2>4. indexed' \subseteq Events
    BY <1>9 DEF Answered
  <2> QED
    BY <1>9, <2>1, <2>2, <2>3, <2>4 DEF Answered
<1>10. ASSUME NEW r \in Replicas, NEW s \in Slots, BulkIndexed(r, s) \/ BulkFails(r, s)
       PROVE  TypeOK'
  <2>1. requests[r][s] \in SUBSET requests[r][s]
    OBVIOUS
  <2>2. CASE BulkIndexed(r, s)
    BY <1>9, <2>1, <2>2 DEF BulkIndexed
  <2>3. CASE BulkFails(r, s)
    <3>1. errors' \in 0..MaxErrors
      BY <2>3 DEF BulkFails
    <3> QED
      BY <1>9, <2>3, <3>1 DEF BulkFails
  <2> QED
    BY <1>10, <2>2, <2>3
<1>11. ASSUME NEW r \in Replicas, Stop(r) PROVE TypeOK'
  <2>1. inbox' \in [Events -> 0..MaxCopies] /\ stops' \in 0..MaxStops
    BY <1>2, <1>11 DEF Stop
  <2>2. indexed' \subseteq Events
    BY <1>11 DEF Stop
  <2>3. /\ pc' \in [Replicas -> {"off", "check", "create", "up", "dead"}]
        /\ buffer' \in [Replicas -> SUBSET Events]
        /\ requests' \in [Replicas -> [Slots -> SUBSET Events]]
        /\ UNCHANGED <<exists, received, errors>>
        /\ \A u \in Replicas : IF pc'[u] = "up" THEN exists'
                               ELSE buffer'[u] = {} /\ requests'[u] = Empty
    BY <1>11 DEF Stop
  <2> QED
    BY <2>1, <2>2, <2>3
<1>12. UNCHANGED vars => TypeOK'
  BY DEF vars, faults
<1> QED
  BY <1>1, <1>3, <1>4, <1>5, <1>7, <1>8, <1>10, <1>11, <1>12 DEF Next

\* Every variable keeps its type; a replica that is up has an index to write to
\* (onModuleInit awaits ensureIndex), one that is not holds no event.
THEOREM AuditTypeCorrect == Spec => []TypeOK
<1>1. Init => TypeOK
  BY AuditAssumption DEF Init, TypeOK, Empty
<1> QED
  BY <1>1, AuditTypeStep, PTL DEF Spec

-----------------------------------------------------------------------------
\* Cardinality says nothing of an infinite set: the sets are finite as well.
Below(batch) == IsFiniteSet(batch) /\ Cardinality(batch) < BatchSize
Within(batch) == IsFiniteSet(batch) /\ Cardinality(batch) <= BatchSize

BatchInv ==
    \A r \in Replicas : Below(buffer[r]) /\ \A s \in Slots : Within(requests[r][s])

LEMMA BatchStep ==
    ASSUME TypeOK, BatchInv, [Next]_vars
    PROVE  BatchInv'
<1>0. /\ buffer \in [Replicas -> SUBSET Events]
      /\ requests \in [Replicas -> [Slots -> SUBSET Events]]
      /\ BatchSize \in Nat \ {0}
  BY AuditAssumption DEF TypeOK
<1>1. Below({}) /\ Within({})
  BY <1>0, FS_EmptySet DEF Below, Within
<1>2. UNCHANGED <<buffer, requests>> => BatchInv'
  BY DEF BatchInv
<1>3. ASSUME NEW r \in Replicas, NEW batch \in SUBSET Events,
             Within(batch), Flush(r, batch)
      PROVE  BatchInv'
  <2>1. PICK s \in Slots : requests' = [requests EXCEPT ![r][s] = batch]
    BY <1>3 DEF Flush
  <2>2. \A u \in Replicas : buffer'[u] = {} \/ buffer'[u] = buffer[u]
    BY <1>0, <1>3 DEF Flush
  <2>3. \A u \in Replicas, v \in Slots :
           requests'[u][v] = batch \/ requests'[u][v] = requests[u][v]
    BY <1>0, <2>1
  <2> QED
    BY <1>0, <1>1, <1>3, <2>2, <2>3 DEF BatchInv
<1>4. ASSUME NEW r \in Replicas, NEW batch \in SUBSET Events,
             Below(batch), Keep(r, batch)
      PROVE  BatchInv'
  <2>1. \A u \in Replicas : buffer'[u] = batch \/ buffer'[u] = buffer[u]
    BY <1>0, <1>4 DEF Keep
  <2> QED
    BY <1>4, <2>1 DEF BatchInv, Keep
<1>5. ASSUME NEW r \in Replicas, IndexEvent(r) PROVE BatchInv'
  <2>1. PICK e \in Events :
           LET batch == buffer[r] \cup {e}
           IN  IF Cardinality(batch) >= BatchSize THEN Flush(r, batch) ELSE Keep(r, batch)
    BY <1>5 DEF IndexEvent
  <2>2. /\ IsFiniteSet(buffer[r]) /\ Cardinality(buffer[r]) \in Nat
        /\ Cardinality(buffer[r]) < BatchSize
    BY FS_CardinalityType DEF BatchInv, Below
  <2>3. IsFiniteSet(buffer[r] \cup {e}) /\ Cardinality(buffer[r] \cup {e}) <= BatchSize
    <3>1. /\ IsFiniteSet(buffer[r] \cup {e})
          /\ Cardinality(buffer[r] \cup {e}) =
                IF e \in buffer[r] THEN Cardinality(buffer[r]) ELSE Cardinality(buffer[r]) + 1
      BY <2>2, FS_AddElement
    <3> QED
      BY <1>0, <2>2, <3>1
  <2>4. Cardinality(buffer[r] \cup {e}) \in Nat
    BY <2>3, FS_CardinalityType
  <2>5. buffer[r] \cup {e} \in SUBSET Events
    BY <1>0
  <2>6. CASE Cardinality(buffer[r] \cup {e}) >= BatchSize
    BY <1>3, <2>1, <2>3, <2>5, <2>6 DEF Within
  <2>7. CASE ~(Cardinality(buffer[r] \cup {e}) >= BatchSize)
    <3>1. Cardinality(buffer[r] \cup {e}) < BatchSize
      BY <1>0, <2>7, <2>4
    <3> QED
      BY <1>4, <2>1, <2>3, <2>5, <2>7, <3>1 DEF Below
  <2> QED
    BY <2>6, <2>7
<1>6. ASSUME NEW r \in Replicas, Timer(r) PROVE BatchInv'
  <2>1. Within(buffer[r]) /\ buffer[r] \in SUBSET Events
    BY <1>0, FS_CardinalityType DEF BatchInv, Below, Within
  <2> QED
    BY <1>3, <1>6, <2>1 DEF Timer
<1>7. ASSUME NEW r \in Replicas, NEW s \in Slots, BulkIndexed(r, s) \/ BulkFails(r, s)
      PROVE  BatchInv'
  <2>1. buffer' = buffer /\ requests' = [requests EXCEPT ![r][s] = {}]
    BY <1>7 DEF BulkIndexed, BulkFails, Answered
  <2>2. \A u \in Replicas, v \in Slots :
           requests'[u][v] = {} \/ requests'[u][v] = requests[u][v]
    BY <1>0, <2>1
  <2> QED
    BY <1>0, <1>1, <2>1, <2>2 DEF BatchInv
<1>8. ASSUME NEW r \in Replicas, Stop(r) PROVE BatchInv'
  <2>1. /\ \A u \in Replicas : buffer'[u] = {} \/ buffer'[u] = buffer[u]
        /\ \A u \in Replicas, v \in Slots :
              requests'[u][v] = {} \/ requests'[u][v] = requests[u][v]
    BY <1>0, <1>8 DEF Stop, Empty
  <2> QED
    BY <1>0, <1>1, <2>1 DEF BatchInv
<1>9. ASSUME NEW r \in Replicas, Start(r) \/ CheckIndex(r) \/ CreateIndex(r) \/ StartFails(r)
      PROVE  BatchInv'
  BY <1>2, <1>9 DEF Start, CheckIndex, CreateIndex, StartFails
<1>10. UNCHANGED vars => BatchInv'
  BY <1>2 DEF vars
<1> QED
  BY <1>5, <1>6, <1>7, <1>8, <1>9, <1>10 DEF Next

LEMMA BatchInvariant == Spec => []BatchInv
<1>1. Init => BatchInv
  BY AuditAssumption, FS_EmptySet DEF Init, BatchInv, Below, Within, Empty
<1> QED
  BY <1>1, BatchStep, AuditTypeCorrect, PTL DEF Spec

\* indexEvent and flush: the buffer stays below BATCH_SIZE, however slow the
\* requests are and however many of them are under way.
THEOREM BatchesStayBounded == Spec => []BatchesAreBounded
<1>1. BatchInv => BatchesAreBounded
  BY DEF BatchInv, Below, Within, BatchesAreBounded
<1> QED
  BY <1>1, BatchInvariant, PTL

-----------------------------------------------------------------------------
\* What no step loses: an event that is received now or was held before is held
\* after the step, or indexed.
LEMMA NothingLost ==
    ASSUME indexed \subseteq indexed', NEW R,
           received' = received \cup R,
           \A e : e \in R \/ (\E r \in Replicas : Holds(r, e)) =>
                    e \in indexed' \/ \E r \in Replicas : Holds(r, e)'
    PROVE  Lost' \subseteq Lost
<1>1. ASSUME NEW e, e \in Lost' PROVE e \in Lost
  <2>1. e \notin indexed' /\ ~\E r \in Replicas : Holds(r, e)'
    BY <1>1 DEF Lost
  <2>2. e \notin R /\ ~\E r \in Replicas : Holds(r, e)
    BY <2>1
  <2>3. e \in received /\ e \notin indexed
    BY <1>1, <2>1, <2>2 DEF Lost
  <2> QED
    BY <2>2, <2>3 DEF Lost
<1> QED
  BY <1>1

LEMMA LossStep ==
    ASSUME TypeOK, BatchInv, [Next]_vars
    PROVE  Lost' \subseteq Lost \/ RequestFailed(Lost' \ Lost) \/ ProcessEnded(Lost' \ Lost)
<1>0. /\ buffer \in [Replicas -> SUBSET Events]
      /\ requests \in [Replicas -> [Slots -> SUBSET Events]]
      /\ errors \in Nat /\ stops \in Nat
  BY AuditAssumption DEF TypeOK
<1>1. ASSUME UNCHANGED <<indexed, received, buffer, requests>> PROVE Lost' \subseteq Lost
  BY <1>1 DEF Lost, Holds
\* A flush: the buffer is in the request, and the slot was free.
<1>2. ASSUME NEW r \in Replicas, NEW batch \in SUBSET Events, buffer[r] \subseteq batch,
             Flush(r, batch) \/ Keep(r, batch)
      PROVE  \A e : e \in batch \/ (\E u \in Replicas : Holds(u, e)) =>
                \E u \in Replicas : Holds(u, e)'
  <2> SUFFICES ASSUME NEW e, e \in batch \/ \E u \in Replicas : Holds(u, e)
               PROVE  \E u \in Replicas : Holds(u, e)'
    OBVIOUS
  <2>1. CASE Keep(r, batch)
    <3>1. buffer'[r] = batch /\ \A u \in Replicas \ {r} : buffer'[u] = buffer[u]
      BY <1>0, <2>1 DEF Keep
    <3>2. requests' = requests
      BY <2>1 DEF Keep
    <3> QED
      BY <1>2, <3>1, <3>2 DEF Holds
  <2>2. CASE Flush(r, batch)
    <3>1. PICK s \in Slots : requests[r][s] = {} /\ requests' = [requests EXCEPT ![r][s] = batch]
      BY <2>2 DEF Flush
    <3>2. /\ requests'[r][s] = batch
          /\ \A v \in Slots \ {s} : requests'[r][v] = requests[r][v]
          /\ \A u \in Replicas \ {r} : requests'[u] = requests[u]
      BY <1>0, <3>1
    <3>3. \A u \in Replicas \ {r} : buffer'[u] = buffer[u]
      BY <1>0, <2>2 DEF Flush
    <3>4. CASE e \in batch
      BY <3>2, <3>4 DEF Holds
    <3>5. CASE e \notin batch
      <4>1. PICK u \in Replicas : Holds(u, e)
        BY <3>5
      <4>2. CASE u # r
        BY <3>2, <3>3, <4>1, <4>2 DEF Holds
      <4>3. CASE u = r
        <5>1. PICK v \in Slots : e \in requests[r][v]
          BY <1>2, <3>5, <4>1, <4>3 DEF Holds
        <5>2. v # s
          BY <3>1, <5>1
        <5> QED
          BY <3>2, <5>1, <5>2 DEF Holds
      <4> QED
        BY <4>2, <4>3
    <3> QED
      BY <3>4, <3>5
  <2> QED
    BY <1>2, <2>1, <2>2
<1>3. ASSUME NEW r \in Replicas, IndexEvent(r) PROVE Lost' \subseteq Lost
  <2>1. PICK e \in Events :
          /\ received' = received \cup {e}
          /\ Flush(r, buffer[r] \cup {e}) \/ Keep(r, buffer[r] \cup {e})
    BY <1>3 DEF IndexEvent
  <2>2. buffer[r] \cup {e} \in SUBSET Events
    BY <1>0
  <2>3. \A f : f \in buffer[r] \cup {e} \/ (\E u \in Replicas : Holds(u, f)) =>
            \E u \in Replicas : Holds(u, f)'
    BY <1>2, <2>1, <2>2
  <2>4. indexed' = indexed
    BY <1>3 DEF IndexEvent
  <2>5. \A f : f \in {e} \/ (\E u \in Replicas : Holds(u, f)) =>
            f \in indexed' \/ \E u \in Replicas : Holds(u, f)'
    BY <2>3
  <2> QED
    BY <2>1, <2>4, <2>5, NothingLost
<1>4. ASSUME NEW r \in Replicas, Timer(r) PROVE Lost' \subseteq Lost
  <2>1. buffer[r] \in SUBSET Events /\ buffer[r] \subseteq buffer[r]
    BY <1>0
  <2>2. Flush(r, buffer[r]) /\ indexed' = indexed /\ received' = received \cup {}
    BY <1>4 DEF Timer
  <2>3. \A f : f \in buffer[r] \/ (\E u \in Replicas : Holds(u, f)) =>
            \E u \in Replicas : Holds(u, f)'
    BY <1>2, <2>1, <2>2
  <2>4. \A f : f \in {} \/ (\E u \in Replicas : Holds(u, f)) =>
            f \in indexed' \/ \E u \in Replicas : Holds(u, f)'
    BY <2>3
  <2> QED
    BY <2>2, <2>4, NothingLost
\* An answer frees one slot: the events of its batch are all that can go.
<1>5. ASSUME NEW r \in Replicas, NEW s \in Slots, NEW documents \in SUBSET requests[r][s],
             Answered(r, s, documents)
      PROVE  Lost' \ Lost \subseteq requests[r][s] \ documents
  <2>1. /\ indexed' = indexed \cup documents /\ received' = received /\ buffer' = buffer
        /\ requests' = [requests EXCEPT ![r][s] = {}]
    BY <1>5 DEF Answered
  <2>2. /\ \A v \in Slots \ {s} : requests'[r][v] = requests[r][v]
        /\ \A u \in Replicas \ {r} : requests'[u] = requests[u]
    BY <1>0, <2>1
  <2>3. ASSUME NEW e, e \in Lost', e \notin requests[r][s] PROVE e \in Lost
    <3>1. ASSUME NEW u \in Replicas, Holds(u, e) PROVE Holds(u, e)'
      <4>1. CASE u # r
        BY <2>1, <2>2, <3>1, <4>1 DEF Holds
      <4>2. CASE u = r
        <5>1. e \in buffer[r] \/ \E v \in Slots \ {s} : e \in requests[r][v]
          BY <2>3, <3>1, <4>2 DEF Holds
        <5> QED
          BY <2>1, <2>2, <4>2, <5>1 DEF Holds
      <4> QED
        BY <4>1, <4>2
    <3>2. /\ e \in received' /\ e \notin indexed'
          /\ ~\E u \in Replicas : Holds(u, e)'
      BY <2>3 DEF Lost
    <3> QED
      BY <2>1, <3>1, <3>2 DEF Lost
  <2>4. Lost' \cap documents = {}
    BY <2>1 DEF Lost
  <2> QED
    BY <2>3, <2>4
<1>6. ASSUME NEW r \in Replicas, NEW s \in Slots, BulkIndexed(r, s) PROVE Lost' \subseteq Lost
  <2>1. requests[r][s] \in SUBSET requests[r][s]
    OBVIOUS
  <2>2. Lost' \ Lost \subseteq requests[r][s] \ requests[r][s]
    BY <1>5, <1>6, <2>1 DEF BulkIndexed
  <2> QED
    BY <2>2
<1>7. ASSUME NEW r \in Replicas, NEW s \in Slots, BulkFails(r, s)
      PROVE  RequestFailed(Lost' \ Lost)
  <2>1. Lost' \ Lost \in SUBSET requests[r][s]
    BY <1>5, <1>7 DEF BulkFails
  <2>2. IsFiniteSet(requests[r][s]) /\ Cardinality(requests[r][s]) <= BatchSize
    BY DEF BatchInv, Within
  <2>3. /\ Cardinality(requests[r][s]) \in Nat /\ BatchSize \in Nat
        /\ Cardinality(Lost' \ Lost) \in Nat
        /\ Cardinality(Lost' \ Lost) <= Cardinality(requests[r][s])
    BY <2>1, <2>2, FS_Subset, FS_CardinalityType, AuditAssumption
  <2>4. errors' > errors
    BY <1>0, <1>7 DEF BulkFails
  <2> QED
    BY <2>2, <2>3, <2>4 DEF RequestFailed
\* The end of a process: only what it held can go, and its buffer is below a batch.
<1>8. ASSUME NEW r \in Replicas, Stop(r)
      PROVE  Lost' \subseteq Lost \/ ProcessEnded(Lost' \ Lost)
  <2> DEFINE gone == Lost' \ Lost
  <2>1. /\ received' = received /\ indexed \subseteq indexed' /\ pc'[r] = "off"
        /\ \A u \in Replicas \ {r} : buffer'[u] = buffer[u] /\ requests'[u] = requests[u]
    BY <1>0, <1>8 DEF Stop, Goto, TypeOK
  <2>2. ASSUME NEW e \in gone PROVE Holds(r, e)
    <3>1. /\ e \in received /\ e \notin indexed
          /\ ~\E u \in Replicas : Holds(u, e)'
      BY <2>1, <2>2 DEF Lost
    <3>2. PICK u \in Replicas : Holds(u, e)
      BY <2>2, <3>1 DEF Lost
    <3>3. u # r => Holds(u, e)'
      BY <2>1, <3>2 DEF Holds
    <3> QED
      BY <3>1, <3>2, <3>3
  <2>3. gone \subseteq buffer[r] \cup UnderWay(r)
    BY <2>2 DEF Holds, UnderWay
  <2>4. CASE pc[r] = "up"
    <3>1. Below(buffer[r]) /\ gone \ UnderWay(r) \in SUBSET buffer[r]
      BY <2>3 DEF BatchInv
    <3>2. Cardinality(gone \ UnderWay(r)) <= Cardinality(buffer[r])
      BY <3>1, FS_Subset DEF Below
    <3>3. /\ Cardinality(gone \ UnderWay(r)) \in Nat /\ Cardinality(buffer[r]) \in Nat
          /\ BatchSize \in Nat
      BY <3>1, FS_Subset, FS_CardinalityType, AuditAssumption DEF Below
    <3>4. Cardinality(gone \ UnderWay(r)) < BatchSize
      BY <3>1, <3>2, <3>3 DEF Below
    <3> QED
      BY <2>1, <2>3, <2>4, <3>4 DEF ProcessEnded
  <2>5. CASE pc[r] # "up"
    <3>1. \A e : ~Holds(r, e)
      BY <2>5 DEF TypeOK, Empty, Holds
    <3> QED
      BY <2>2, <3>1
  <2> QED
    BY <2>4, <2>5
<1>9. ASSUME NEW r \in Replicas, Start(r) \/ CheckIndex(r) \/ CreateIndex(r) \/ StartFails(r)
      PROVE  Lost' \subseteq Lost
  BY <1>1, <1>9 DEF Start, CheckIndex, CreateIndex, StartFails
<1>10. UNCHANGED vars => Lost' \subseteq Lost
  BY <1>1 DEF vars
<1> QED
  BY <1>3, <1>4, <1>6, <1>7, <1>8, <1>9, <1>10 DEF Next

\* What a failure costs (flush, opensearch.service.ts bulkIndex): requests that
\* overlap keep their batches apart, so one that fails loses its own events only;
\* a process that ends without onModuleDestroy loses its own, of which less than a
\* batch was still in the buffer; and no other step loses any.
THEOREM LossStaysBounded == Spec => LossIsBounded
<1>1. TypeOK /\ BatchInv /\ [Next]_vars =>
         [Lost' \ Lost # {} => RequestFailed(Lost' \ Lost) \/ ProcessEnded(Lost' \ Lost)]_vars
  BY LossStep
<1> QED
  BY <1>1, AuditTypeCorrect, BatchInvariant, PTL DEF Spec, LossIsBounded

-----------------------------------------------------------------------------
\* The race for the index: while no replica is up, none has lost it, and the
\* index is not there for a replica about to create it to stumble over.
StartInv ==
    errors = 0 /\ stops = 0 =>
        \/ \E r \in Replicas : pc[r] = "up"
        \/ \A r \in Replicas : pc[r] # "dead" /\ (pc[r] = "create" => ~exists)

LEMMA StartStep ==
    ASSUME TypeOK, StartInv, [Next]_vars
    PROVE  StartInv'
<1>0. /\ pc \in [Replicas -> {"off", "check", "create", "up", "dead"}]
      /\ errors \in Nat /\ stops \in Nat /\ errors + 1 # 0 /\ stops + 1 # 0
  BY AuditAssumption DEF TypeOK
<1>1. ASSUME NEW r \in Replicas, Start(r) PROVE StartInv'
  BY <1>0, <1>1 DEF Start, StartInv, At, Goto, faults
<1>2. ASSUME NEW r \in Replicas, CheckIndex(r) PROVE StartInv'
  BY <1>0, <1>2 DEF CheckIndex, StartInv, At, Goto, faults
<1>3. ASSUME NEW r \in Replicas, CreateIndex(r) PROVE StartInv'
  BY <1>0, <1>3 DEF CreateIndex, StartInv, At, Goto, faults
<1>4. ASSUME NEW r \in Replicas, StartFails(r) PROVE StartInv'
  BY <1>0, <1>4 DEF StartFails, StartInv
<1>5. ASSUME NEW r \in Replicas, IndexEvent(r) \/ Timer(r) PROVE StartInv'
  BY <1>5 DEF IndexEvent, Timer, StartInv, faults
<1>6. ASSUME NEW r \in Replicas, NEW s \in Slots, BulkIndexed(r, s) \/ BulkFails(r, s)
      PROVE  StartInv'
  BY <1>0, <1>6 DEF BulkIndexed, BulkFails, Answered, StartInv
<1>7. ASSUME NEW r \in Replicas, Stop(r) PROVE StartInv'
  BY <1>0, <1>7 DEF Stop, StartInv
<1>8. UNCHANGED vars => StartInv'
  BY DEF vars, faults, StartInv
<1> QED
  BY <1>1, <1>2, <1>3, <1>4, <1>5, <1>6, <1>7, <1>8 DEF Next

\* The race of ensureIndex (opensearch.service.ts): of the replicas that look
\* for the index and then create it, one is left, whatever their number.
THEOREM AReplicaStarts == Spec => []SomeReplicaStarts
<1>1. Init => StartInv
  BY DEF Init, StartInv
<1>2. TypeOK /\ StartInv => SomeReplicaStarts
  BY DEF TypeOK, StartInv, SomeReplicaStarts, At
<1> QED
  BY <1>1, <1>2, StartStep, AuditTypeCorrect, PTL DEF Spec
=============================================================================
