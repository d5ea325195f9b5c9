---------------------------- MODULE AuditIndexer ----------------------------
(***************************************************************************)
(* The audit consumer: opensearch-consumer-microservice.service.ts.  It    *)
(* puts every event of five topics into a buffer, and sends the buffer to  *)
(* OpenSearch in one bulk request when it has BATCH_SIZE events, and every *)
(* FLUSH_MS.  Nothing waits for the answer, so requests overlap; nothing   *)
(* looks at it but to log it.                                              *)
(*                                                                         *)
(* An event is its eventId, which is the id of its document: a second copy *)
(* replaces the first, in the buffer as in the index.                      *)
(***************************************************************************)
EXTENDS Naturals, FiniteSets

CONSTANTS
    Events,        \* by eventId
    Replicas,      \* processes of the service, in one consumer group
    BatchSize,     \* BATCH_SIZE
    MaxCopies,     \* how often an event is published
    Slots,         \* bound on the requests a replica has under way
    MaxErrors,     \* bound on failed calls
    MaxStops       \* bound on processes that end

ASSUME AuditAssumption ==
    /\ BatchSize \in Nat \ {0}
    /\ MaxCopies \in Nat
    /\ MaxErrors \in Nat
    /\ MaxStops \in Nat

VARIABLES
    inbox,         \* how many copies of each event the group has yet to read
    exists,        \* is there an index?
    indexed,       \* the events it has a document for
    pc,            \* each replica: "off", starting ("check", "create"), "up" or "dead"
    buffer,        \* each replica's
    requests,      \* the batches it sent and has no answer to; {} is a free slot
    received,      \* history: every event that was put into a buffer
    errors, stops

faults == <<errors, stops>>
vars == <<inbox, exists, indexed, pc, buffer, requests, received, faults>>

Empty == [s \in Slots |-> {}]

Init ==
    /\ inbox = [e \in Events |-> MaxCopies]
    /\ exists \in BOOLEAN       \* from an earlier deployment
    /\ indexed = {}
    /\ pc = [r \in Replicas |-> "off"]
    /\ buffer = [r \in Replicas |-> {}]
    /\ requests = [r \in Replicas |-> Empty]
    /\ received = {}
    /\ errors = 0
    /\ stops = 0

At(r, label) == pc[r] = label
Goto(r, label) == pc' = [pc EXCEPT ![r] = label]

\* A group whose members change goes on at the end of the topics: no offset was
\* ever committed.
Rejoin ==
    \E skipped \in SUBSET Events :
        inbox' = [e \in Events |-> IF e \in skipped THEN 0 ELSE inbox[e]]
-----------------------------------------------------------------------------
(* Startup: onModuleInit, ensureIndex.                                     *)

Start(r) ==
    /\ At(r, "off")
    /\ Goto(r, "check")
    /\ UNCHANGED <<inbox, exists, indexed, buffer, requests, received, faults>>

\* Mutated forms: the index is created without a look, and nobody waits for it.
CreateAnyway(r) ==
    /\ At(r, "check")
    /\ Goto(r, "create")
    /\ UNCHANGED <<inbox, exists, indexed, buffer, requests, received, faults>>

CheckNotAwaited(r) ==
    /\ At(r, "check")
    /\ Rejoin
    /\ Goto(r, "up")
    /\ UNCHANGED <<exists, indexed, buffer, requests, received, faults>>

CheckIndex(r) ==
    /\ At(r, "check")
    /\ \/ exists /\ Goto(r, "up") /\ Rejoin
       \/ ~exists /\ Goto(r, "create") /\ UNCHANGED inbox
    /\ UNCHANGED <<exists, indexed, buffer, requests, received, faults>>

\* Another process may have created it since: the request is refused, the
\* error leaves bootstrap(), and that ends the process.
CreateIndex(r) ==
    /\ At(r, "create")
    /\ exists' = TRUE
    /\ \/ ~exists /\ Goto(r, "up") /\ Rejoin
       \/ exists /\ Goto(r, "dead") /\ UNCHANGED inbox
    /\ UNCHANGED <<indexed, buffer, requests, received, faults>>

StartFails(r) ==
    /\ errors < MaxErrors
    /\ errors' = errors + 1
    /\ \/ pc[r] \in {"check", "create"} /\ UNCHANGED exists
       \/ At(r, "create") /\ exists' = TRUE
    /\ Goto(r, "dead")
    /\ UNCHANGED <<inbox, indexed, buffer, requests, received, stops>>
-----------------------------------------------------------------------------
(* At work: indexEvent, the timer, and the answers.                        *)

\* Mutated form: no request is sent while another is under way.
FlushAlone(r, batch) ==
    /\ buffer' = [buffer EXCEPT ![r] = {}]
    /\ \/ requests[r] = Empty /\ \E s \in Slots : requests' = [requests EXCEPT ![r][s] = batch]
       \/ requests[r] # Empty /\ UNCHANGED requests

\* flush: the buffer is empty before the request is sent.
Flush(r, batch) ==
    /\ \E s \in Slots : /\ requests[r][s] = {}
                        /\ requests' = [requests EXCEPT ![r][s] = batch]
    /\ buffer' = [buffer EXCEPT ![r] = {}]

Keep(r, batch) ==
    /\ buffer' = [buffer EXCEPT ![r] = batch]
    /\ UNCHANGED requests

\* Mutated form: > for >=.
IndexEventLate(r) ==
    /\ At(r, "up")
    /\ \E e \in Events :
          /\ inbox[e] > 0
          /\ inbox' = [inbox EXCEPT ![e] = @ - 1]
          /\ received' = received \cup {e}
          /\ LET batch == buffer[r] \cup {e}
             IN  IF Cardinality(batch) > BatchSize THEN Flush(r, batch) ELSE Keep(r, batch)
    /\ UNCHANGED <<exists, indexed, pc, faults>>

IndexEvent(r) ==
    /\ At(r, "up")
    /\ \E e \in Events :
          /\ inbox[e] > 0
          /\ inbox' = [inbox EXCEPT ![e] = @ - 1]
          /\ received' = received \cup {e}
          /\ LET batch == buffer[r] \cup {e}
             IN  IF Cardinality(batch) >= BatchSize THEN Flush(r, batch) ELSE Keep(r, batch)
    /\ UNCHANGED <<exists, indexed, pc, faults>>

\* Mutated form: the timer, too, waits for a full batch.
TimerWaits(r) ==
    /\ At(r, "up")
    /\ Cardinality(buffer[r]) >= BatchSize
    /\ Flush(r, buffer[r])
    /\ UNCHANGED <<inbox, exists, indexed, pc, received, faults>>

Timer(r) ==
    /\ At(r, "up")
    /\ buffer[r] # {}
    /\ Flush(r, buffer[r])
    /\ UNCHANGED <<inbox, exists, indexed, pc, received, faults>>

Answered(r, s, documents) ==
    /\ requests[r][s] # {}
    /\ indexed' = indexed \cup documents
    /\ requests' = [requests EXCEPT ![r][s] = {}]
    /\ UNCHANGED <<inbox, exists, pc, buffer, received, stops>>

BulkIndexed(r, s) == Answered(r, s, requests[r][s]) /\ UNCHANGED errors

\* The request fails, or the answer says errors=true: some of the documents are
\* indexed all the same, and nothing sends the others again.
BulkFails(r, s) ==
    /\ errors < MaxErrors
    /\ errors' = errors + 1
    /\ \E documents \in SUBSET requests[r][s] : Answered(r, s, documents)

\* The process ends.  Without shutdown hooks onModuleDestroy and its flush are
\* for a SIGTERM as unreachable as for a crash; what was sent may yet be done.
Stop(r) ==
    /\ stops < MaxStops
    /\ pc[r] \notin {"off", "dead"}
    /\ stops' = stops + 1
    /\ Goto(r, "off")
    /\ Rejoin
    /\ buffer' = [buffer EXCEPT ![r] = {}]
    /\ requests' = [requests EXCEPT ![r] = Empty]
    /\ \E documents \in SUBSET UNION {requests[r][s] : s \in Slots} :
          indexed' = indexed \cup documents
    /\ UNCHANGED <<exists, received, errors>>

Next ==
    \E r \in Replicas :
        \/ Start(r) \/ CheckIndex(r) \/ CreateIndex(r) \/ StartFails(r)
        \/ IndexEvent(r) \/ Timer(r) \/ Stop(r)
        \/ \E s \in Slots : BulkIndexed(r, s) \/ BulkFails(r, s)

Spec == Init /\ [][Next]_vars

\* A process under way keeps running, its timer fires, OpenSearch answers.
FairSpec ==
    Spec /\ \A r \in Replicas :
        /\ WF_vars(CheckIndex(r)) /\ WF_vars(CreateIndex(r)) /\ WF_vars(Timer(r))
        /\ \A s \in Slots : WF_vars(BulkIndexed(r, s))
-----------------------------------------------------------------------------
\* The values every variable takes.  A replica that is up has an index to write
\* to, and one that is not has nothing to write.
TypeOK ==
    /\ inbox \in [Events -> 0..MaxCopies]
    /\ exists \in BOOLEAN
    /\ indexed \subseteq Events
    /\ pc \in [Replicas -> {"off", "check", "create", "up", "dead"}]
    /\ buffer \in [Replicas -> SUBSET Events]
    /\ requests \in [Replicas -> [Slots -> SUBSET Events]]
    /\ received \subseteq Events
    /\ \A r \in Replicas : IF pc[r] = "up" THEN exists
                           ELSE buffer[r] = {} /\ requests[r] = Empty
    /\ errors \in 0..MaxErrors
    /\ stops \in 0..MaxStops

\* The buffer is below BATCH_SIZE whenever the event loop is free, however slow
\* OpenSearch is and however many copies arrive, and a request is never above.
BatchesAreBounded ==
    \A r \in Replicas :
        /\ Cardinality(buffer[r]) < BatchSize
        /\ \A s \in Slots : Cardinality(requests[r][s]) <= BatchSize

\* An event that was received is in the index, in a buffer or under way, or it
\* is lost.
Holds(r, e) == e \in buffer[r] \/ \E s \in Slots : e \in requests[r][s]
Lost == {e \in received : e \notin indexed /\ ~\E r \in Replicas : Holds(r, e)}

\* A failed request loses one batch at most, whatever else is under way.  A
\* process that ends loses what it held and no other replica did: less than one
\* batch beside what was under way, though no hook flushes its buffer
\* (onModuleDestroy).  No other step loses an event.
UnderWay(r) == UNION {requests[r][s] : s \in Slots}
RequestFailed(gone) == errors' > errors /\ Cardinality(gone) <= BatchSize
ProcessEnded(gone) ==
    \E r \in Replicas : /\ pc[r] = "up" /\ pc'[r] # "up"
                        /\ gone \subseteq buffer[r] \cup UnderWay(r)
                        /\ Cardinality(gone \ UnderWay(r)) < BatchSize
LossIsBounded ==
    [][LET gone == Lost' \ Lost
       IN  gone # {} => RequestFailed(gone) \/ ProcessEnded(gone)]_vars

\* Replicas that start together race to create the index, and the losers die.
\* One comes up: as long as no call fails and no process is stopped, not all
\* of them are dead, whether or not there was an index.
SomeReplicaStarts ==
    errors = 0 /\ stops = 0 /\ Replicas # {} => \E r \in Replicas : ~At(r, "dead")

\* The last events before a quiet time are indexed as well as those that fill a
\* batch, whatever fails or ends: only what LossIsBounded allows to be lost does
\* not get there, and nothing waits for ever.
ReceivedIsIndexed == \A e \in Events : e \in received ~> e \in indexed \cup Lost
=============================================================================
