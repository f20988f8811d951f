----------------------------- MODULE QueueWorker -----------------------------
(***************************************************************************)
(* The worker processes (workers/__main__.py): they receive batches from an *)
(* SQS queue that delivers at least once, run the event's handler in the    *)
(* handler's own database transaction, record the outcome in a second one,  *)
(* and then delete the message.  A message that is not deleted comes back   *)
(* when its visibility timeout ends, maybe while its first worker is still  *)
(* busy with it; a worker can die anywhere.                                 *)
(***************************************************************************)
EXTENDS Naturals, Sequences, FiniteSets, FiniteSetsExt, SequencesExt

CONSTANTS
    Events,        \* the events in the queue
    Workers,       \* worker processes
    MaxAttempts,   \* the worker's max_attempts
    MaxReceives,   \* the queue's redrive policy, maxReceiveCount
    BatchSize,     \* MaxNumberOfMessages
    Invalid,       \* the events whose body, version or type is refused
    Drifting,      \* the events whose handler may answer differently when repeated
    Faults         \* which failures may happen

FaultKinds == {"transient", "permanent", "queue", "worker"}

ASSUME LimitsAssumption == MaxAttempts \in Nat \ {0} /\ MaxReceives \in Nat /\ BatchSize \in Nat
ASSUME EventsAssumption == IsFiniteSet(Events) /\ Invalid \subseteq Events /\ Drifting \subseteq Events
ASSUME FaultsAssumption == Faults \subseteq FaultKinds

VARIABLES
    queue,      \* per event: whether it is in the queue, visible, and how often received
    dlq,        \* per event: how many copies were moved to the dead-letter queue
    done,       \* per event: how often its handler's effect was committed
    recorded,   \* the events with a ProcessedMessage row
    batch,      \* per worker: the messages it received and has not finished
    step        \* per worker: what it does next with the first of them

vars == <<queue, dlq, done, recorded, batch, step>>

-----------------------------------------------------------------------------
\* A message is known by the receive that handed it out: a later receive makes
\* its receipt handle out of date.
Message == [event : Events, receipt : Nat]

Steps == {"find", "handle", "commit", "record", "ack", "failed", "dead"}

Current(m) == queue[m.event].present /\ queue[m.event].receives = m.receipt

NextStep(w, to) == step' = [step EXCEPT ![w] = to]

\* On to the next message of the batch.
Finish(w) ==
    /\ batch' = [batch EXCEPT ![w] = Tail(@)]
    /\ NextStep(w, "find")

\* An exception leaves _process_message: run() drops the rest of the batch.
Abandon(w) ==
    /\ batch' = [batch EXCEPT ![w] = <<>>]
    /\ NextStep(w, "find")

Doing(w, s) == batch[w] # <<>> /\ step[w] = s

Event(w) == Head(batch[w]).event

-----------------------------------------------------------------------------
(* The queue service *)

Deliverable == {e \in Events : queue[e].present /\ queue[e].visible}

Receive(w) ==
    /\ batch[w] = <<>>
    /\ \E es \in SUBSET {e \in Deliverable : queue[e].receives < MaxReceives} :
          /\ es # {}
          /\ Cardinality(es) <= BatchSize
          /\ queue' = [e \in Events |->
                IF e \in es
                THEN [present |-> TRUE, visible |-> FALSE, receives |-> queue[e].receives + 1]
                ELSE queue[e]]
          /\ \E order \in SetToSeqs(es) :
                batch' = [batch EXCEPT ![w] =
                    [i \in 1..Len(order) |->
                        [event |-> order[i], receipt |-> queue'[order[i]].receives]]]
          /\ NextStep(w, "find")
    /\ UNCHANGED <<dlq, done, recorded>>

\* The service moves a message received too often to the dead-letter queue.
Redrive(e) ==
    /\ e \in Deliverable
    /\ queue[e].receives >= MaxReceives
    /\ queue' = [queue EXCEPT ![e].present = FALSE]
    /\ dlq' = [dlq EXCEPT ![e] = @ + 1]
    /\ UNCHANGED <<done, recorded, batch, step>>

VisibilityEnds(e) ==
    /\ queue[e].present /\ ~queue[e].visible
    /\ queue' = [queue EXCEPT ![e].visible = TRUE]
    /\ UNCHANGED <<dlq, done, recorded, batch, step>>

-----------------------------------------------------------------------------
(* _process_message *)

\* from_body and the registry refuse the message, or the processed store knows it.
AfterFind(e) ==
    IF e \in Invalid THEN "dead" ELSE IF e \in recorded THEN "ack" ELSE "handle"

Find(w) ==
    /\ Doing(w, "find")
    /\ NextStep(w, AfterFind(Event(w)))
    /\ UNCHANGED <<queue, dlq, done, recorded, batch>>

\* The handler looks whether the event's rows exist; if so it answers from them.
AfterLook(e) == IF done[e] > 0 THEN "record" ELSE "commit"

Handle(w) ==
    /\ Doing(w, "handle")
    /\ NextStep(w, AfterLook(Event(w)))
    /\ UNCHANGED <<queue, dlq, done, recorded, batch>>

\* An exception inside the try: the database before, in or after the handler, or
\* the handler itself, which alone raises what is not worth a retry.
HandlerFails(w) ==
    /\ \/ /\ "transient" \in Faults
          /\ \E s \in {"find", "handle", "commit", "record"} : Doing(w, s)
          /\ NextStep(w, "failed")
       \/ "permanent" \in Faults /\ Doing(w, "handle") /\ NextStep(w, "dead")
    /\ UNCHANGED <<queue, dlq, done, recorded, batch>>

\* The rows the handler adds carry ids taken from the event or a key that is
\* unique for what the event is about: whoever commits second gets an integrity
\* error, which is retried, or finds the other's outbox key, which is not.
\* Nothing in the database stops the second.
MutantCommits(e) == TRUE

Commits(e) == done[e] = 0

HandlerCommits(w) ==
    /\ Doing(w, "commit")
    /\ IF Commits(Event(w))
       THEN done' = [done EXCEPT ![Event(w)] = @ + 1] /\ NextStep(w, "record")
       ELSE UNCHANGED done /\ (NextStep(w, "failed") \/ NextStep(w, "dead"))
    /\ UNCHANGED <<queue, dlq, recorded, batch>>

\* record_outcome and the commit of its transaction.  Another worker's row with
\* another digest is an IDEMPOTENCY_CONFLICT.
RecordOutcome(w) ==
    /\ Doing(w, "record")
    /\ recorded' = recorded \cup {Event(w)}
    /\ \/ NextStep(w, "ack")
       \/ Event(w) \in recorded /\ NextStep(w, "failed")
       \/ Event(w) \in recorded /\ Event(w) \in Drifting /\ NextStep(w, "dead")
    /\ UNCHANGED <<queue, dlq, done, batch>>

Deleted(m) ==
    queue' = IF Current(m) THEN [queue EXCEPT ![m.event].present = FALSE] ELSE queue

Ack(w) ==
    /\ Doing(w, "ack")
    /\ Deleted(Head(batch[w]))
    /\ Finish(w)
    /\ UNCHANGED <<dlq, done, recorded>>

\* delete_message raises inside the try: it is handled like a failing handler.
AckFails(w) ==
    /\ "queue" \in Faults
    /\ Doing(w, "ack")
    /\ NextStep(w, "failed")
    /\ UNCHANGED <<queue, dlq, done, recorded, batch>>

Exhausted(m) == m.receipt >= MaxAttempts

\* Runs the handler again at once, as often as it takes.
MutantRetry(w) ==
    /\ Doing(w, "failed")
    /\ NextStep(w, "handle")
    /\ UNCHANGED <<queue, dlq, done, recorded, batch>>

\* _retry makes the message visible again later: VisibilityEnds.
Retry(w) ==
    /\ Doing(w, "failed")
    /\ ~Exhausted(Head(batch[w]))
    /\ \/ Finish(w)
       \/ "queue" \in Faults /\ Abandon(w)
    /\ UNCHANGED <<queue, dlq, done, recorded>>

GiveUp(w) ==
    /\ Doing(w, "failed")
    /\ Exhausted(Head(batch[w]))
    /\ NextStep(w, "dead")
    /\ UNCHANGED <<queue, dlq, done, recorded, batch>>

\* Deletes the message without sending a copy.
MutantDeadLetter(w) ==
    /\ Doing(w, "dead")
    /\ Deleted(Head(batch[w]))
    /\ Finish(w)
    /\ UNCHANGED <<dlq, done, recorded>>

\* _dead_letter sends a copy, then deletes the message.
DeadLetter(w) ==
    /\ Doing(w, "dead")
    /\ dlq' = [dlq EXCEPT ![Event(w)] = @ + 1]
    /\ \/ Deleted(Head(batch[w])) /\ Finish(w)
       \/ "queue" \in Faults /\ UNCHANGED queue /\ Abandon(w)
    /\ UNCHANGED <<done, recorded>>

\* The worker process dies and starts again.
CrashWorker(w) ==
    /\ "worker" \in Faults
    /\ batch[w] # <<>>
    /\ Abandon(w)
    /\ UNCHANGED <<queue, dlq, done, recorded>>

-----------------------------------------------------------------------------
Init ==
    /\ queue = [e \in Events |-> [present |-> TRUE, visible |-> TRUE, receives |-> 0]]
    /\ dlq = [e \in Events |-> 0]
    /\ done = [e \in Events |-> 0]
    /\ recorded = {}
    /\ batch = [w \in Workers |-> <<>>]
    /\ step = [w \in Workers |-> "find"]

Work(w) ==
    \/ Find(w) \/ Handle(w) \/ HandlerFails(w) \/ HandlerCommits(w) \/ RecordOutcome(w)
    \/ Ack(w) \/ AckFails(w) \/ Retry(w) \/ GiveUp(w) \/ DeadLetter(w)

Next ==
    \/ \E w \in Workers : Receive(w) \/ Work(w) \/ CrashWorker(w)
    \/ \E e \in Events : Redrive(e) \/ VisibilityEnds(e)

Spec == Init /\ [][Next]_vars

\* Workers keep polling and working, and the service keeps its timeouts.
FairSpec ==
    /\ Spec
    /\ \A w \in Workers : WF_vars(Work(w)) /\ SF_vars(Receive(w))
    /\ \A e \in Events : WF_vars(Redrive(e)) /\ WF_vars(VisibilityEnds(e))

-----------------------------------------------------------------------------
\* The variables have their types, and a worker between batches begins anew.
TypeOK ==
    /\ queue \in [Events -> [present : BOOLEAN, visible : BOOLEAN, receives : 0..MaxReceives]]
    /\ dlq \in [Events -> Nat]
    /\ done \in [Events -> Nat]
    /\ recorded \subseteq Events
    /\ batch \in [Workers -> Seq(Message)]
    /\ step \in [Workers -> Steps]
    /\ \A w \in Workers : batch[w] = <<>> => step[w] = "find"

\* However often an event is delivered, and to however many workers at a time,
\* its effect is committed at most once; and an outcome is recorded only once
\* the effect is there, so that a recorded event is never skipped undone.
EffectAtMostOnce ==
    /\ \A e \in Events : done[e] <= 1
    /\ \A e \in recorded : done[e] = 1

\* A message leaves the queue only when its outcome is recorded or a copy is in
\* the dead-letter queue, wherever the worker died or the service failed.
NoEventIsLost ==
    \A e \in Events : queue[e].present \/ e \in recorded \/ dlq[e] > 0

\* Every event leaves the queue: no retry goes on forever.
QueueDrains == \A e \in Events : <>[](~queue[e].present)
=============================================================================
