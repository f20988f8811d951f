-------------------------- MODULE QueueWorker_proofs --------------------------
(***************************************************************************)
(* Theorems about QueueWorker, for any events, workers, limits and faults,  *)
(* and after them theorems about InterviewService, for any threads, keys,   *)
(* sizes of answers, budget and number of turns.                            *)
(***************************************************************************)
EXTENDS QueueWorker, InterviewService, WellFoundedInduction, FiniteSetTheorems, SequenceTheorems,
        TLAPS

\* What a worker knows of the event it is busy with: it records only an effect
\* that is there, and deletes only a message whose outcome is recorded.
StepsEarned ==
    \A w \in Workers : batch[w] # <<>> =>
        /\ step[w] = "record" => done[Event(w)] = 1
        /\ step[w] = "ack" => Event(w) \in recorded

\* The inductive invariant: the two safety properties, and why a worker is
\* entitled to its next step.
IInv == TypeOK /\ EffectAtMostOnce /\ NoEventIsLost /\ StepsEarned

-----------------------------------------------------------------------------
(* Steps and batches *)

\* The first message of a batch is a message of some event.
LEMMA HeadIsMessage ==
    ASSUME TypeOK, NEW w \in Workers, batch[w] # <<>>
    PROVE  /\ Head(batch[w]) \in Message
           /\ Event(w) \in Events
           /\ Tail(batch[w]) \in Seq(Message)
  <1>1. batch[w] \in Seq(Message)
    BY DEF TypeOK
  <1>2. Head(batch[w]) \in Message /\ Tail(batch[w]) \in Seq(Message)
    BY <1>1
  <1> QED
    BY <1>2 DEF Event, Message

\* NextStep with the batch unchanged moves one worker that has a message.
LEMMA NextStepMoves ==
    ASSUME TypeOK, NEW w \in Workers, batch[w] # <<>>, NEW to \in Steps,
           NextStep(w, to), UNCHANGED batch
    PROVE  /\ batch' \in [Workers -> Seq(Message)]
           /\ step' \in [Workers -> Steps]
           /\ step'[w] = to
           /\ \A v \in Workers : batch'[v] = <<>> => step'[v] = "find"
           /\ \A v \in Workers : v # w => step'[v] = step[v]
  BY DEF TypeOK, NextStep

\* Finishing or abandoning leaves one worker ready to find its next message.
LEMMA Leaving ==
    ASSUME TypeOK, NEW w \in Workers, batch[w] # <<>>, Finish(w) \/ Abandon(w)
    PROVE  /\ batch' \in [Workers -> Seq(Message)]
           /\ step' \in [Workers -> Steps]
           /\ step'[w] = "find"
           /\ \A v \in Workers : batch'[v] = <<>> => step'[v] = "find"
           /\ \A v \in Workers : v # w => batch'[v] = batch[v] /\ step'[v] = step[v]
  <1>1. Tail(batch[w]) \in Seq(Message) /\ <<>> \in Seq(Message)
    BY HeadIsMessage
  <1>2. \/ batch' = [batch EXCEPT ![w] = Tail(@)]
        \/ batch' = [batch EXCEPT ![w] = <<>>]
    BY DEF Finish, Abandon
  <1>3. step' = [step EXCEPT ![w] = "find"]
    BY DEF Finish, Abandon, NextStep
  <1>4. "find" \in Steps
    BY DEF Steps
  <1> QED
    BY <1>1, <1>2, <1>3, <1>4 DEF TypeOK

\* Deleting a message changes nothing but whether its event is in the queue.
LEMMA DeletedKeeps ==
    ASSUME TypeOK, NEW m \in Message, Deleted(m)
    PROVE  /\ queue' \in [Events -> [present : BOOLEAN, visible : BOOLEAN, receives : 0..MaxReceives]]
           /\ \A e \in Events : e # m.event => queue'[e].present = queue[e].present
  BY DEF TypeOK, Deleted, Message

\* An arrangement of events is a sequence of them.
LEMMA OrderIsSequence ==
    ASSUME NEW es \in SUBSET Events, NEW order \in SetToSeqs(es)
    PROVE  order \in Seq(Events) /\ \A i \in 1..Len(order) : order[i] \in es
  <1>1. IsFiniteSet(es)
    BY EventsAssumption, FS_Subset
  <1>2. Cardinality(es) \in Nat
    BY <1>1, FS_CardinalityType
  <1>3. order \in [1..Cardinality(es) -> es]
    BY DEF SetToSeqs
  <1> QED
    BY <1>2, <1>3

-----------------------------------------------------------------------------
(* One lemma per action of a worker that changes more than its step *)

\* Receive: a batch is taken, its messages become invisible.
LEMMA ReceiveKeeps ==
    ASSUME IInv, NEW w \in Workers, Receive(w)
    PROVE  IInv'
  <1>1. PICK es \in SUBSET {e \in Deliverable : queue[e].receives < MaxReceives} :
            /\ queue' = [e \in Events |->
                  IF e \in es
                  THEN [present |-> TRUE, visible |-> FALSE, receives |-> queue[e].receives + 1]
                  ELSE queue[e]]
            /\ \E order \in SetToSeqs(es) :
                  batch' = [batch EXCEPT ![w] =
                      [i \in 1..Len(order) |->
                          [event |-> order[i], receipt |-> queue'[order[i]].receives]]]
            /\ NextStep(w, "find")
    BY DEF Receive
  <1>2. TypeOK /\ batch[w] = <<>> /\ UNCHANGED <<dlq, done, recorded>>
    BY DEF IInv, Receive
  <1>3. es \subseteq Events /\ \A e \in es : queue[e].present /\ queue[e].receives < MaxReceives
    BY <1>1 DEF Deliverable
  <1>4. /\ queue' \in [Events -> [present : BOOLEAN, visible : BOOLEAN, receives : 0..MaxReceives]]
        /\ \A e \in Events : queue'[e].present = queue[e].present
    <2> DEFINE Shown == [present : BOOLEAN, visible : BOOLEAN, receives : 0..MaxReceives]
    <2>1. \A e \in Events : queue[e] \in Shown
      BY <1>2 DEF TypeOK
    <2>2. \A e \in es : queue[e].present /\ queue[e].receives + 1 \in 0..MaxReceives
      BY <1>3, <2>1, LimitsAssumption
    <2>3. queue' = [e \in Events |->
              IF e \in es
              THEN [present |-> TRUE, visible |-> FALSE, receives |-> queue[e].receives + 1]
              ELSE queue[e]]
      BY <1>1
    <2>4. \A e \in Events : queue'[e] \in Shown
      BY <2>1, <2>2, <2>3
    <2>5. \A e \in Events : queue'[e].present = queue[e].present
      BY <2>1, <2>2, <2>3
    <2> QED
      BY <2>3, <2>4, <2>5
  <1>5. PICK order \in SetToSeqs(es) :
            batch' = [batch EXCEPT ![w] =
                [i \in 1..Len(order) |->
                    [event |-> order[i], receipt |-> queue'[order[i]].receives]]]
    BY <1>1
  <1> DEFINE taken == [i \in 1..Len(order) |->
                          [event |-> order[i], receipt |-> queue'[order[i]].receives]]
  <1>6. taken \in Seq(Message)
    <2>1. order \in Seq(Events)
      BY <1>3, OrderIsSequence
    <2>2. Len(order) \in Nat /\ \A i \in 1..Len(order) : order[i] \in Events
      BY <2>1
    <2>3. \A e \in Events : queue'[e].receives \in Nat
      BY <1>4
    <2>4. taken \in [1..Len(order) -> Message]
      BY <2>2, <2>3 DEF Message
    <2> QED
      BY <2>2, <2>4, SeqDef
  <1>7. batch' = [batch EXCEPT ![w] = taken]
    BY <1>5
  <1> HIDE DEF taken
  <1>8. /\ step' = step
        /\ step[w] = "find"
    BY <1>1, <1>2 DEF NextStep, TypeOK
  <1>9. TypeOK'
    BY <1>2, <1>4, <1>6, <1>7, <1>8 DEF TypeOK
  <1>10. EffectAtMostOnce' /\ NoEventIsLost'
    BY <1>2, <1>4 DEF IInv, EffectAtMostOnce, NoEventIsLost
  <1>11. StepsEarned'
    BY <1>2, <1>7, <1>8 DEF IInv, StepsEarned, Event, TypeOK
  <1> QED
    BY <1>9, <1>10, <1>11 DEF IInv

\* The actions that only move a worker's step to one that asks for nothing.
LEMMA MoveKeeps ==
    ASSUME IInv, NEW w \in Workers, batch[w] # <<>>, NEW to \in Steps, NextStep(w, to),
           to = "record" => done[Event(w)] = 1,
           to = "ack" => Event(w) \in recorded,
           UNCHANGED <<queue, dlq, done, recorded, batch>>
    PROVE  IInv'
  <1>1. TypeOK
    BY DEF IInv
  <1>2. TypeOK'
    BY <1>1, NextStepMoves DEF TypeOK
  <1>3. StepsEarned'
    BY <1>1, NextStepMoves DEF IInv, StepsEarned, Event
  <1> QED
    BY <1>2, <1>3 DEF IInv, EffectAtMostOnce, NoEventIsLost

\* HandlerCommits: the first commit counts, a second one cannot happen.
LEMMA HandlerCommitsKeeps ==
    ASSUME IInv, NEW w \in Workers, HandlerCommits(w)
    PROVE  IInv'
  <1>1. TypeOK /\ batch[w] # <<>>
    BY DEF IInv, HandlerCommits, Doing
  <1>2. Event(w) \in Events
    BY <1>1, HeadIsMessage
  <1>3. CASE Commits(Event(w))
    <2>1. /\ done' = [done EXCEPT ![Event(w)] = @ + 1]
          /\ done[Event(w)] = 0
          /\ NextStep(w, "record")
          /\ UNCHANGED <<queue, dlq, recorded, batch>>
      BY <1>3 DEF HandlerCommits, Commits
    <2>2. done' \in [Events -> Nat] /\ done'[Event(w)] = 1
      BY <1>1, <1>2, <2>1 DEF TypeOK
    <2>3. "record" \in Steps
      BY DEF Steps
    <2>4. TypeOK'
      BY <1>1, <2>1, <2>2, <2>3, NextStepMoves DEF TypeOK
    <2>5. Event(w) \notin recorded
      BY <2>1 DEF IInv, EffectAtMostOnce
    <2>6. \A e \in Events : e # Event(w) => done'[e] = done[e]
      BY <1>1, <2>1 DEF TypeOK
    <2>7. EffectAtMostOnce' /\ NoEventIsLost'
      BY <1>1, <2>1, <2>2, <2>5, <2>6 DEF IInv, TypeOK, EffectAtMostOnce, NoEventIsLost
    <2>8. \A v \in Workers : batch[v] # <<>> => Event(v) \in Events
      BY <1>1, HeadIsMessage
    <2>9. \A v \in Workers : v # w => step'[v] = step[v]
      BY <1>1, <2>1, <2>3, NextStepMoves
    <2>10. step'[w] = "record"
      BY <1>1, <2>1, <2>3, NextStepMoves
    <2>11. StepsEarned'
      BY <2>1, <2>2, <2>6, <2>8, <2>9, <2>10 DEF IInv, StepsEarned, Event
    <2> QED
      BY <2>4, <2>7, <2>11 DEF IInv
  <1>4. CASE ~Commits(Event(w))
    BY <1>1, <1>4, MoveKeeps DEF HandlerCommits, Steps
  <1> QED
    BY <1>3, <1>4

\* RecordOutcome: only an effect that is there is recorded.
LEMMA RecordOutcomeKeeps ==
    ASSUME IInv, NEW w \in Workers, RecordOutcome(w)
    PROVE  IInv'
  <1>1. /\ TypeOK /\ batch[w] # <<>>
        /\ step[w] = "record"
        /\ recorded' = recorded \cup {Event(w)}
        /\ UNCHANGED <<queue, dlq, done, batch>>
    BY DEF IInv, RecordOutcome, Doing
  <1>2. PICK to \in {"ack", "failed", "dead"} : NextStep(w, to)
    BY DEF RecordOutcome
  <1>3. to \in Steps /\ to # "record"
    BY DEF Steps
  <1>4. Event(w) \in Events /\ done[Event(w)] = 1
    BY <1>1, HeadIsMessage DEF IInv, StepsEarned
  <1>5. TypeOK'
    BY <1>1, <1>2, <1>3, <1>4, NextStepMoves DEF TypeOK
  <1>6. EffectAtMostOnce' /\ NoEventIsLost'
    BY <1>1, <1>4 DEF IInv, EffectAtMostOnce, NoEventIsLost
  <1>7. step'[w] = to /\ \A v \in Workers : v # w => step'[v] = step[v]
    BY <1>1, <1>2, <1>3, NextStepMoves
  <1>8. StepsEarned'
    BY <1>1, <1>3, <1>7 DEF IInv, StepsEarned, Event
  <1> QED
    BY <1>5, <1>6, <1>8 DEF IInv

\* Ack: what is deleted has its outcome recorded.
LEMMA AckKeeps ==
    ASSUME IInv, NEW w \in Workers, Ack(w)
    PROVE  IInv'
  <1>1. /\ TypeOK /\ batch[w] # <<>> /\ step[w] = "ack"
        /\ Deleted(Head(batch[w])) /\ Finish(w)
        /\ UNCHANGED <<dlq, done, recorded>>
    BY DEF IInv, Ack, Doing
  <1>2. Head(batch[w]) \in Message /\ Event(w) = Head(batch[w]).event
    BY <1>1, HeadIsMessage DEF Event
  <1>3. TypeOK'
    BY <1>1, <1>2, DeletedKeeps, Leaving DEF TypeOK
  <1>4. Event(w) \in recorded
    BY <1>1 DEF IInv, StepsEarned
  <1>5. NoEventIsLost'
    BY <1>1, <1>2, <1>4, DeletedKeeps DEF IInv, NoEventIsLost
  <1>6. StepsEarned'
    BY <1>1, Leaving DEF IInv, StepsEarned, Event
  <1> QED
    BY <1>1, <1>3, <1>5, <1>6 DEF IInv, EffectAtMostOnce

\* DeadLetter: the copy is there before the message is deleted.
LEMMA DeadLetterKeeps ==
    ASSUME IInv, NEW w \in Workers, DeadLetter(w)
    PROVE  IInv'
  <1>1. /\ TypeOK /\ batch[w] # <<>>
        /\ dlq' = [dlq EXCEPT ![Event(w)] = @ + 1]
        /\ Deleted(Head(batch[w])) \/ UNCHANGED queue
        /\ Finish(w) \/ Abandon(w)
        /\ UNCHANGED <<done, recorded>>
    BY DEF IInv, DeadLetter, Doing
  <1>2. Head(batch[w]) \in Message /\ Event(w) = Head(batch[w]).event /\ Event(w) \in Events
    BY <1>1, HeadIsMessage DEF Event
  <1>3. dlq' \in [Events -> Nat] /\ dlq'[Event(w)] > 0 /\ \A e \in Events : dlq'[e] >= dlq[e]
    BY <1>1, <1>2 DEF TypeOK
  <1>4. /\ queue' \in [Events -> [present : BOOLEAN, visible : BOOLEAN, receives : 0..MaxReceives]]
        /\ \A e \in Events : e # Event(w) => queue'[e].present = queue[e].present
    BY <1>1, <1>2, DeletedKeeps DEF TypeOK
  <1>5. TypeOK'
    BY <1>1, <1>3, <1>4, Leaving DEF TypeOK
  <1>6. NoEventIsLost'
    <2>1. \A e \in Events : dlq[e] \in Nat /\ dlq'[e] \in Nat
      BY <1>1, <1>3 DEF TypeOK
    <2> QED
      BY <1>1, <1>3, <1>4, <2>1 DEF IInv, NoEventIsLost
  <1>7. StepsEarned'
    BY <1>1, Leaving DEF IInv, StepsEarned, Event
  <1> QED
    BY <1>1, <1>5, <1>6, <1>7 DEF IInv, EffectAtMostOnce

\* Retry and CrashWorker: the message stays in the queue.
LEMMA LeaveKeeps ==
    ASSUME IInv, NEW w \in Workers, batch[w] # <<>>, Finish(w) \/ Abandon(w),
           UNCHANGED <<queue, dlq, done, recorded>>
    PROVE  IInv'
  <1>1. TypeOK
    BY DEF IInv
  <1>2. TypeOK'
    BY <1>1, Leaving DEF TypeOK
  <1>3. StepsEarned'
    BY <1>1, Leaving DEF IInv, StepsEarned, Event
  <1> QED
    BY <1>2, <1>3 DEF IInv, EffectAtMostOnce, NoEventIsLost

\* Redrive and VisibilityEnds: the service moves or shows a message.
LEMMA ServiceKeeps ==
    ASSUME IInv, NEW e \in Events, Redrive(e) \/ VisibilityEnds(e)
    PROVE  IInv'
  <1>1. TypeOK
    BY DEF IInv
  <1>2. CASE Redrive(e)
    <2>1. TypeOK'
      <3>1. /\ queue' = [queue EXCEPT ![e].present = FALSE]
            /\ dlq' = [dlq EXCEPT ![e] = @ + 1]
            /\ UNCHANGED <<done, recorded, batch, step>>
        BY <1>2 DEF Redrive
      <3>2. queue' \in [Events -> [present : BOOLEAN, visible : BOOLEAN, receives : 0..MaxReceives]]
        BY <1>1, <3>1 DEF TypeOK
      <3>3. dlq' \in [Events -> Nat]
        BY <1>1, <3>1 DEF TypeOK
      <3> QED
        BY <1>1, <3>1, <3>2, <3>3 DEF TypeOK
    <2>2. NoEventIsLost'
      BY <1>1, <1>2 DEF IInv, TypeOK, Redrive, NoEventIsLost
    <2> QED
      BY <1>2, <2>1, <2>2 DEF IInv, Redrive, EffectAtMostOnce, StepsEarned, Event
  <1>3. CASE VisibilityEnds(e)
    <2>1. TypeOK'
      BY <1>1, <1>3 DEF TypeOK, VisibilityEnds, Event
    <2>2. NoEventIsLost'
      BY <1>1, <1>3 DEF IInv, TypeOK, VisibilityEnds, NoEventIsLost
    <2> QED
      BY <1>3, <2>1, <2>2 DEF IInv, VisibilityEnds, EffectAtMostOnce, StepsEarned, Event
  <1> QED
    BY <1>2, <1>3

-----------------------------------------------------------------------------
\* Every step of a worker's handling keeps the invariant.
LEMMA WorkKeeps ==
    ASSUME IInv, NEW w \in Workers, Work(w)
    PROVE  IInv'
  <1>1. CASE Find(w)
    <2>1. /\ batch[w] # <<>>
          /\ AfterFind(Event(w)) \in {"dead", "ack", "handle"}
          /\ AfterFind(Event(w)) = "ack" => Event(w) \in recorded
      BY <1>1 DEF Find, Doing, AfterFind
    <2> QED
      BY <1>1, <2>1, MoveKeeps DEF Find, Steps
  <1>2. CASE Handle(w)
    <2>1. batch[w] # <<>> /\ TypeOK
      BY <1>2 DEF IInv, Handle, Doing
    <2>2. Event(w) \in Events
      BY <2>1, HeadIsMessage
    <2>3. /\ AfterLook(Event(w)) \in {"record", "commit"}
          /\ AfterLook(Event(w)) = "record" => done[Event(w)] = 1
      BY <2>1, <2>2 DEF AfterLook, IInv, TypeOK, EffectAtMostOnce
    <2> QED
      BY <1>2, <2>1, <2>3, MoveKeeps DEF Handle, Steps
  <1>3. CASE HandlerFails(w)
    BY <1>3, MoveKeeps DEF HandlerFails, Doing, Steps
  <1>4. CASE HandlerCommits(w)
    BY <1>4, HandlerCommitsKeeps
  <1>5. CASE RecordOutcome(w)
    BY <1>5, RecordOutcomeKeeps
  <1>6. CASE Ack(w)
    BY <1>6, AckKeeps
  <1>7. CASE AckFails(w)
    BY <1>7, MoveKeeps DEF AckFails, Doing, Steps
  <1>8. CASE Retry(w)
    BY <1>8, LeaveKeeps DEF Retry, Doing
  <1>9. CASE GiveUp(w)
    BY <1>9, MoveKeeps DEF GiveUp, Doing, Steps
  <1>10. CASE DeadLetter(w)
    BY <1>10, DeadLetterKeeps
  <1> QED
    BY <1>1, <1>2, <1>3, <1>4, <1>5, <1>6, <1>7, <1>8, <1>9, <1>10 DEF Work

\* The invariant holds always, for any number of workers, deliveries and
\* attempts, and whatever fails.
THEOREM Inductive == Spec => []IInv
  <1>1. Init => IInv
    <2> SUFFICES ASSUME Init
                 PROVE  IInv
      OBVIOUS
    <2>1. TypeOK
      BY LimitsAssumption DEF Init, TypeOK, Steps
    <2> QED
      BY <2>1 DEF Init, IInv, EffectAtMostOnce, NoEventIsLost, StepsEarned
  <1>2. IInv /\ [Next]_vars => IInv'
    <2> SUFFICES ASSUME IInv, [Next]_vars
                 PROVE  IInv'
      OBVIOUS
    <2>1. CASE \E w \in Workers : Receive(w)
      BY <2>1, ReceiveKeeps
    <2>2. CASE \E w \in Workers : Work(w)
      BY <2>2, WorkKeeps
    <2>3. CASE \E w \in Workers : CrashWorker(w)
      BY <2>3, LeaveKeeps DEF CrashWorker
    <2>4. CASE \E e \in Events : Redrive(e) \/ VisibilityEnds(e)
      BY <2>4, ServiceKeeps
    <2>5. CASE UNCHANGED vars
      BY <2>5 DEF vars, IInv, TypeOK, EffectAtMostOnce, NoEventIsLost, StepsEarned, Event
    <2> QED
      BY <2>1, <2>2, <2>3, <2>4, <2>5 DEF Next
  <1> QED
    BY <1>1, <1>2, PTL DEF Spec

\* The queue, the stores and the workers' batches keep their types.
THEOREM TypeCorrect == Spec => []TypeOK
  <1>1. IInv => TypeOK
    BY DEF IInv
  <1> QED
    BY <1>1, Inductive, PTL

\* However often and wherever an event is delivered, its effect is committed at
\* most once, and an outcome is recorded only for an effect that is there.
THEOREM EffectsHappenOnce == Spec => []EffectAtMostOnce
  <1>1. IInv => EffectAtMostOnce
    BY DEF IInv
  <1> QED
    BY <1>1, Inductive, PTL

\* No event leaves the queue without a recorded outcome or a dead-letter copy.
THEOREM EventsAreKept == Spec => []NoEventIsLost
  <1>1. IInv => NoEventIsLost
    BY DEF IInv
  <1> QED
    BY <1>1, Inductive, PTL

-----------------------------------------------------------------------------
(* Maxima and minima *)

LEMMA LeastOf ==
    ASSUME NEW S \in SUBSET Nat, S # {}
    PROVE  \E m \in S : \A y \in S : m <= y
  <1>1. PICK m \in S : \A t \in S : ~(<<t, m>> \in OpToRel(<, Nat))
    BY NatLessThanWellFounded, WFMin
  <1>2. \A y \in S : m <= y
    <2> SUFFICES ASSUME NEW y \in S PROVE m <= y
      OBVIOUS
    <2>1. ~(y < m)
      BY <1>1 DEF OpToRel
    <2> QED
      BY <2>1
  <1> QED
    BY <1>2

LEMMA LatestIs ==
    ASSUME NEW S \in SUBSET Nat, NEW n \in Nat, \A x \in S : x <= n
    PROVE  /\ Latest(S) \in S \cup {0} /\ Latest(S) \in Nat
           /\ \A y \in S : y <= Latest(S)
  <1> DEFINE all == S \cup {0}
             T == {k \in Nat : n - k \in all}
  <1>1. T \in SUBSET Nat /\ T # {}
    <2>1. n - n = 0 /\ n \in T
      OBVIOUS
    <2> QED
      BY <2>1
  <1>2. PICK m \in T : \A t \in T : m <= t
    <2> HIDE DEF T
    <2> QED
      BY <1>1, LeastOf
  <1>3. ASSUME NEW y \in all PROVE y <= n - m
    <2>1. y \in Nat /\ y <= n
      OBVIOUS
    <2>2. n - y \in Nat /\ n - (n - y) = y
      BY <2>1
    <2>3. n - y \in T
      BY <1>3, <2>2
    <2>4. m <= n - y /\ m \in Nat
      BY <1>2, <2>3
    <2> QED
      BY <2>1, <2>4
  <1>4. n - m \in all /\ n - m \in Nat
    BY <1>2
  <1>5. Max(all) \in all /\ \A y \in all : y <= Max(all)
    <2> HIDE DEF all, T
    <2> QED
      BY <1>3, <1>4 DEF Max
  <1>6. Latest(S) = Max(all)
    BY DEF Latest
  <1>7. S \subseteq all /\ all \subseteq Nat
    OBVIOUS
  <1> QED
    <2>1. Max(all) \in S \cup {0}
      BY <1>5
    <2> HIDE DEF all
    <2> QED
      BY <1>5, <1>6, <1>7, <2>1

-----------------------------------------------------------------------------
(* What a prompt costs *)

\* The recursive function of Total, for costs of any length.
Sums(costs, f, m) == f = [n \in 0..m |-> IF n = 0 THEN 0 ELSE f[n - 1] + costs[n]]

LEMMA SumsRun ==
    ASSUME NEW costs, NEW m \in Nat
    PROVE  \E f : Sums(costs, f, m)
  <1> DEFINE Stuck == {k \in Nat : ~ \E f : Sums(costs, f, k)}
  <1>1. SUFFICES ASSUME Stuck # {} PROVE FALSE
    OBVIOUS
  <1>2. PICK l \in Stuck : \A k \in Stuck : l <= k
    <2>1. Stuck \in SUBSET Nat
      OBVIOUS
    <2> HIDE DEF Stuck
    <2> QED
      BY <1>1, <2>1, LeastOf
  <1>3. l # 0
    <2>1. Sums(costs, [n \in 0..0 |-> 0], 0)
      BY DEF Sums
    <2> QED
      BY <1>2, <2>1
  <1>4. l - 1 \in Nat /\ l \in Nat /\ ~(l - 1 \in Stuck)
    BY <1>2, <1>3
  <1>5. PICK f : Sums(costs, f, l - 1)
    BY <1>4
  <1> DEFINE g == [n \in 0..l |-> IF n = l THEN f[l - 1] + costs[l] ELSE f[n]]
             h == [n \in 0..l |-> IF n = 0 THEN 0 ELSE g[n - 1] + costs[n]]
  <1>6. ASSUME NEW n \in 0..l PROVE g[n] = h[n]
    <2>1. CASE n = l
      <3>1. /\ g[l] = f[l - 1] + costs[l] /\ g[l - 1] = f[l - 1]
            /\ h[l] = g[l - 1] + costs[l]
        BY <1>3, <1>4
      <3> QED
        BY <2>1, <3>1
    <2>2. CASE n # l /\ n # 0
      <3>1. n \in 0..(l - 1) /\ n - 1 \in 0..l /\ n - 1 # l /\ g[n] = f[n] /\ g[n - 1] = f[n - 1]
        BY <1>4, <2>2
      <3>2. f[n] = f[n - 1] + costs[n]
        BY <1>5, <2>2, <3>1 DEF Sums
      <3> HIDE DEF g
      <3> QED
        BY <2>2, <3>1, <3>2
    <2>3. CASE n # l /\ n = 0
      <3>1. g[n] = f[0] /\ h[n] = 0 /\ 0 \in 0..(l - 1)
        BY <1>3, <1>4, <2>3
      <3>2. f[0] = 0
        BY <1>5, <3>1 DEF Sums
      <3> QED
        BY <3>1, <3>2
    <2> QED
      BY <2>1, <2>2, <2>3
  <1>7. g = h
    BY <1>6
  <1>8. Sums(costs, g, l)
    BY <1>7 DEF Sums
  <1> QED
    BY <1>2, <1>8

Summed(costs, f, last) == f[0] = 0 /\ \A n \in 1..last : f[n] = f[n - 1] + costs[n]

LEMMA TotalRuns ==
    ASSUME NEW costs, NEW last, last = Len(costs), last \in Nat
    PROVE  \E f : Summed(costs, f, last) /\ Total(costs) = f[last]
  <1>1. PICK f : Sums(costs, f, last) /\ Total(costs) = f[last]
    <2>1. \E f : Sums(costs, f, last)
      BY SumsRun
    <2>2. Total(costs) = (CHOOSE f : Sums(costs, f, last))[last]
      BY DEF Total, Sums
    <2> QED
      BY <2>1, <2>2
  <1>2. f[0] = 0
    BY <1>1 DEF Sums
  <1>3. ASSUME NEW n \in 1..last PROVE f[n] = f[n - 1] + costs[n]
    <2>1. n \in 0..last /\ n # 0
      OBVIOUS
    <2> QED
      BY <1>1, <2>1 DEF Sums
  <1> QED
    BY <1>1, <1>2, <1>3 DEF Summed

\* The recursive function of TokensUsed.
Spent(used, cost) == IF used + cost > MaxTokens THEN used ELSE used + cost

Spends(ts, f, m) ==
    f = [k \in 0..m |->
            IF k = 0 THEN FixedCost
            ELSE LET cost == ts[Len(ts) + 1 - k].cost
                 IN  IF f[k - 1] + cost > MaxTokens THEN f[k - 1] ELSE f[k - 1] + cost]

LEMMA SpendsRun ==
    ASSUME NEW ts, NEW m \in Nat
    PROVE  \E f : Spends(ts, f, m)
  <1> DEFINE Stuck == {k \in Nat : ~ \E f : Spends(ts, f, k)}
  <1>1. SUFFICES ASSUME Stuck # {} PROVE FALSE
    OBVIOUS
  <1>2. PICK l \in Stuck : \A k \in Stuck : l <= k
    <2>1. Stuck \in SUBSET Nat
      OBVIOUS
    <2> HIDE DEF Stuck
    <2> QED
      BY <1>1, <2>1, LeastOf
  <1>3. l # 0
    <2>1. Spends(ts, [k \in 0..0 |-> FixedCost], 0)
      BY DEF Spends
    <2> QED
      BY <1>2, <2>1
  <1>4. l - 1 \in Nat /\ l \in Nat /\ ~(l - 1 \in Stuck)
    BY <1>2, <1>3
  <1>5. PICK f : Spends(ts, f, l - 1)
    BY <1>4
  <1> DEFINE cost(k) == ts[Len(ts) + 1 - k].cost
             g == [k \in 0..l |-> IF k = l THEN Spent(f[l - 1], cost(l)) ELSE f[k]]
             h == [k \in 0..l |-> IF k = 0 THEN FixedCost ELSE Spent(g[k - 1], cost(k))]
  <1>6. ASSUME NEW k \in 0..l PROVE g[k] = h[k]
    <2> HIDE DEF cost
    <2>1. CASE k = l
      <3>1. /\ g[l] = Spent(f[l - 1], cost(l)) /\ g[l - 1] = f[l - 1]
            /\ h[l] = Spent(g[l - 1], cost(l))
        BY <1>3, <1>4
      <3> QED
        BY <2>1, <3>1
    <2>2. CASE k # l /\ k # 0
      <3>1. k \in 0..(l - 1) /\ k - 1 \in 0..l /\ k - 1 # l /\ g[k] = f[k] /\ g[k - 1] = f[k - 1]
        BY <1>4, <2>2
      <3>2. f[k] = Spent(f[k - 1], cost(k))
        BY <1>5, <2>2, <3>1 DEF Spends, Spent, cost
      <3> HIDE DEF g
      <3> QED
        BY <2>2, <3>1, <3>2
    <2>3. CASE k # l /\ k = 0
      <3>1. g[k] = f[0] /\ h[k] = FixedCost /\ 0 \in 0..(l - 1)
        BY <1>3, <1>4, <2>3
      <3>2. f[0] = FixedCost
        BY <1>5, <3>1 DEF Spends
      <3> QED
        BY <3>1, <3>2
    <2> QED
      BY <2>1, <2>2, <2>3
  <1>7. g = h
    BY <1>6
  <1>8. Spends(ts, g, l)
    <2>1. g = [k \in 0..l |-> IF k = 0 THEN FixedCost ELSE Spent(g[k - 1], cost(k))]
      BY <1>7
    <2> HIDE DEF g
    <2> QED
      BY <2>1 DEF Spends, Spent, cost
  <1> QED
    BY <1>2, <1>8

Spending(ts, f) ==
    f[0] = FixedCost /\ \A k \in 1..Len(ts) : f[k] = Spent(f[k - 1], ts[Len(ts) + 1 - k].cost)

LEMMA TokensRun ==
    ASSUME NEW size, size = Len(turns), size \in Nat
    PROVE  Spending(turns, TokensUsed)
  <1>1. Spends(turns, TokensUsed, size)
    <2>1. \E f : Spends(turns, f, size)
      BY SpendsRun
    <2>2. TokensUsed = CHOOSE f : Spends(turns, f, size)
      BY DEF TokensUsed, Spends
    <2> QED
      BY <2>1, <2>2
  <1>2. TokensUsed[0] = FixedCost
    BY <1>1 DEF Spends
  <1>3. ASSUME NEW k \in 1..size
        PROVE  TokensUsed[k] = Spent(TokensUsed[k - 1], turns[size + 1 - k].cost)
    <2>1. k \in 0..size /\ k # 0
      OBVIOUS
    <2> QED
      BY <1>1, <2>1 DEF Spends, Spent
  <1> QED
    BY <1>2, <1>3 DEF Spending

-----------------------------------------------------------------------------
(* What fits into a prompt *)

\* NewestThatFit, of any list of turns.
Fitting(ts, shown, place) ==
    LET cost(i) == ts[i].cost
        tokens == FixedCost + Total([i \in 1..(place - 1) |-> IF i \in shown THEN cost(i) ELSE 0])
    IN  /\ shown \subseteq 1..(place - 1)
        /\ tokens <= MaxTokens
        /\ \A i \in (1..(place - 1)) \ shown :
              /\ tokens + cost(i) > MaxTokens
              /\ \A j \in shown : j < i => cost(j) < cost(i)

\* A prompt fits as long as the turns before its question keep their sizes.
LEMMA FittingStays ==
    ASSUME NEW ts, NEW us, NEW shown, NEW place, Fitting(ts, shown, place),
           \A i \in 1..(place - 1) : us[i].cost = ts[i].cost
    PROVE  Fitting(us, shown, place)
  <1> DEFINE before == 1..(place - 1)
             old == [i \in before |-> IF i \in shown THEN ts[i].cost ELSE 0]
             new == [i \in before |-> IF i \in shown THEN us[i].cost ELSE 0]
  <1>1. new = old
    OBVIOUS
  <1>2. /\ shown \subseteq before
        /\ FixedCost + Total(old) <= MaxTokens
        /\ \A i \in before \ shown :
              /\ FixedCost + Total(old) + ts[i].cost > MaxTokens
              /\ \A j \in shown : j < i => ts[j].cost < ts[i].cost
    BY DEF Fitting
  <1>3. \A i \in before : us[i].cost = ts[i].cost
    OBVIOUS
  <1>4. /\ shown \subseteq before
        /\ FixedCost + Total(new) <= MaxTokens
        /\ \A i \in before \ shown :
              /\ FixedCost + Total(new) + us[i].cost > MaxTokens
              /\ \A j \in shown : j < i => us[j].cost < us[i].cost
    <2> HIDE DEF before, old, new
    <2> QED
      BY <1>1, <1>2, <1>3
  <1> QED
    BY <1>4 DEF Fitting

\* The tokens used, once some of the turns were looked at, are within the budget.
LEMMA UsedFits ==
    ASSUME CostsAssumption, FixedCost <= MaxTokens, NEW size \in Nat, NEW used, NEW cost,
           used[0] = FixedCost,
           \A k \in 1..size : cost[k] \in Nat /\ used[k] = Spent(used[k - 1], cost[k])
    PROVE  \A k \in 0..size : used[k] \in Nat /\ used[k] <= MaxTokens
  <1> DEFINE Bad == {k \in 0..size : ~(used[k] \in Nat /\ used[k] <= MaxTokens)}
  <1>1. SUFFICES ASSUME Bad # {} PROVE FALSE
    OBVIOUS
  <1>2. PICK l \in Bad : \A k \in Bad : l <= k
    <2>1. Bad \in SUBSET Nat
      OBVIOUS
    <2> HIDE DEF Bad
    <2> QED
      BY <1>1, <2>1, LeastOf
  <1>3. l # 0
    BY <1>2 DEF CostsAssumption
  <1>4. l \in 1..size /\ l - 1 \in 0..size /\ ~(l - 1 \in Bad)
    BY <1>2, <1>3
  <1>5. used[l - 1] \in Nat /\ used[l - 1] <= MaxTokens /\ MaxTokens \in Nat
    BY <1>4 DEF CostsAssumption
  <1>6. cost[l] \in Nat /\ used[l] = Spent(used[l - 1], cost[l])
    BY <1>4
  <1>7. used[l] \in Nat /\ used[l] <= MaxTokens
    <2> HIDE DEF Bad
    <2> QED
      BY <1>5, <1>6 DEF Spent
  <1> QED
    BY <1>2, <1>7

\* They never become fewer.
LEMMA UsedGrows ==
    ASSUME NEW size \in Nat, NEW used, NEW cost, NEW j \in 0..size,
           \A k \in 0..size : used[k] \in Nat,
           \A k \in 1..size : cost[k] \in Nat /\ used[k] = Spent(used[k - 1], cost[k])
    PROVE  \A k \in j..size : used[j] <= used[k]
  <1> DEFINE Bad == {k \in j..size : ~(used[j] <= used[k])}
  <1>1. SUFFICES ASSUME Bad # {} PROVE FALSE
    OBVIOUS
  <1>2. PICK l \in Bad : \A k \in Bad : l <= k
    <2>1. Bad \in SUBSET Nat
      OBVIOUS
    <2> HIDE DEF Bad
    <2> QED
      BY <1>1, <2>1, LeastOf
  <1>3. l # j
    <2>1. used[j] <= used[j]
      OBVIOUS
    <2> QED
      BY <1>2, <2>1
  <1>4. l \in 1..size /\ l - 1 \in j..size /\ ~(l - 1 \in Bad)
    BY <1>2, <1>3
  <1>5. used[j] <= used[l - 1] /\ used[l - 1] \in Nat /\ used[j] \in Nat
    BY <1>4
  <1>6. cost[l] \in Nat /\ used[l] = Spent(used[l - 1], cost[l])
    BY <1>4
  <1>7. used[j] <= used[l]
    <2> HIDE DEF Bad
    <2> QED
      BY <1>5, <1>6 DEF Spent
  <1> QED
    BY <1>2, <1>7

\* What is shown, added up from the oldest, meets what was used, added up from the newest.
LEMMA SumsMeet ==
    ASSUME NEW size \in Nat, NEW used, NEW sum, NEW costs, FixedCost \in Nat,
           used[0] = FixedCost, sum[0] = 0,
           \A k \in 0..size : used[k] \in Nat,
           \A n \in 1..size : costs[n] \in Nat /\ sum[n] = sum[n - 1] + costs[n],
           \A k \in 1..size : used[k] = used[k - 1] + costs[size + 1 - k]
    PROVE  used[size] = FixedCost + sum[size]
  <1>1. \A n \in 0..size : sum[n] \in Nat
    <2> DEFINE Bad == {n \in 0..size : ~(sum[n] \in Nat)}
    <2>1. SUFFICES ASSUME Bad # {} PROVE FALSE
      OBVIOUS
    <2>2. PICK l \in Bad : \A k \in Bad : l <= k
      <3>1. Bad \in SUBSET Nat
        OBVIOUS
      <3> HIDE DEF Bad
      <3> QED
        BY <2>1, <3>1, LeastOf
    <2>3. l # 0
      BY <2>2
    <2>4. l \in 1..size /\ l - 1 \in 0..size /\ ~(l - 1 \in Bad)
      BY <2>2, <2>3
    <2>5. sum[l - 1] \in Nat /\ costs[l] \in Nat /\ sum[l] = sum[l - 1] + costs[l]
      BY <2>4
    <2>6. sum[l] \in Nat
      BY <2>5
    <2> QED
      BY <2>2, <2>6
  <1> DEFINE Bad == {k \in 0..size : used[k] + sum[size - k] # FixedCost + sum[size]}
  <1>2. Bad = {}
    <2>1. SUFFICES ASSUME Bad # {} PROVE FALSE
      OBVIOUS
    <2>2. PICK l \in Bad : \A k \in Bad : l <= k
      <3>1. Bad \in SUBSET Nat
        OBVIOUS
      <3> HIDE DEF Bad
      <3> QED
        BY <2>1, <3>1, LeastOf
    <2>3. l # 0
      <3>1. size - 0 = size
        OBVIOUS
      <3> QED
        BY <2>2, <3>1
    <2>4. l \in 1..size /\ l - 1 \in 0..size /\ ~(l - 1 \in Bad)
      BY <2>2, <2>3
    <2>5. used[l - 1] + sum[size - (l - 1)] = FixedCost + sum[size]
      BY <2>4
    <2>6. size - (l - 1) = size + 1 - l /\ (size + 1 - l) - 1 = size - l
      BY <2>4
    <2>7. size + 1 - l \in 1..size /\ size - l \in 0..size
      BY <2>4
    <2>8. sum[size + 1 - l] = sum[size - l] + costs[size + 1 - l]
      BY <2>6, <2>7
    <2>9. used[l] = used[l - 1] + costs[size + 1 - l]
      BY <2>4
    <2>10. /\ used[l] \in Nat /\ used[l - 1] \in Nat /\ sum[size - l] \in Nat
           /\ costs[size + 1 - l] \in Nat
      BY <1>1, <2>4, <2>7
    <2>11. used[l] + sum[size - l] = FixedCost + sum[size]
      <3> HIDE DEF Bad
      <3> QED
        BY <2>5, <2>6, <2>8, <2>9, <2>10
    <2> QED
      BY <2>2, <2>11
  <1>3. used[size] + sum[size - size] = FixedCost + sum[size]
    BY <1>2
  <1>4. size - size = 0 /\ used[size] \in Nat
    OBVIOUS
  <1> QED
    BY <1>3, <1>4

\* The turns ContextBuilder.build includes are the newest that fit.
LEMMA PromptFits ==
    ASSUME CostsAssumption, FixedCost <= MaxTokens,
           NEW size, size = Len(turns), size \in Nat,
           \A i \in 1..size : turns[i].cost \in Nat \ {0}
    PROVE  Fitting(turns, Included, size + 1)
  <1> DEFINE used == TokensUsed
             cost == [k \in 1..size |-> turns[size + 1 - k].cost]
             shown == Included
             before == 1..(size + 1 - 1)
             costs == [i \in before |-> IF i \in shown THEN turns[i].cost ELSE 0]
  <1>1. used[0] = FixedCost /\ FixedCost \in Nat /\ MaxTokens \in Nat
    BY TokensRun DEF Spending, CostsAssumption
  <1>2. ASSUME NEW k \in 1..size
        PROVE  /\ cost[k] \in Nat \ {0} /\ cost[k] = turns[size + 1 - k].cost
               /\ used[k] = Spent(used[k - 1], cost[k])
    <2>1. used[k] = Spent(used[k - 1], turns[size + 1 - k].cost)
      BY TokensRun DEF Spending
    <2>2. size + 1 - k \in 1..size
      OBVIOUS
    <2>3. cost[k] = turns[size + 1 - k].cost /\ cost[k] \in Nat \ {0}
      BY <2>2
    <2> QED
      BY <2>1, <2>3
  <1>3. before = 1..size
    OBVIOUS
  <1>4. ASSUME NEW i \in 1..size PROVE i \in shown <=> used[size + 1 - i] > used[size - i]
    BY DEF Included
  <1>5. shown \subseteq before
    BY <1>3 DEF Included
  <1> HIDE DEF used, cost, shown, before
  <1>6. \A k \in 0..size : used[k] \in Nat /\ used[k] <= MaxTokens
    <2>1. \A k \in 1..size : cost[k] \in Nat /\ used[k] = Spent(used[k - 1], cost[k])
      BY <1>2
    <2> QED
      BY ONLY <1>1, <2>1, CostsAssumption, FixedCost <= MaxTokens, size \in Nat, UsedFits
  <1>7. \A j \in 0..size : \A k \in j..size : used[j] <= used[k]
    <2>1. \A k \in 1..size : cost[k] \in Nat /\ used[k] = Spent(used[k - 1], cost[k])
      BY <1>2
    <2>2. \A k \in 0..size : used[k] \in Nat
      BY <1>6
    <2> SUFFICES ASSUME NEW j \in 0..size PROVE \A k \in j..size : used[j] <= used[k]
      OBVIOUS
    <2> QED
      BY ONLY <2>1, <2>2, size \in Nat, j \in 0..size, UsedGrows
  <1>8. ASSUME NEW k \in 1..size
        PROVE  IF size + 1 - k \in shown THEN used[k] = used[k - 1] + cost[k]
               ELSE used[k] = used[k - 1] /\ used[k - 1] + cost[k] > MaxTokens
    <2>1. /\ size + 1 - k \in 1..size /\ size + 1 - (size + 1 - k) = k
          /\ size - (size + 1 - k) = k - 1 /\ k - 1 \in 0..size /\ k \in 0..size
      OBVIOUS
    <2>2. size + 1 - k \in shown <=> used[k] > used[k - 1]
      BY <1>4, <2>1
    <2>3. used[k] \in Nat /\ used[k - 1] \in Nat /\ cost[k] \in Nat \ {0}
      BY <1>2, <1>6, <2>1
    <2>4. used[k] = Spent(used[k - 1], cost[k])
      BY <1>2
    <2> QED
      BY <1>1, <2>2, <2>3, <2>4 DEF Spent
  <1>9. ASSUME NEW n \in 1..size
        PROVE  costs[n] = (IF n \in shown THEN turns[n].cost ELSE 0) /\ costs[n] \in Nat
    BY <1>3
  <1>10. costs \in Seq(Nat) /\ Len(costs) = size
    <2>1. costs = [n \in 1..size |-> IF n \in shown THEN turns[n].cost ELSE 0]
      BY <1>3
    <2> HIDE DEF costs
    <2>2. costs \in [1..size -> Nat]
      BY <2>1
    <2>3. DOMAIN costs = 1..size
      BY <2>1
    <2> QED
      BY <2>2, <2>3
  <1> HIDE DEF costs
  <1>11. PICK sum : Summed(costs, sum, size) /\ Total(costs) = sum[size]
    BY <1>10, TotalRuns
  <1>12. used[size] = FixedCost + sum[size]
    <2>1. \A n \in 1..size : costs[n] \in Nat /\ sum[n] = sum[n - 1] + costs[n]
      BY <1>9, <1>11 DEF Summed
    <2>2. sum[0] = 0
      BY <1>11 DEF Summed
    <2>3. ASSUME NEW k \in 1..size PROVE used[k] = used[k - 1] + costs[size + 1 - k]
      <3>1. size + 1 - k \in 1..size /\ k - 1 \in 0..size
        OBVIOUS
      <3>2. costs[size + 1 - k] = IF size + 1 - k \in shown THEN cost[k] ELSE 0
        BY <1>2, <1>9, <3>1
      <3>3. used[k - 1] \in Nat
        BY <1>6, <3>1
      <3> QED
        BY <1>8, <3>2, <3>3
    <2>4. \A k \in 0..size : used[k] \in Nat
      BY <1>6
    <2>5. FixedCost \in Nat /\ used[0] = FixedCost
      BY <1>1
    <2> QED
      BY ONLY <2>1, <2>2, <2>3, <2>4, <2>5, size \in Nat, SumsMeet
  <1> DEFINE tokens == FixedCost + Total(costs)
  <1>13. tokens = used[size] /\ tokens <= MaxTokens /\ tokens \in Nat
    BY <1>6, <1>11, <1>12
  <1> HIDE DEF tokens
  <1>14. ASSUME NEW i \in before \ shown
         PROVE  /\ tokens + turns[i].cost > MaxTokens
                /\ \A j \in shown : j < i => turns[j].cost < turns[i].cost
    <2> DEFINE k == size + 1 - i
    <2>1. k \in 1..size /\ k - 1 \in 0..size /\ size + 1 - k = i
      BY <1>3
    <2>2. used[k - 1] + cost[k] > MaxTokens /\ cost[k] = turns[i].cost /\ cost[k] \in Nat
      BY <1>2, <1>8, <2>1
    <2>3. used[k - 1] <= used[size] /\ used[k - 1] \in Nat
      <3>1. size \in (k - 1)..size
        BY <2>1
      <3> QED
        BY <1>6, <1>7, <2>1, <3>1
    <2>4. tokens + turns[i].cost > MaxTokens
      <3> HIDE DEF k
      <3> QED
        BY <1>1, <1>13, <2>2, <2>3
    <2>5. ASSUME NEW j \in shown, j < i PROVE turns[j].cost < turns[i].cost
      <3> DEFINE l == size + 1 - j
      <3>1. /\ l \in 1..size /\ l - 1 \in 0..size /\ l \in 0..size
            /\ size + 1 - l = j /\ l - 1 \in (k - 1)..size
        BY <1>3, <1>5, <2>5
      <3>2. used[l] = used[l - 1] + cost[l] /\ cost[l] = turns[j].cost /\ cost[l] \in Nat
        BY <1>2, <1>8, <3>1
      <3>3. used[l] <= MaxTokens /\ used[l - 1] \in Nat /\ used[k - 1] <= used[l - 1]
        BY <1>6, <1>7, <2>1, <3>1
      <3> HIDE DEF k, l
      <3> QED
        BY <1>1, <2>2, <2>3, <3>2, <3>3
    <2> QED
      BY <2>4, <2>5
  <1> QED
    BY <1>5, <1>13, <1>14 DEF Fitting, tokens, costs, before, shown

-----------------------------------------------------------------------------
(* The inductive invariant of the interview service *)

Texts == ModelReplies \cup {Fallback(criterion) : criterion \in Criteria}

TurnRows ==
    [speaker : {"applicant"}, id : Keys, cost : AnswerCosts]
        \cup [speaker : {"interviewer"}, text : Texts, shown : SUBSET Nat, cost : {QuestionCost}]

\* The places of the questions and of the answers of a list of turns.
Asked(ts) == {i \in DOMAIN ts : ts[i].speaker = "interviewer"}
Heard(ts) == DOMAIN ts \ Asked(ts)

AnswerAt(ts, place, key) == place \in Heard(ts) /\ ts[place].id = key

\* A question follows an answer, was made from the newest turns that fit, and is asked once.
QuestionsRight(ts) ==
    /\ \A q \in Asked(ts) : q - 1 \in Heard(ts) /\ Fitting(ts, ts[q].shown, q)
    /\ \A p, q \in Asked(ts) : ts[p].text = ts[q].text => p = q

RepliesRight(rs, ts) ==
    /\ \A r \in rs : AnswerAt(ts, r.place, r.key) /\ r.place + 1 \in Asked(ts)
    /\ \A r, t \in rs : r.key = t.key => r = t

TurnsRight == turns \in Seq(TurnRows) /\ QuestionsRight(turns) /\ RepliesRight(replies, turns)

\* What a thread holds of the session is a session, and what it will record is a checkpoint.
IsSession(s) ==
    s = [state |-> s.state, sequence |-> s.sequence, degraded |-> s.degraded] /\ s.sequence \in Nat

Asking(w) ==
    /\ w = [step |-> "ask", key |-> w.key, criterion |-> w.criterion, next |-> w.next]
    /\ w.key \in Keys /\ w.criterion \in Criteria /\ IsSession(w.next)

StoreSteps == {"store", "compare", "write"}

Storing(w) ==
    /\ \/ /\ w.call = "answer" /\ w.key \in Keys
          /\ w = [step |-> w.step, call |-> "answer", key |-> w.key,
                  next |-> w.next, draft |-> w.draft]
       \/ /\ w.call \in {"start", "complete"}
          /\ w = [step |-> w.step, call |-> w.call, next |-> w.next, draft |-> w.draft]
    /\ w.step \in StoreSteps
    /\ IsSession(w.next) /\ w.next.state \in {"awaiting_answer", "completed"}
    /\ w.draft = Checkpoint(w.next, w.draft.final, w.draft.pending)

Shape(w) == w = Idle \/ Asking(w) \/ Storing(w)

Early == {"none", "preparing"}

\* There are no turns before the session is started.
Stage ==
    /\ IsSession(session)
    /\ session.state \in Early \cup {"awaiting_answer", "completed"}
    /\ session.state \in Early => turns = <<>> /\ session = Session(session.state)
    /\ session.state = "none" => \A c \in Callers : work[c] = Idle

\* A call that is under way holds the lock, unless it is a start.
Commands ==
    /\ lock \in Callers \cup {None}
    /\ \A c \in Callers :
          work[c] = Idle \/ lock = c \/ (Storing(work[c]) /\ work[c].call = "start")

\* A command that answers has its answer in the list, and no reply yet.
Answering(w, rs, ts) ==
    /\ \A r \in rs : r.key # w.key
    /\ Asking(w) => AnswerAt(ts, Len(ts), w.key)
    /\ Storing(w) => /\ AnswerAt(ts, w.draft.pending - 1, w.key)
                     /\ w.draft.pending \in Asked(ts)

InHand ==
    \A c \in Callers :
        Asking(work[c]) \/ (Storing(work[c]) /\ work[c].call = "answer") =>
            Answering(work[c], replies, turns)

\* The checkpoint that says of a session what ResumeTellsTheSession expects.
LastHeard(ts) == IF Heard(ts) = {} THEN None ELSE ts[Latest(Heard(ts))].id

Truth(s, ts) ==
    Checkpoint(s,
               IF s.state = "completed" THEN LastHeard(ts)
               ELSE IF Latest(Asked(ts)) = 0 THEN None ELSE ts[Latest(Asked(ts)) - 1].id,
               IF s.state = "completed" THEN None ELSE Latest(Asked(ts)))

Told == checkpoint = {Truth(session, turns)}

NotAhead ==
    \A old \in checkpoint : old.sequence \in Nat /\ old.sequence <= session.sequence

\* What a call under way will make of the session and the checkpoint.
Coming(w) ==
    /\ Asking(w) => /\ w.next.sequence > session.sequence /\ session.state = "awaiting_answer"
                    /\ Told /\ NotAhead
    /\ Storing(w) =>
          /\ w.draft = Truth(w.next, turns)
          /\ w.step = "store" => w.next.sequence > session.sequence /\ NotAhead
          /\ w.step # "store" => w.next = session
          /\ w.step = "compare" => \A old \in checkpoint : old.sequence < session.sequence

\* As long as no start overlapped another call, one call is under way at a time.
Tells ==
    ~overlapped =>
        /\ \A c, d \in Callers : work[c] # Idle /\ work[d] # Idle => c = d
        /\ \A c \in Callers : work[c] # Idle => Coming(work[c])
        /\ (\A c \in Callers : work[c] = Idle) =>
               NotAhead /\ (session.state \notin Early => Told)

WorkShape == work = [c \in Callers |-> work[c]] /\ \A c \in Callers : Shape(work[c])

ServiceInv == TurnsRight /\ WorkShape /\ Stage /\ Commands /\ InHand /\ Tells

-----------------------------------------------------------------------------
(* Calls, sessions and steps *)

LEMMA IdleIs == ~Asking(Idle) /\ ~Storing(Idle) /\ Idle.step = "idle"
  BY DEF Idle, Asking, Storing, StoreSteps

LEMMA ByStep ==
    ASSUME NEW w, Shape(w)
    PROVE  /\ w.step = "ask" => Asking(w) /\ ~Storing(w) /\ w # Idle
           /\ w.step \in StoreSteps => Storing(w) /\ ~Asking(w) /\ w # Idle
           /\ w = Idle <=> w.step = "idle"
           /\ Asking(w) => w.step = "ask" /\ ~Storing(w)
           /\ Storing(w) => w.step \in StoreSteps /\ ~Asking(w)
  BY DEF Shape, Idle, Asking, Storing, StoreSteps

LEMMA PassedIs ==
    ASSUME NEW s, IsSession(s), NEW target
    PROVE  /\ Passed(s, target) =
                  [state |-> target, sequence |-> s.sequence + 1, degraded |-> s.degraded]
           /\ IsSession(Passed(s, target))
           /\ Passed(s, target).state = target
           /\ Passed(s, target).sequence = s.sequence + 1
  <1> DEFINE p == Passed(s, target)
  <1>1. s = [state |-> s.state, sequence |-> s.sequence, degraded |-> s.degraded]
    BY DEF IsSession
  <1>2. p = [s EXCEPT !.state = target, !.sequence = s.sequence + 1]
    BY DEF Passed
  <1> HIDE DEF p
  <1>3. p.state = target /\ p.sequence = s.sequence + 1 /\ p.degraded = s.degraded
    BY <1>1, <1>2
  <1>4. p = [state |-> p.state, sequence |-> p.sequence, degraded |-> p.degraded]
    BY <1>1, <1>2
  <1>5. s.sequence + 1 \in Nat
    BY DEF IsSession
  <1>6. IsSession(p)
    BY <1>3, <1>4, <1>5 DEF IsSession
  <1>7. p = [state |-> target, sequence |-> s.sequence + 1, degraded |-> s.degraded]
    BY ONLY <1>3, <1>4
  <1> QED
    BY <1>3, <1>6, <1>7 DEF p

LEMMA DegradedIs ==
    ASSUME NEW s, IsSession(s), NEW modes
    PROVE  /\ IsSession(Degraded(s, modes))
           /\ Degraded(s, modes).state = s.state
           /\ Degraded(s, modes).sequence = s.sequence
  BY DEF IsSession, Degraded

LEMMA StepForward ==
    ASSUME NEW w, Storing(w), NEW s \in StoreSteps
    PROVE  LET v == [w EXCEPT !.step = s]
           IN  /\ Storing(v) /\ v.step = s /\ v.call = w.call /\ v.next = w.next
               /\ v.draft = w.draft /\ (w.call = "answer" => v.key = w.key)
  BY DEF Storing

LEMMA StateKept ==
    ASSUME NEW v, WorkShape, NEW c \in Callers, work' = [work EXCEPT ![c] = v], Shape(v)
    PROVE  /\ WorkShape' /\ work'[c] = v
           /\ \A d \in Callers : d # c => work'[d] = work[d]
  <1>1. work' = [d \in Callers |-> IF d = c THEN v ELSE work[d]]
    BY DEF WorkShape
  <1>2. work'[c] = v /\ \A d \in Callers : d # c => work'[d] = work[d]
    BY <1>1
  <1>3. \A d \in Callers : Shape(work'[d])
    BY <1>2 DEF WorkShape
  <1>4. work' = [d \in Callers |-> work'[d]]
    BY <1>1
  <1> QED
    BY <1>2, <1>3, <1>4 DEF WorkShape

-----------------------------------------------------------------------------
(* One more turn *)

LEMMA TurnsAre ==
    ASSUME turns \in Seq(TurnRows), CostsAssumption
    PROVE  /\ Len(turns) \in Nat /\ DOMAIN turns = 1..Len(turns)
           /\ Questions = Asked(turns) /\ Answers = Heard(turns)
           /\ Asked(turns) \in SUBSET Nat /\ Heard(turns) \in SUBSET Nat
           /\ \A i \in Asked(turns) \cup Heard(turns) : i \in 1..Len(turns)
           /\ \A i \in 1..Len(turns) : turns[i].cost \in Nat \ {0}
           /\ Latest(Asked(turns)) \in Asked(turns) \cup {0}
  <1>1. Len(turns) \in Nat /\ DOMAIN turns = 1..Len(turns)
    OBVIOUS
  <1>2. Questions = Asked(turns) /\ Answers = Heard(turns)
    BY DEF Questions, Answers, Asked, Heard
  <1>3. \A i \in Asked(turns) \cup Heard(turns) : i \in 1..Len(turns)
    BY <1>1 DEF Asked, Heard
  <1>4. Asked(turns) \in SUBSET Nat /\ Heard(turns) \in SUBSET Nat
    BY <1>3
  <1>5. ASSUME NEW i \in 1..Len(turns) PROVE turns[i].cost \in Nat \ {0}
    <2>1. turns[i] \in TurnRows
      BY <1>1
    <2>2. CASE turns[i] \in [speaker : {"applicant"}, id : Keys, cost : AnswerCosts]
      BY <2>2 DEF CostsAssumption
    <2>3. CASE turns[i] \in [speaker : {"interviewer"}, text : Texts, shown : SUBSET Nat,
                             cost : {QuestionCost}]
      BY <2>3 DEF QuestionCost
    <2> QED
      BY <2>1, <2>2, <2>3 DEF TurnRows
  <1>6. Latest(Asked(turns)) \in Asked(turns) \cup {0}
    <2>1. \A x \in Asked(turns) : x <= Len(turns)
      BY <1>3
    <2> QED
      BY <1>1, <1>4, <2>1, LatestIs
  <1> QED
    BY <1>1, <1>2, <1>3, <1>4, <1>5, <1>6

LEMMA OneMore ==
    ASSUME turns \in Seq(TurnRows), NEW row \in TurnRows, turns' = Append(turns, row),
           NEW n, n = Len(turns)
    PROVE  /\ n \in Nat /\ turns' \in Seq(TurnRows)
           /\ Len(turns') = n + 1 /\ turns'[n + 1] = row
           /\ \A i \in 1..n : turns'[i] = turns[i]
           /\ row.speaker = "interviewer" => /\ Asked(turns') = Asked(turns) \cup {n + 1}
                                             /\ Heard(turns') = Heard(turns)
           /\ row.speaker # "interviewer" => /\ Asked(turns') = Asked(turns)
                                             /\ Heard(turns') = Heard(turns) \cup {n + 1}
  <1>1. n \in Nat /\ turns' \in Seq(TurnRows) /\ Len(turns') = n + 1
    OBVIOUS
  <1>2. turns'[n + 1] = row /\ \A i \in 1..n : turns'[i] = turns[i]
    OBVIOUS
  <1>3. DOMAIN turns = 1..n /\ DOMAIN turns' = 1..(n + 1)
    BY <1>1
  <1>4. 1..(n + 1) = 1..n \cup {n + 1} /\ n + 1 \notin 1..n
    BY <1>1
  <1>5. row.speaker = "interviewer" => Asked(turns') = Asked(turns) \cup {n + 1}
    BY <1>2, <1>3, <1>4 DEF Asked
  <1>6. row.speaker # "interviewer" => Asked(turns') = Asked(turns)
    BY <1>2, <1>3, <1>4 DEF Asked
  <1>7. n + 1 \notin Asked(turns)
    BY <1>3, <1>4 DEF Asked
  <1> QED
    BY <1>1, <1>2, <1>3, <1>4, <1>5, <1>6, <1>7 DEF Heard

\* What the list says of older turns stays, and a question that fits keeps the list right.
LEMMA TurnKeeps ==
    ASSUME TurnsRight, CostsAssumption, NEW row \in TurnRows, turns' = Append(turns, row),
           row.speaker = "interviewer" =>
               /\ Len(turns) \in Heard(turns)
               /\ Fitting(turns, row.shown, Len(turns) + 1)
               /\ \A q \in Asked(turns) : turns[q].text # row.text
    PROVE  turns' \in Seq(TurnRows) /\ QuestionsRight(turns') /\ RepliesRight(replies, turns')
  <1> DEFINE n == Len(turns)
  <1>1. turns \in Seq(TurnRows) /\ QuestionsRight(turns) /\ RepliesRight(replies, turns)
    BY DEF TurnsRight
  <1>2. /\ n \in Nat /\ turns' \in Seq(TurnRows)
        /\ Len(turns') = n + 1 /\ turns'[n + 1] = row
        /\ \A i \in 1..n : turns'[i] = turns[i]
        /\ row.speaker = "interviewer" => /\ Asked(turns') = Asked(turns) \cup {n + 1}
                                          /\ Heard(turns') = Heard(turns)
        /\ row.speaker # "interviewer" => /\ Asked(turns') = Asked(turns)
                                          /\ Heard(turns') = Heard(turns) \cup {n + 1}
    BY <1>1, OneMore
  <1>3. \A i \in Asked(turns) \cup Heard(turns) : i \in 1..n
    BY <1>1, TurnsAre
  <1>4. ASSUME NEW shown, NEW place \in 1..(n + 1), Fitting(turns, shown, place)
        PROVE  Fitting(turns', shown, place)
    <2>1. \A i \in 1..(place - 1) : turns'[i].cost = turns[i].cost
      BY <1>2
    <2> QED
      BY <1>4, <2>1, FittingStays
  <1>5. Asked(turns) \subseteq Asked(turns') /\ Heard(turns) \subseteq Heard(turns')
    BY <1>2
  <1> HIDE DEF n
  <1>6. ASSUME NEW q \in Asked(turns)
        PROVE  q - 1 \in Heard(turns') /\ Fitting(turns', turns'[q].shown, q)
    <2>1. q - 1 \in Heard(turns) /\ Fitting(turns, turns[q].shown, q) /\ q \in 1..n
      BY <1>1, <1>3 DEF QuestionsRight
    <2>2. q \in 1..(n + 1) /\ turns'[q] = turns[q]
      BY <1>2, <2>1
    <2> QED
      BY <1>4, <1>5, <2>1, <2>2
  <1>7. QuestionsRight(turns')
    <2>1. ASSUME NEW q \in Asked(turns')
          PROVE  q - 1 \in Heard(turns') /\ Fitting(turns', turns'[q].shown, q)
      <3>1. CASE q \in Asked(turns)
        BY <1>6, <3>1
      <3>2. CASE row.speaker = "interviewer" /\ q = n + 1
        <4>1. q - 1 = n /\ q \in 1..(n + 1) /\ turns'[q] = row
          BY <1>2, <3>2
        <4>2. n \in Heard(turns) /\ Fitting(turns, row.shown, n + 1)
          BY <3>2 DEF n
        <4> QED
          BY <1>4, <1>5, <3>2, <4>1, <4>2
      <3> QED
        BY <1>2, <3>1, <3>2
    <2>2. ASSUME NEW p \in Asked(turns'), NEW q \in Asked(turns'),
                 turns'[p].text = turns'[q].text
          PROVE  p = q
      <3>1. \A i \in Asked(turns) : turns'[i] = turns[i]
        BY <1>2, <1>3
      <3>2. CASE p \in Asked(turns) /\ q \in Asked(turns)
        BY <1>1, <2>2, <3>1, <3>2 DEF QuestionsRight
      <3>3. CASE row.speaker # "interviewer"
        BY <1>2, <3>2, <3>3
      <3>4. CASE row.speaker = "interviewer"
        <4>1. \A i \in Asked(turns) : turns'[i].text # turns'[n + 1].text
          BY <1>2, <3>1, <3>4
        <4>2. p \in Asked(turns) \/ p = n + 1
          BY <1>2, <3>4
        <4>3. q \in Asked(turns) \/ q = n + 1
          BY <1>2, <3>4
        <4> QED
          BY <2>2, <3>2, <4>1, <4>2, <4>3
      <3> QED
        BY <3>3, <3>4
    <2> QED
      BY <2>1, <2>2 DEF QuestionsRight
  <1>8. RepliesRight(replies, turns')
    <2>1. ASSUME NEW r \in replies
          PROVE  AnswerAt(turns', r.place, r.key) /\ r.place + 1 \in Asked(turns')
      <3>1. AnswerAt(turns, r.place, r.key) /\ r.place + 1 \in Asked(turns)
        BY <1>1 DEF RepliesRight
      <3>2. r.place \in Heard(turns) /\ turns[r.place].id = r.key
        BY <3>1 DEF AnswerAt
      <3>3. turns'[r.place] = turns[r.place]
        BY <1>2, <1>3, <3>2
      <3> QED
        BY <1>5, <3>1, <3>2, <3>3 DEF AnswerAt
    <2> QED
      BY <1>1, <2>1 DEF RepliesRight
  <1> QED
    BY <1>2, <1>7, <1>8

\* Until a session is completed, an answer changes nothing that its checkpoint says.
LEMMA TruthStays ==
    ASSUME TurnsRight, CostsAssumption, NEW row \in TurnRows, turns' = Append(turns, row),
           row.speaker # "interviewer", NEW s, s.state # "completed"
    PROVE  Truth(s, turns') = Truth(s, turns)
  <1> DEFINE q == Latest(Asked(turns))
  <1>1. turns \in Seq(TurnRows) /\ QuestionsRight(turns)
    BY DEF TurnsRight
  <1>2. Asked(turns') = Asked(turns) /\ \A i \in 1..Len(turns) : turns'[i] = turns[i]
    BY <1>1, OneMore
  <1>3. q = 0 \/ turns'[q - 1] = turns[q - 1]
    <2>1. q \in Asked(turns) \cup {0}
      BY <1>1, TurnsAre
    <2> HIDE DEF q
    <2>2. CASE q \in Asked(turns)
      <3>1. q - 1 \in Heard(turns)
        BY <1>1, <2>2 DEF QuestionsRight
      <3>2. q - 1 \in 1..Len(turns)
        BY <1>1, <3>1, TurnsAre
      <3> QED
        BY <1>2, <3>2
    <2> QED
      BY <2>1, <2>2
  <1> QED
    BY <1>2, <1>3 DEF Truth

\* After the next question, the checkpoint names it and the answer before it.
LEMMA TruthAsked ==
    ASSUME turns \in Seq(TurnRows), CostsAssumption, NEW row \in TurnRows,
           turns' = Append(turns, row),
           row.speaker = "interviewer", NEW key, AnswerAt(turns, Len(turns), key),
           NEW s, s.state # "completed"
    PROVE  Truth(s, turns') = Checkpoint(s, key, Len(turns) + 1)
  <1> DEFINE n == Len(turns)
  <1>1. /\ n \in Nat /\ Asked(turns') = Asked(turns) \cup {n + 1}
        /\ \A i \in 1..n : turns'[i] = turns[i]
    BY OneMore
  <1>2. n \in 1..n /\ turns[n].id = key
    BY TurnsAre DEF AnswerAt
  <1>3. Asked(turns) \in SUBSET Nat /\ \A i \in Asked(turns) : i \in 1..n
    BY TurnsAre
  <1> DEFINE S == Asked(turns')
  <1> HIDE DEF n
  <1>4. Latest(S) = n + 1
    <2>1. S \in SUBSET Nat /\ n + 1 \in S /\ n + 1 \in Nat /\ \A x \in S : x <= n + 1
      BY <1>1, <1>3
    <2> HIDE DEF S
    <2>2. /\ Latest(S) \in S \cup {0} /\ Latest(S) \in Nat /\ n + 1 <= Latest(S)
      BY <2>1, LatestIs
    <2>3. Latest(S) <= n + 1
      BY <2>1, <2>2
    <2> QED
      BY <2>1, <2>2, <2>3
  <1>5. n + 1 # 0 /\ (n + 1) - 1 = n
    BY <1>1
  <1>6. turns'[n].id = key
    BY <1>1, <1>2
  <1> QED
    BY <1>4, <1>5, <1>6 DEF Truth, S, n

-----------------------------------------------------------------------------
(* One call at a time *)

\* Only one command is under way, and its caller holds the lock.
LEMMA OneCommand ==
    ASSUME Commands, WorkShape, NEW c \in Callers, NEW d \in Callers, d # c,
           Asking(work[c]) \/ (Storing(work[c]) /\ work[c].call # "start")
    PROVE  /\ lock = c
           /\ ~Asking(work[d])
           /\ Storing(work[d]) => work[d].call = "start"
  <1>1. work[c] # Idle
    BY IdleIs
  <1>2. lock = c
    <2>1. Shape(work[c])
      BY DEF WorkShape
    <2> QED
      BY <1>1, <2>1, ByStep DEF Commands
  <1>3. Shape(work[d])
    BY DEF WorkShape
  <1>4. work[d] = Idle \/ (Storing(work[d]) /\ work[d].call = "start")
    BY <1>2 DEF Commands
  <1> QED
    BY <1>2, <1>3, <1>4, ByStep, IdleIs

LEMMA Began ==
    ASSUME Begins, ~overlapped'
    PROVE  ~overlapped /\ \A d \in Callers : work[d] = Idle
  <1>1. overlapped' = (overlapped \/ Underway # {})
    BY DEF Begins
  <1>2. ~(overlapped \/ Underway # {})
    BY <1>1
  <1> QED
    BY <1>2 DEF Underway

LEMMA AloneIs ==
    ASSUME Tells, ~overlapped, NEW c \in Callers, work[c] # Idle
    PROVE  Coming(work[c]) /\ \A d \in Callers : d # c => work[d] = Idle
  BY DEF Tells

LEMMA TellsOfOne ==
    ASSUME NEW c \in Callers, work'[c] # Idle, \A d \in Callers : d # c => work'[d] = Idle,
           Coming(work[c])'
    PROVE  Tells'
  BY DEF Tells

LEMMA TellsOfNone ==
    ASSUME \A d \in Callers : work'[d] = Idle, NotAhead', session'.state \notin Early => Told'
    PROVE  Tells'
  BY DEF Tells

LEMMA InvMeans ==
    ASSUME ServiceInv
    PROVE  /\ turns \in Seq(TurnRows) /\ QuestionsRight(turns) /\ RepliesRight(replies, turns)
           /\ IsSession(session) /\ session.sequence \in Nat
           /\ \A c \in Callers : Shape(work[c])
  BY DEF ServiceInv, TurnsRight, Stage, IsSession, WorkShape

\* A call that begins changes nothing but what its thread holds, and maybe the lock.
LEMMA BeginKeeps ==
    ASSUME ServiceInv, NEW c \in Callers, NEW v, v # Idle, Shape(v),
           work[c] = Idle, work' = [work EXCEPT ![c] = v],
           session.state # "none",
           UNCHANGED <<session, turns, checkpoint, replies>>,
           \/ lock' = c /\ lock = None
           \/ lock' = lock /\ Storing(v) /\ v.call = "start",
           ~Asking(v), Storing(v) => v.call # "answer"
    PROVE  TurnsRight' /\ WorkShape' /\ Stage' /\ Commands' /\ InHand'
  <1>1. /\ WorkShape' /\ work'[c] = v
        /\ \A d \in Callers : d # c => work'[d] = work[d]
    BY StateKept DEF ServiceInv
  <1>2. TurnsRight'
    BY DEF ServiceInv, TurnsRight
  <1>3. Stage'
    BY DEF ServiceInv, Stage
  <1>4. Commands'
    BY <1>1, NamesAssumption DEF ServiceInv, Commands, NamesAssumption
  <1>5. InHand'
    BY <1>1 DEF ServiceInv, InHand, Answering
  <1> QED
    BY <1>1, <1>2, <1>3, <1>4, <1>5

-----------------------------------------------------------------------------
(* The actions *)

LEMMA CreateKeeps == ServiceInv /\ CreateSession => ServiceInv'
  <1> SUFFICES ASSUME ServiceInv, CreateSession PROVE ServiceInv'
    OBVIOUS
  <1>1. /\ session.state = "none" /\ lock = None /\ session' = Session("preparing")
        /\ UNCHANGED <<turns, checkpoint, replies, lock, work, overlapped>>
    BY DEF CreateSession
  <1>2. turns = <<>> /\ session = Session("none") /\ \A c \in Callers : work[c] = Idle
    BY <1>1 DEF ServiceInv, Stage, Early
  <1>3. TurnsRight'
    BY <1>1 DEF ServiceInv, TurnsRight
  <1>4. WorkShape'
    BY <1>1 DEF ServiceInv, WorkShape
  <1>5. Stage'
    BY <1>1, <1>2 DEF Stage, Session, IsSession, Early
  <1>6. Commands'
    BY <1>1 DEF ServiceInv, Commands
  <1>7. InHand'
    BY <1>1, <1>2, IdleIs DEF InHand
  <1>8. Tells'
    <2>1. CASE overlapped
      BY <1>1, <2>1 DEF Tells
    <2>2. CASE ~overlapped
      <3>1. NotAhead
        BY <1>2, <2>2 DEF ServiceInv, Tells
      <3>2. session.sequence = 0 /\ session'.sequence = 0 /\ session'.state = "preparing"
        BY <1>1, <1>2 DEF Session
      <3>3. NotAhead'
        BY <1>1, <3>1, <3>2 DEF NotAhead
      <3>4. session'.state \in Early
        BY <3>2 DEF Early
      <3> QED
        BY <1>1, <1>2, <3>3, <3>4, TellsOfNone
    <2> QED
      BY <2>1, <2>2
  <1> QED
    BY <1>3, <1>4, <1>5, <1>6, <1>7, <1>8 DEF ServiceInv

\* What start and complete_session do to the session, two transitions at once.
LEMMA TwoOn ==
    ASSUME NEW s, IsSession(s), NEW first, NEW second,
           NEW next, next = Passed(Passed(s, first), second)
    PROVE  /\ IsSession(next) /\ next.state = second
           /\ next.sequence > s.sequence /\ next.degraded = s.degraded
  <1> DEFINE p == Passed(s, first)
  <1>1. IsSession(p) /\ p.sequence = s.sequence + 1 /\ s.sequence \in Nat
    BY PassedIs DEF IsSession
  <1>2. p.degraded = s.degraded
    <2>1. p = [state |-> first, sequence |-> s.sequence + 1, degraded |-> s.degraded]
      BY PassedIs
    <2> QED
      BY <2>1
  <1> HIDE DEF p
  <1>3. /\ next = [state |-> second, sequence |-> p.sequence + 1, degraded |-> p.degraded]
        /\ IsSession(next) /\ next.sequence = p.sequence + 1
    BY <1>1, PassedIs DEF p
  <1> QED
    BY <1>1, <1>2, <1>3

LEMMA NoTurns ==
    ASSUME NEW ts, ts = <<>>, NEW s, s.state # "completed"
    PROVE  Truth(s, ts) = Checkpoint(s, None, None)
  <1>1. Asked(ts) = {}
    BY DEF Asked
  <1> DEFINE S == Asked(ts)
  <1>2. Latest(S) = 0
    <2>1. S \in SUBSET Nat /\ \A x \in S : x <= 0
      BY <1>1
    <2> HIDE DEF S
    <2> QED
      BY <1>1, <2>1, LatestIs DEF S
  <1> QED
    BY <1>2 DEF Truth, None

LEMMA StartKeeps == \A c \in Callers : ServiceInv /\ Start(c) => ServiceInv'
  <1> SUFFICES ASSUME NEW c \in Callers, ServiceInv, Start(c) PROVE ServiceInv'
    OBVIOUS
  <1> DEFINE next == Passed(Passed(session, "in_progress"), "awaiting_answer")
             draft == [Checkpoint(next, None, None) EXCEPT !.degraded = {}]
             v == [step |-> "store", call |-> "start", next |-> next, draft |-> draft]
  <1>1. /\ work[c] = Idle /\ MayPass(session.state, "in_progress")
        /\ work' = [work EXCEPT ![c] = v] /\ Begins
        /\ UNCHANGED <<session, turns, checkpoint, replies, lock>>
    BY DEF Start
  <1>2. session.state = "preparing"
    BY <1>1 DEF ServiceInv, Stage, Early, MayPass, States, Transitions
  <1>3. turns = <<>> /\ session = Session("preparing") /\ session.degraded = {}
    <2>1. turns = <<>> /\ session = Session("preparing")
      BY <1>2 DEF ServiceInv, Stage, Early
    <2> QED
      BY <2>1 DEF Session
  <1>4. /\ IsSession(next) /\ next.state = "awaiting_answer"
        /\ next.sequence > session.sequence /\ next.degraded = {}
    BY <1>3, InvMeans, TwoOn
  <1> HIDE DEF next
  <1>5. draft = Checkpoint(next, None, None)
    BY <1>4 DEF Checkpoint
  <1> HIDE DEF draft
  <1>6. /\ Storing(v) /\ v # Idle /\ ~Asking(v) /\ v.call = "start" /\ v.step = "store"
        /\ v.next = next /\ v.draft = draft
    BY <1>4, <1>5 DEF Storing, StoreSteps, Idle, Asking, Checkpoint
  <1> HIDE DEF v
  <1>7. Shape(v)
    BY <1>6 DEF Shape
  <1>8. TurnsRight' /\ WorkShape' /\ Stage' /\ Commands' /\ InHand'
    BY <1>1, <1>2, <1>6, <1>7, BeginKeeps
  <1>9. Tells'
    <2>1. CASE overlapped'
      BY <2>1 DEF Tells
    <2>2. CASE ~overlapped'
      <3>1. ~overlapped /\ \A d \in Callers : work[d] = Idle
        BY <1>1, <2>2, Began
      <3>2. NotAhead
        BY <3>1 DEF ServiceInv, Tells
      <3>3. work'[c] = v /\ \A d \in Callers : d # c => work'[d] = Idle
        BY <1>1, <1>7, <3>1, StateKept DEF ServiceInv
      <3>4. Truth(next, turns) = draft
        BY <1>3, <1>4, <1>5, NoTurns
      <3>5. Coming(work[c])'
        BY <1>1, <1>4, <1>6, <3>2, <3>3, <3>4 DEF Coming, NotAhead
      <3> QED
        BY <1>6, <3>3, <3>5, TellsOfOne
    <2> QED
      BY <2>1, <2>2
  <1> QED
    BY <1>8, <1>9 DEF ServiceInv

LEMMA CompleteKeeps == \A c \in Callers : ServiceInv /\ CompleteSession(c) => ServiceInv'
  <1> SUFFICES ASSUME NEW c \in Callers, ServiceInv, CompleteSession(c) PROVE ServiceInv'
    OBVIOUS
  <1> DEFINE next == Passed(Passed(session, "paused"), "completed")
             draft == Checkpoint(next, LastAnswerId, None)
             v == [step |-> "store", call |-> "complete", next |-> next, draft |-> draft]
  <1>1. /\ work[c] = Idle /\ lock = None /\ MayPass(session.state, "paused")
        /\ work' = [work EXCEPT ![c] = v] /\ lock' = c /\ Begins
        /\ UNCHANGED <<session, turns, checkpoint, replies>>
    BY DEF CompleteSession, Unlocked
  <1>2. session.state # "none"
    BY <1>1 DEF MayPass, States, Transitions
  <1>3. IsSession(next) /\ next.state = "completed" /\ next.sequence > session.sequence
    BY InvMeans, TwoOn
  <1> HIDE DEF next
  <1>4. draft = Truth(next, turns)
    <2>1. Answers = Heard(turns)
      BY InvMeans DEF Answers, Questions, Heard, Asked
    <2>2. LastAnswerId = LastHeard(turns)
      BY <2>1 DEF LastAnswerId, LastHeard
    <2> QED
      BY <1>3, <2>2 DEF Truth
  <1>5. draft = Checkpoint(next, draft.final, draft.pending)
    BY DEF Checkpoint
  <1> HIDE DEF draft
  <1>6. /\ Storing(v) /\ v # Idle /\ ~Asking(v) /\ v.call = "complete" /\ v.step = "store"
        /\ v.next = next /\ v.draft = draft
    BY <1>3, <1>5 DEF Storing, StoreSteps, Idle, Asking
  <1> HIDE DEF v
  <1>7. Shape(v)
    BY <1>6 DEF Shape
  <1>8. TurnsRight' /\ WorkShape' /\ Stage' /\ Commands' /\ InHand'
    BY <1>1, <1>2, <1>6, <1>7, BeginKeeps
  <1>9. Tells'
    <2>1. CASE overlapped'
      BY <2>1 DEF Tells
    <2>2. CASE ~overlapped'
      <3>1. ~overlapped /\ \A d \in Callers : work[d] = Idle
        BY <1>1, <2>2, Began
      <3>2. NotAhead
        BY <3>1 DEF ServiceInv, Tells
      <3>3. work'[c] = v /\ \A d \in Callers : d # c => work'[d] = Idle
        BY <1>1, <1>7, <3>1, StateKept DEF ServiceInv
      <3>4. Coming(work[c])'
        BY <1>1, <1>3, <1>4, <1>6, <3>2, <3>3 DEF Coming, NotAhead
      <3> QED
        BY <1>6, <3>3, <3>4, TellsOfOne
    <2> QED
      BY <2>1, <2>2
  <1> QED
    BY <1>8, <1>9 DEF ServiceInv

LEMMA FinalizeKeeps ==
    CostsAssumption => \A c \in Callers : ServiceInv /\ FinalizeAnswer(c) => ServiceInv'
  <1> SUFFICES ASSUME CostsAssumption, NEW c \in Callers, ServiceInv, FinalizeAnswer(c)
               PROVE  ServiceInv'
    OBVIOUS
  <1> DEFINE next == Passed(session, "preparing_question")
             n == Len(turns)
  <1>1. /\ work[c] = Idle /\ lock = None /\ session.state = "awaiting_answer"
        /\ lock' = c /\ Begins /\ UNCHANGED <<session, checkpoint, replies>>
    BY DEF FinalizeAnswer, Unlocked
  <1>2. PICK key \in Keys \ {r.key : r \in replies}, cost \in AnswerCosts, criterion \in Criteria :
            /\ turns' = Append(turns, Answer(key, cost))
            /\ work' = [work EXCEPT ![c] =
                   [step |-> "ask", key |-> key, criterion |-> criterion, next |-> next]]
    BY DEF FinalizeAnswer
  <1> DEFINE row == Answer(key, cost)
             v == [step |-> "ask", key |-> key, criterion |-> criterion, next |-> next]
  <1>3. row \in TurnRows /\ row.speaker # "interviewer" /\ row.id = key
    BY DEF Answer, TurnRows
  <1>4. turns' = Append(turns, row) /\ work' = [work EXCEPT ![c] = v]
    BY <1>2
  <1> HIDE DEF row
  <1>5. IsSession(next) /\ next.sequence > session.sequence
    <2>1. IsSession(next) /\ next.sequence = session.sequence + 1 /\ session.sequence \in Nat
      BY InvMeans, PassedIs
    <2> HIDE DEF next
    <2> QED
      BY <2>1
  <1> HIDE DEF next
  <1>6. Asking(v) /\ v # Idle /\ ~Storing(v) /\ v.key = key /\ v.next = next
    BY <1>5 DEF Asking, Storing, StoreSteps, Idle
  <1> HIDE DEF v
  <1>7. TurnsRight'
    <2>1. turns' \in Seq(TurnRows) /\ QuestionsRight(turns') /\ RepliesRight(replies, turns')
      BY <1>3, <1>4, TurnKeeps DEF ServiceInv
    <2> QED
      BY <1>1, <2>1 DEF TurnsRight
  <1>8. /\ n \in Nat /\ Len(turns') = n + 1 /\ turns'[n + 1] = row
        /\ Heard(turns') = Heard(turns) \cup {n + 1}
    BY <1>3, <1>4, InvMeans, OneMore
  <1>9. /\ WorkShape' /\ work'[c] = v
        /\ \A d \in Callers : d # c => work'[d] = work[d]
    <2>1. WorkShape
      BY DEF ServiceInv
    <2>2. Shape(v)
      BY <1>6 DEF Shape
    <2> QED
      BY ONLY <1>4, <2>1, <2>2, c \in Callers, StateKept
  <1>10. Stage'
    <2>1. session.state \notin Early /\ session.state # "none"
      BY <1>1 DEF Early
    <2> QED
      BY <1>1, <2>1 DEF ServiceInv, Stage
  <1>11. \A d \in Callers :
            d # c => ~Asking(work[d]) /\ (Storing(work[d]) => work[d].call = "start")
    <2> SUFFICES ASSUME NEW d \in Callers, d # c
                 PROVE  ~Asking(work[d]) /\ (Storing(work[d]) => work[d].call = "start")
      OBVIOUS
    <2>1. lock # d
      BY <1>1, NamesAssumption DEF NamesAssumption
    <2>2. work[d] = Idle \/ (Storing(work[d]) /\ work[d].call = "start")
      BY <2>1 DEF ServiceInv, Commands
    <2> QED
      BY <2>2, InvMeans, ByStep, IdleIs
  <1>12. Commands'
    BY <1>1, <1>9, NamesAssumption DEF ServiceInv, Commands, NamesAssumption
  <1>13. Answering(v, replies', turns')
    <2>1. \A r \in replies : r.key # key
      BY <1>2
    <2>2. AnswerAt(turns', Len(turns'), key)
      BY <1>3, <1>8 DEF AnswerAt
    <2> QED
      BY <1>1, <1>6, <2>1, <2>2 DEF Answering
  <1>14. InHand'
    <2> SUFFICES ASSUME NEW d \in Callers,
                        Asking(work'[d]) \/ (Storing(work'[d]) /\ work'[d].call = "answer")
                 PROVE  Answering(work'[d], replies', turns')
      BY DEF InHand
    <2>1. d = c
      BY <1>9, <1>11
    <2> QED
      BY <1>9, <1>13, <2>1
  <1>15. Tells'
    <2>1. CASE overlapped'
      BY <2>1 DEF Tells
    <2>2. CASE ~overlapped'
      <3>1. ~overlapped /\ \A d \in Callers : work[d] = Idle
        BY <1>1, <2>2, Began
      <3>2. NotAhead /\ Told
        BY <1>1, <3>1 DEF ServiceInv, Tells, Early
      <3>3. \A d \in Callers : d # c => work'[d] = Idle
        BY <1>9, <3>1
      <3>4. Truth(session, turns') = Truth(session, turns)
        BY <1>1, <1>3, <1>4, TruthStays DEF ServiceInv
      <3>5. Told' /\ NotAhead'
        BY <1>1, <3>2, <3>4 DEF Told, NotAhead
      <3>6. Coming(work[c])'
        BY <1>1, <1>5, <1>6, <1>9, <3>5 DEF Coming
      <3> QED
        BY <1>6, <1>9, <3>3, <3>6, TellsOfOne
    <2> QED
      BY <2>1, <2>2
  <1> QED
    BY <1>7, <1>9, <1>10, <1>12, <1>14, <1>15 DEF ServiceInv

LEMMA TextsAre ==
    ASSUME NEW criterion \in Criteria, NEW search, NEW model \in ModelReplies
    PROVE  Generated(criterion, search, model).text \in Texts
  BY DEF Generated, Texts

LEMMA AskKeeps ==
    CostsAssumption => \A c \in Callers : ServiceInv /\ AskQuestion(c) => ServiceInv'
  <1> SUFFICES ASSUME CostsAssumption, NEW c \in Callers, ServiceInv, AskQuestion(c)
               PROVE  ServiceInv'
    OBVIOUS
  <1> DEFINE w == work[c]
             n == Len(turns)
  <1>1. /\ w.step = "ask" /\ FixedCost <= MaxTokens
        /\ UNCHANGED <<session, checkpoint, replies, lock, overlapped>>
    BY DEF AskQuestion
  <1>2. PICK search \in {"sources", "nothing"}, model \in ModelReplies, spoken \in BOOLEAN :
            LET generated == Generated(w.criterion, search, model)
                next == Degraded(Passed(w.next, "awaiting_answer"),
                                 {generated.mode, SpeechMode(spoken)})
            IN  /\ Allowed(generated.text)
                /\ turns' = Append(turns, Question(generated.text, Included))
                /\ work' = [work EXCEPT ![c] =
                       [step |-> "store", call |-> "answer", key |-> w.key, next |-> next,
                        draft |-> Checkpoint(next, w.key, n + 1)]]
    BY DEF AskQuestion
  <1> DEFINE generated == Generated(w.criterion, search, model)
             text == generated.text
             modes == {generated.mode, SpeechMode(spoken)}
             passed == Passed(w.next, "awaiting_answer")
             next == Degraded(passed, modes)
             row == Question(text, Included)
             draft == Checkpoint(next, w.key, n + 1)
             v == [step |-> "store", call |-> "answer", key |-> w.key, next |-> next,
                   draft |-> draft]
  <1>3. Asking(w) /\ ~Storing(w) /\ w # Idle
    BY <1>1, InvMeans, ByStep
  <1>4. /\ Allowed(text) /\ turns' = Append(turns, row)
        /\ work' = [work EXCEPT ![c] = v]
    BY <1>2
  <1>5. w.criterion \in Criteria /\ w.key \in Keys /\ IsSession(w.next)
    BY <1>3 DEF Asking
  <1>6. text \in Texts
    BY <1>5, TextsAre
  <1> HIDE DEF text, modes
  <1>7. Included \subseteq 1..n /\ n \in Nat /\ Included \in SUBSET Nat
    <2>1. Included \subseteq 1..n
      BY DEF Included
    <2>2. n \in Nat
      BY InvMeans, TurnsAre
    <2> HIDE DEF n
    <2>3. 1..n \subseteq Nat
      BY <2>2
    <2> QED
      BY <2>1, <2>2, <2>3
  <1>8. /\ row \in TurnRows /\ row.speaker = "interviewer"
        /\ row.text = text /\ row.shown = Included
    BY <1>6, <1>7 DEF Question, TurnRows
  <1> HIDE DEF row
  <1>9. /\ IsSession(next) /\ next.state = "awaiting_answer"
        /\ next.sequence = w.next.sequence + 1 /\ w.next.sequence \in Nat
    <2>1. /\ IsSession(passed) /\ passed.state = "awaiting_answer"
          /\ passed.sequence = w.next.sequence + 1
      BY <1>5, PassedIs
    <2> HIDE DEF passed
    <2>2. IsSession(next) /\ next.state = passed.state /\ next.sequence = passed.sequence
      BY <2>1, DegradedIs
    <2> HIDE DEF next
    <2> QED
      BY <1>5, <2>1, <2>2 DEF IsSession
  <1> HIDE DEF next
  <1>10. draft = Checkpoint(next, draft.final, draft.pending) /\ draft.pending = n + 1
    BY DEF Checkpoint
  <1> HIDE DEF draft
  <1>11. /\ Storing(v) /\ v # Idle /\ ~Asking(v) /\ v.call = "answer" /\ v.step = "store"
         /\ v.next = next /\ v.draft = draft /\ v.key = w.key
    BY <1>5, <1>9, <1>10 DEF Storing, StoreSteps, Idle, Asking
  <1> HIDE DEF v
  <1>12. /\ Answering(w, replies, turns) /\ AnswerAt(turns, n, w.key) /\ n \in Heard(turns)
    <2>1. Answering(w, replies, turns)
      BY <1>3 DEF ServiceInv, InHand
    <2> QED
      BY <1>3, <2>1 DEF Answering, AnswerAt
  <1>13. TurnsRight'
    <2>1. Fitting(turns, Included, n + 1)
      BY <1>1, <1>7, InvMeans, TurnsAre, PromptFits
    <2>2. \A q \in Asked(turns) : turns[q].text # text
      BY <1>4, InvMeans, TurnsAre DEF Allowed
    <2>3. turns' \in Seq(TurnRows) /\ QuestionsRight(turns') /\ RepliesRight(replies, turns')
      BY <1>4, <1>8, <1>12, <2>1, <2>2, TurnKeeps DEF ServiceInv
    <2> QED
      BY <1>1, <2>3 DEF TurnsRight
  <1>14. /\ Len(turns') = n + 1 /\ Asked(turns') = Asked(turns) \cup {n + 1}
         /\ Heard(turns') = Heard(turns)
         /\ \A i \in 1..n : turns'[i] = turns[i]
    BY <1>4, <1>8, InvMeans, OneMore
  <1>15. /\ WorkShape' /\ work'[c] = v
         /\ \A d \in Callers : d # c => work'[d] = work[d]
    <2>1. WorkShape
      BY DEF ServiceInv
    <2>2. Shape(v)
      BY <1>11 DEF Shape
    <2> QED
      BY ONLY <1>4, <2>1, <2>2, c \in Callers, StateKept
  <1>16. Stage'
    <2>1. turns # <<>>
      BY <1>12 DEF Heard
    <2>2. session.state \notin Early /\ session.state # "none"
      BY <2>1 DEF ServiceInv, Stage, Early
    <2> QED
      BY <1>1, <2>2 DEF ServiceInv, Stage
  <1>17. \A d \in Callers : d # c =>
            lock = c /\ ~Asking(work[d]) /\ (Storing(work[d]) => work[d].call = "start")
    BY <1>3, OneCommand DEF ServiceInv
  <1>18. Commands'
    <2>1. lock = c
      BY <1>3 DEF ServiceInv, Commands
    <2> QED
      BY <1>1, <1>15, <2>1 DEF ServiceInv, Commands
  <1>19. Answering(v, replies', turns')
    <2>1. n + 1 - 1 = n
      BY <1>7
    <2>2. \A r \in replies : r.key # w.key
      BY <1>12 DEF Answering
    <2>3. turns'[n] = turns[n]
      <3>1. n \in 1..n
        BY <1>12, InvMeans, TurnsAre
      <3> QED
        BY <1>14, <3>1
    <2>4. AnswerAt(turns', v.draft.pending - 1, w.key)
      BY <1>10, <1>11, <1>12, <1>14, <2>1, <2>3 DEF AnswerAt
    <2>5. v.draft.pending \in Asked(turns')
      BY <1>10, <1>11, <1>14
    <2> QED
      BY <1>1, <1>11, <2>2, <2>4, <2>5 DEF Answering
  <1>20. InHand'
    <2> SUFFICES ASSUME NEW d \in Callers,
                        Asking(work'[d]) \/ (Storing(work'[d]) /\ work'[d].call = "answer")
                 PROVE  Answering(work'[d], replies', turns')
      BY DEF InHand
    <2>1. d = c
      BY <1>15, <1>17
    <2> QED
      BY <1>15, <1>19, <2>1
  <1>21. Tells'
    <2>1. CASE overlapped
      BY <1>1, <2>1 DEF Tells
    <2>2. CASE ~overlapped
      <3>1. Coming(w) /\ \A d \in Callers : d # c => work[d] = Idle
        BY <1>3, <2>2, AloneIs DEF ServiceInv
      <3>2. w.next.sequence > session.sequence /\ NotAhead /\ session.sequence \in Nat
        BY <1>3, <3>1, InvMeans DEF Coming
      <3>3. next.sequence > session.sequence
        BY <1>9, <3>2
      <3>4. Truth(next, turns') = draft
        BY <1>4, <1>8, <1>9, <1>12, InvMeans, TruthAsked DEF draft
      <3>5. Coming(work[c])'
        BY <1>1, <1>11, <1>15, <3>2, <3>3, <3>4 DEF Coming, NotAhead
      <3>6. \A d \in Callers : d # c => work'[d] = Idle
        BY <1>15, <3>1
      <3> QED
        BY <1>11, <1>15, <3>5, <3>6, TellsOfOne
    <2> QED
      BY <2>1, <2>2
  <1> QED
    BY <1>13, <1>15, <1>16, <1>18, <1>20, <1>21 DEF ServiceInv

\* A reply that is remembered is of the command's own answer, and of the next question.
LEMMA RememberKeeps ==
    ASSUME ServiceInv, NEW c \in Callers, Storing(work[c])
    PROVE  RepliesRight(Remembered(c), turns)
  <1> DEFINE w == work[c]
             place == w.draft.pending - 1
             new == [key |-> w.key, place |-> place]
  <1>1. RepliesRight(replies, turns)
    BY InvMeans
  <1>2. CASE w.call # "answer"
    <2>1. Remembered(c) = replies
      BY <1>2 DEF Remembered
    <2> QED
      BY <1>1, <2>1
  <1>3. CASE w.call = "answer"
    <2>1. Answering(w, replies, turns)
      BY <1>3 DEF ServiceInv, InHand
    <2>2. /\ \A r \in replies : r.key # w.key
          /\ AnswerAt(turns, place, w.key) /\ w.draft.pending \in Asked(turns)
      BY <2>1 DEF Answering
    <2>3. place + 1 = w.draft.pending
      <3>1. w.draft.pending \in Nat
        BY <2>2, InvMeans, TurnsAre, CostsAssumption
      <3> QED
        BY <3>1
    <2>4. Remembered(c) = replies \cup {new} /\ new.key = w.key /\ new.place = place
      BY <1>3 DEF Remembered
    <2> HIDE DEF w, place, new
    <2> QED
      BY <1>1, <2>2, <2>3, <2>4 DEF RepliesRight
  <1> QED
    BY <1>2, <1>3

\* A call that ends leaves the lock, the list and the other calls as they have to be.
LEMMA EndKeeps ==
    ASSUME ServiceInv, NEW c \in Callers, work[c] # Idle, Ended(c),
           UNCHANGED <<session, turns>>,
           replies' = replies \/ (Storing(work[c]) /\ replies' = Remembered(c))
    PROVE  /\ TurnsRight' /\ WorkShape' /\ Stage' /\ Commands' /\ InHand'
           /\ work'[c] = Idle /\ \A d \in Callers : d # c => work'[d] = work[d]
  <1>1. /\ WorkShape' /\ work'[c] = Idle
        /\ \A d \in Callers : d # c => work'[d] = work[d]
    BY StateKept DEF ServiceInv, Ended, Shape
  <1>2. TurnsRight'
    BY RememberKeeps, InvMeans DEF TurnsRight
  <1>3. Stage'
    BY DEF ServiceInv, Stage
  <1>4. Commands'
    BY <1>1 DEF ServiceInv, Commands, Ended
  <1>5. InHand'
    <2> SUFFICES ASSUME NEW d \in Callers,
                        Asking(work'[d]) \/ (Storing(work'[d]) /\ work'[d].call = "answer")
                 PROVE  Answering(work'[d], replies', turns')
      BY DEF InHand
    <2>1. d # c /\ work'[d] = work[d]
      BY <1>1, IdleIs
    <2>2. Answering(work[d], replies, turns)
      BY <2>1 DEF ServiceInv, InHand
    <2>3. lock = d /\ (Storing(work[c]) => work[c].call = "start")
      <3>1. Asking(work[d]) \/ (Storing(work[d]) /\ work[d].call # "start")
        BY <2>1
      <3> QED
        BY <2>1, <3>1, OneCommand DEF ServiceInv
    <2>4. replies' = replies
      BY <2>3 DEF Remembered
    <2> QED
      BY <2>1, <2>2, <2>4
  <1> QED
    BY <1>1, <1>2, <1>3, <1>4, <1>5

LEMMA FailKeeps == \A c \in Callers : ServiceInv /\ AskingFails(c) => ServiceInv'
  <1> SUFFICES ASSUME NEW c \in Callers, ServiceInv, AskingFails(c) PROVE ServiceInv'
    OBVIOUS
  <1>1. /\ work[c].step = "ask" /\ Ended(c)
        /\ UNCHANGED <<session, turns, checkpoint, replies, overlapped>>
    BY DEF AskingFails
  <1>2. Asking(work[c]) /\ work[c] # Idle
    BY <1>1, InvMeans, ByStep
  <1>3. /\ TurnsRight' /\ WorkShape' /\ Stage' /\ Commands' /\ InHand'
        /\ work'[c] = Idle /\ \A d \in Callers : d # c => work'[d] = work[d]
    BY <1>1, <1>2, EndKeeps
  <1>4. Tells'
    <2>1. CASE overlapped
      BY <1>1, <2>1 DEF Tells
    <2>2. CASE ~overlapped
      <3>1. Coming(work[c]) /\ \A d \in Callers : d # c => work[d] = Idle
        BY <1>2, <2>2, AloneIs DEF ServiceInv
      <3>2. Told /\ NotAhead
        BY <1>2, <3>1 DEF Coming
      <3>3. Told' /\ NotAhead'
        BY <1>1, <3>2 DEF Told, NotAhead
      <3> QED
        BY <1>3, <3>1, <3>3, TellsOfNone
    <2> QED
      BY <2>1, <2>2
  <1> QED
    BY <1>3, <1>4 DEF ServiceInv

\* A call that goes on keeps what it holds, but for its step.
LEMMA ForwardKeeps ==
    ASSUME ServiceInv, NEW c \in Callers, Storing(work[c]), NEW s \in StoreSteps,
           work' = [work EXCEPT ![c].step = s], UNCHANGED <<turns, replies, lock>>
    PROVE  /\ TurnsRight' /\ WorkShape' /\ Commands' /\ InHand'
           /\ Storing(work'[c]) /\ work'[c].step = s
           /\ work'[c].next = work[c].next /\ work'[c].draft = work[c].draft
           /\ \A d \in Callers : d # c => work'[d] = work[d]
  <1> DEFINE w == work[c]
             v == [w EXCEPT !.step = s]
  <1>1. /\ Storing(v) /\ v.step = s /\ v.call = w.call /\ v.next = w.next
        /\ v.draft = w.draft /\ (w.call = "answer" => v.key = w.key)
    BY StepForward
  <1>2. work' = [work EXCEPT ![c] = v]
    OBVIOUS
  <1> HIDE DEF v
  <1>3. /\ WorkShape' /\ work'[c] = v
        /\ \A d \in Callers : d # c => work'[d] = work[d]
    <2>1. WorkShape
      BY DEF ServiceInv
    <2>2. Shape(v)
      BY <1>1 DEF Shape
    <2> QED
      BY ONLY <1>2, <2>1, <2>2, c \in Callers, StateKept
  <1>4. TurnsRight'
    BY DEF ServiceInv, TurnsRight
  <1>5. Commands'
    BY <1>1, <1>3, InvMeans, ByStep DEF ServiceInv, Commands
  <1>6. ~Asking(v) /\ ~Asking(w)
    BY <1>1, ByStep DEF Shape
  <1>7. InHand'
    <2> SUFFICES ASSUME NEW d \in Callers,
                        Asking(work'[d]) \/ (Storing(work'[d]) /\ work'[d].call = "answer")
                 PROVE  Answering(work'[d], replies', turns')
      BY DEF InHand
    <2>1. CASE d # c
      BY <1>3, <2>1 DEF ServiceInv, InHand
    <2>2. CASE d = c
      <3>1. v.call = "answer" /\ Answering(w, replies, turns)
        BY <1>1, <1>3, <1>6, <2>2 DEF ServiceInv, InHand
      <3>2. Answering(v, replies, turns)
        BY <1>1, <1>6, <3>1 DEF Answering
      <3> QED
        BY <1>3, <2>2, <3>2
    <2> QED
      BY <2>1, <2>2
  <1> QED
    BY <1>1, <1>3, <1>4, <1>5, <1>7

LEMMA StoreKeeps == \A c \in Callers : ServiceInv /\ StoreSession(c) => ServiceInv'
  <1> SUFFICES ASSUME NEW c \in Callers, ServiceInv, StoreSession(c) PROVE ServiceInv'
    OBVIOUS
  <1> DEFINE w == work[c]
  <1>1. /\ w.step = "store" /\ session' = w.next
        /\ work' = [work EXCEPT ![c].step = "compare"]
        /\ UNCHANGED <<turns, checkpoint, replies, lock, overlapped>>
    BY DEF StoreSession
  <1>2. Storing(w) /\ ~Asking(w) /\ w # Idle
    BY <1>1, InvMeans, ByStep DEF StoreSteps
  <1>3. /\ TurnsRight' /\ WorkShape' /\ Commands' /\ InHand'
        /\ Storing(work'[c]) /\ work'[c].step = "compare"
        /\ work'[c].next = w.next /\ work'[c].draft = w.draft
        /\ \A d \in Callers : d # c => work'[d] = work[d]
    BY <1>1, <1>2, ForwardKeeps DEF StoreSteps
  <1>4. IsSession(w.next) /\ w.next.state \in {"awaiting_answer", "completed"}
    BY <1>2 DEF Storing
  <1> HIDE DEF w
  <1>5. Stage'
    BY <1>1, <1>4 DEF Stage, Early
  <1>6. work'[c] # Idle /\ ~Asking(work'[c])
    BY <1>3, ByStep, IdleIs DEF WorkShape
  <1>7. Tells'
    <2>1. CASE overlapped
      BY <1>1, <2>1 DEF Tells
    <2>2. CASE ~overlapped
      <3>1. Coming(w) /\ \A d \in Callers : d # c => work[d] = Idle
        BY <1>2, <2>2, AloneIs DEF ServiceInv, w
      <3>2. /\ w.draft = Truth(w.next, turns)
            /\ w.next.sequence > session.sequence /\ NotAhead
        BY <1>1, <1>2, <3>1 DEF Coming
      <3>3. \A old \in checkpoint : old.sequence < w.next.sequence
        <4>1. session.sequence \in Nat /\ w.next.sequence \in Nat
          BY <1>4, InvMeans DEF IsSession
        <4> QED
          BY <3>2, <4>1 DEF NotAhead
      <3>4. Coming(work[c])'
        BY <1>1, <1>3, <1>6, <3>2, <3>3 DEF Coming
      <3> QED
        BY <1>3, <1>6, <3>1, <3>4, TellsOfOne
    <2> QED
      BY <2>1, <2>2
  <1> QED
    BY <1>3, <1>5, <1>7 DEF ServiceInv

LEMMA CompareKeeps == \A c \in Callers : ServiceInv /\ CompareCheckpoint(c) => ServiceInv'
  <1> SUFFICES ASSUME NEW c \in Callers, ServiceInv, CompareCheckpoint(c) PROVE ServiceInv'
    OBVIOUS
  <1> DEFINE w == work[c]
             newer == \A old \in checkpoint : old.sequence < w.draft.sequence
  <1>1. w.step = "compare" /\ UNCHANGED <<session, turns, checkpoint, overlapped>>
    BY DEF CompareCheckpoint
  <1>2. Storing(w) /\ ~Asking(w) /\ w # Idle
    BY <1>1, InvMeans, ByStep DEF StoreSteps
  <1>3. ~overlapped =>
            /\ Coming(w) /\ \A d \in Callers : d # c => work[d] = Idle
            /\ w.draft = Truth(w.next, turns) /\ w.next = session /\ newer
    <2> SUFFICES ASSUME ~overlapped
                 PROVE  /\ Coming(w) /\ \A d \in Callers : d # c => work[d] = Idle
                        /\ w.draft = Truth(w.next, turns) /\ w.next = session /\ newer
      OBVIOUS
    <2>1. Coming(w) /\ \A d \in Callers : d # c => work[d] = Idle
      BY <1>2, AloneIs DEF ServiceInv
    <2>2. /\ w.draft = Truth(w.next, turns) /\ w.next = session
          /\ \A old \in checkpoint : old.sequence < session.sequence
      BY <1>1, <1>2, <2>1 DEF Coming
    <2>3. w.draft.sequence = session.sequence
      BY <2>2 DEF Truth, Checkpoint
    <2> QED
      BY <2>1, <2>2, <2>3
  <1>4. CASE newer
    <2>1. work' = [work EXCEPT ![c].step = "write"] /\ UNCHANGED <<lock, replies>>
      BY <1>4 DEF CompareCheckpoint
    <2>2. /\ TurnsRight' /\ WorkShape' /\ Commands' /\ InHand'
          /\ Storing(work'[c]) /\ work'[c].step = "write"
          /\ work'[c].next = w.next /\ work'[c].draft = w.draft
          /\ \A d \in Callers : d # c => work'[d] = work[d]
      BY <1>1, <1>2, <2>1, ForwardKeeps DEF StoreSteps
    <2>3. work'[c] # Idle /\ ~Asking(work'[c])
      BY <2>2, ByStep, IdleIs DEF WorkShape
    <2>4. Stage'
      BY <1>1, <1>2, <2>2 DEF ServiceInv, Stage
    <2>5. Tells'
      <3>1. CASE overlapped
        BY <1>1, <3>1 DEF Tells
      <3>2. CASE ~overlapped
        <4>1. Coming(work[c])'
          BY <1>1, <1>3, <2>2, <2>3, <3>2 DEF Coming
        <4> QED
          BY <1>3, <2>2, <2>3, <3>2, <4>1, TellsOfOne
      <3> QED
        BY <3>1, <3>2
    <2> QED
      BY <2>2, <2>4, <2>5 DEF ServiceInv
  <1>5. CASE ~newer
    <2>1. Ended(c) /\ (replies' = replies \/ replies' = Remembered(c))
      BY <1>5 DEF CompareCheckpoint
    <2>2. TurnsRight' /\ WorkShape' /\ Stage' /\ Commands' /\ InHand'
      BY <1>1, <1>2, <2>1, EndKeeps
    <2>3. Tells'
      BY <1>1, <1>3, <1>5 DEF Tells
    <2> QED
      BY <2>2, <2>3 DEF ServiceInv
  <1> QED
    BY <1>4, <1>5

LEMMA WriteKeeps == \A c \in Callers : ServiceInv /\ WriteCheckpoint(c) => ServiceInv'
  <1> SUFFICES ASSUME NEW c \in Callers, ServiceInv, WriteCheckpoint(c) PROVE ServiceInv'
    OBVIOUS
  <1> DEFINE w == work[c]
  <1>1. /\ w.step = "write" /\ checkpoint' = {w.draft} /\ replies' = Remembered(c)
        /\ Ended(c) /\ UNCHANGED <<session, turns, overlapped>>
    BY DEF WriteCheckpoint
  <1>2. Storing(w) /\ ~Asking(w) /\ w # Idle
    BY <1>1, InvMeans, ByStep DEF StoreSteps
  <1>3. /\ TurnsRight' /\ WorkShape' /\ Stage' /\ Commands' /\ InHand'
        /\ work'[c] = Idle /\ \A d \in Callers : d # c => work'[d] = work[d]
    BY <1>1, <1>2, EndKeeps
  <1>4. Tells'
    <2>1. CASE overlapped
      BY <1>1, <2>1 DEF Tells
    <2>2. CASE ~overlapped
      <3>1. Coming(w) /\ \A d \in Callers : d # c => work[d] = Idle
        BY <1>2, <2>2, AloneIs DEF ServiceInv
      <3>2. w.draft = Truth(session, turns)
        BY <1>1, <1>2, <3>1 DEF Coming
      <3>3. w.draft.sequence = session.sequence /\ session.sequence \in Nat
        BY <3>2, InvMeans DEF Truth, Checkpoint
      <3> HIDE DEF w
      <3>4. Told' /\ NotAhead'
        BY <1>1, <3>2, <3>3 DEF Told, NotAhead
      <3> QED
        BY <1>3, <3>1, <3>4, TellsOfNone
    <2> QED
      BY <2>1, <2>2
  <1> QED
    BY <1>3, <1>4 DEF ServiceInv

-----------------------------------------------------------------------------
(* The theorems about the interview service *)

LEMMA ServiceInitHolds == ServiceInit => ServiceInv
  <1> SUFFICES ASSUME ServiceInit PROVE ServiceInv
    OBVIOUS
  <1>1. /\ session = Session("none") /\ turns = <<>> /\ checkpoint = {} /\ replies = {}
        /\ lock = None /\ overlapped = FALSE /\ work = [c \in Callers |-> Idle]
    BY DEF ServiceInit
  <1>2. \A c \in Callers : work[c] = Idle
    BY <1>1
  <1>3. TurnsRight
    <2>1. turns \in Seq(TurnRows) /\ Asked(turns) = {}
      BY <1>1 DEF Asked
    <2> QED
      BY <1>1, <2>1 DEF TurnsRight, QuestionsRight, RepliesRight
  <1>4. WorkShape
    BY <1>1 DEF WorkShape, Shape
  <1>5. Stage
    BY <1>1, <1>2 DEF Stage, Session, IsSession, Early
  <1>6. Commands
    BY <1>1, <1>2 DEF Commands
  <1>7. InHand
    BY <1>2, IdleIs DEF InHand
  <1>8. Tells
    <2>1. NotAhead
      BY <1>1 DEF NotAhead
    <2>2. session.state \in Early
      BY <1>1 DEF Session, Early
    <2> QED
      BY <1>2, <2>1, <2>2 DEF Tells
  <1> QED
    BY <1>3, <1>4, <1>5, <1>6, <1>7, <1>8 DEF ServiceInv

LEMMA ServiceStutters == ServiceInv /\ UNCHANGED serviceVars => ServiceInv'
  <1> SUFFICES ASSUME ServiceInv, UNCHANGED serviceVars PROVE ServiceInv'
    OBVIOUS
  <1>1. UNCHANGED <<session, turns, checkpoint, replies, lock, work, overlapped>>
    BY DEF serviceVars
  <1>2. TurnsRight'
    BY <1>1 DEF ServiceInv, TurnsRight
  <1>3. WorkShape'
    BY <1>1 DEF ServiceInv, WorkShape
  <1>4. Stage'
    BY <1>1 DEF ServiceInv, Stage
  <1>5. Commands'
    BY <1>1 DEF ServiceInv, Commands
  <1>6. InHand'
    BY <1>1 DEF ServiceInv, InHand
  <1>7. Tells'
    BY <1>1 DEF ServiceInv, Tells, Coming, Told, NotAhead
  <1> QED
    BY <1>2, <1>3, <1>4, <1>5, <1>6, <1>7 DEF ServiceInv

\* The invariant is inductive, for any threads, keys, sizes, budget and number of turns.
THEOREM ServiceInductive == ServiceSpec => []ServiceInv
  <1>1. ServiceInv /\ [ServiceNext]_serviceVars => ServiceInv'
    <2> SUFFICES ASSUME ServiceInv, [ServiceNext]_serviceVars PROVE ServiceInv'
      OBVIOUS
    <2>1. CASE CreateSession
      BY <2>1, CreateKeeps
    <2>2. ASSUME NEW c \in Callers, Start(c) PROVE ServiceInv'
      BY <2>2, StartKeeps
    <2>3. ASSUME NEW c \in Callers, FinalizeAnswer(c) PROVE ServiceInv'
      BY <2>3, CostsAssumption, FinalizeKeeps
    <2>4. ASSUME NEW c \in Callers, AskQuestion(c) PROVE ServiceInv'
      BY <2>4, CostsAssumption, AskKeeps
    <2>5. ASSUME NEW c \in Callers, AskingFails(c) PROVE ServiceInv'
      BY <2>5, FailKeeps
    <2>6. ASSUME NEW c \in Callers, CompleteSession(c) PROVE ServiceInv'
      BY <2>6, CompleteKeeps
    <2>7. ASSUME NEW c \in Callers, StoreSession(c) PROVE ServiceInv'
      BY <2>7, StoreKeeps
    <2>8. ASSUME NEW c \in Callers, CompareCheckpoint(c) PROVE ServiceInv'
      BY <2>8, CompareKeeps
    <2>9. ASSUME NEW c \in Callers, WriteCheckpoint(c) PROVE ServiceInv'
      BY <2>9, WriteKeeps
    <2>10. CASE UNCHANGED serviceVars
      BY <2>10, ServiceStutters
    <2> QED
      BY <2>1, <2>2, <2>3, <2>4, <2>5, <2>6, <2>7, <2>8, <2>9, <2>10 DEF ServiceNext
  <1> QED
    BY <1>1, ServiceInitHolds, PTL DEF ServiceSpec

\* However threads repeat, overtake and fail each other's calls, a remembered reply is of one
\* answer and of the question asked right after it from the newest turns that fit, and no
\* question is asked twice.
THEOREM AnswersGetTheirQuestions == ServiceSpec => []EachAnswerGetsItsQuestion
  <1>1. ServiceInv => EachAnswerGetsItsQuestion
    <2> SUFFICES ASSUME ServiceInv PROVE EachAnswerGetsItsQuestion
      OBVIOUS
    <2>1. /\ QuestionsRight(turns) /\ RepliesRight(replies, turns)
          /\ Questions = Asked(turns) /\ Answers = Heard(turns)
      BY InvMeans, CostsAssumption, TurnsAre
    <2>2. ASSUME NEW r \in replies
          PROVE  /\ r.place \in Answers /\ turns[r.place].id = r.key
                 /\ r.place + 1 \in Questions
      BY <2>1 DEF RepliesRight, AnswerAt
    <2>3. \A r, t \in replies : r.key = t.key => r = t
      BY <2>1 DEF RepliesRight
    <2>4. ASSUME NEW q \in Questions PROVE NewestThatFit(turns[q].shown, q)
      <3>1. Fitting(turns, turns[q].shown, q)
        BY <2>1 DEF QuestionsRight
      <3> QED
        BY <3>1 DEF Fitting, NewestThatFit
    <2>5. \A p, q \in Questions : turns[p].text = turns[q].text => p = q
      BY <2>1 DEF QuestionsRight
    <2> QED
      BY <2>2, <2>3, <2>4, <2>5 DEF EachAnswerGetsItsQuestion
  <1> QED
    BY <1>1, ServiceInductive, PTL

\* Unless a start overlapped another call, a client that resumes between two calls is told the
\* session as it is, with the question still to be answered and the answer before it.
THEOREM ResumeIsTrue == ServiceSpec => []ResumeTellsTheSession
  <1>1. ServiceInv => ResumeTellsTheSession
    <2> SUFFICES ASSUME ServiceInv, Underway = {}, ~overlapped,
                        session.state \notin {"none", "preparing"}
                 PROVE  ResumeTellsTheSession
      BY DEF ResumeTellsTheSession
    <2> DEFINE asked == Latest(Questions)
               open == session.state # "completed"
               final == IF ~open THEN LastAnswerId
                        ELSE IF asked = 0 THEN None ELSE turns[asked - 1].id
               pending == IF open THEN asked ELSE None
               truth == Truth(session, turns)
    <2>1. \A c \in Callers : work[c] = Idle
      BY DEF Underway
    <2>2. checkpoint = {truth}
      BY <2>1 DEF ServiceInv, Tells, Told, Early
    <2>3. Questions = Asked(turns) /\ Answers = Heard(turns)
      BY InvMeans, CostsAssumption, TurnsAre
    <2>4. truth = Checkpoint(session, final, pending)
      BY <2>3 DEF Truth, LastHeard, LastAnswerId
    <2>5. /\ truth.state = session.state /\ truth.sequence = session.sequence
          /\ truth.degraded = session.degraded
          /\ truth.final = final /\ truth.pending = pending
      BY <2>4 DEF Checkpoint
    <2> HIDE DEF truth, final, pending
    <2>6. (session.sequence < truth.sequence) = FALSE
      BY <2>5, InvMeans
    <2>7. Snapshots(session.sequence) =
              {[state |-> truth.state, sequence |-> truth.sequence, final |-> truth.final,
                pending |-> truth.pending, degraded |-> truth.degraded,
                stale |-> session.sequence < truth.sequence]}
      BY <2>2 DEF Snapshots
    <2>8. Snapshots(session.sequence) =
              {[state |-> session.state, sequence |-> session.sequence,
                degraded |-> session.degraded, stale |-> FALSE,
                pending |-> pending, final |-> final]}
      BY <2>5, <2>6, <2>7
    <2> QED
      BY <2>8 DEF ResumeTellsTheSession, final, pending
  <1> QED
    BY <1>1, ServiceInductive, PTL
=============================================================================
