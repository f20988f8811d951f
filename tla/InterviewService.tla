--------------------------- MODULE InterviewService ---------------------------
(***************************************************************************)
(* The in-memory interview service (interview_engine/application/          *)
(* interview_service.py): one session of one process, whose threads call   *)
(* it at once.  It finalizes an answer and asks the next question from the  *)
(* turns that fit into a prompt, what a search finds, and a model or a      *)
(* fallback; checkpoints.py keeps what a client resumes from.               *)
(*                                                                         *)
(* ScopedIdempotencyStore holds ONE lock around a whole command, so         *)
(* commands follow each other; start takes no lock, and no command takes    *)
(* back what it wrote before it raised.  Calls that raise before they wrote *)
(* anything, and calls that only read, change nothing and are no actions.   *)
(***************************************************************************)
EXTENDS Integers, Sequences, FiniteSetsExt

CONSTANTS
    Callers,        \* threads
    Keys,           \* idempotency keys of answers; an answer's turn_id goes with its key
    Criteria,       \* what a question may be asked about
    ModelReplies,   \* questions the model may ask, and "unavailable"; or {"absent"}, no model
    AnswerCosts,    \* the sizes of answers, in tokens
    FixedCost,      \* tokens of the criteria and the summary
    MaxTokens,      \* the builder's budget
    MaxTurns        \* bound: turns in the list

None == 0
QuestionCost == 1   \* the least _token_cost

ASSUME CostsAssumption ==
    /\ AnswerCosts \subseteq Nat \ {0}
    /\ FixedCost \in Nat /\ MaxTokens \in Nat
ASSUME BoundsAssumption == MaxTurns \in Nat
ASSUME NamesAssumption == None \notin Callers \cup Keys

VARIABLES
    session,    \* _sessions: its state, sequence and degraded modes
    turns,      \* _turns
    checkpoint, \* CheckpointService._records, {} or one record
    replies,    \* what ScopedIdempotencyStore remembers of the answers
    lock,       \* its holder, or None
    work,       \* what each thread is doing, with the values it read
    overlapped  \* a call of start and another call were under way at once

serviceVars == <<session, turns, checkpoint, replies, lock, work, overlapped>>

-----------------------------------------------------------------------------
(* Session and turns *)

Transitions ==
    [preparing          |-> {"in_progress", "paused"},
     in_progress        |-> {"awaiting_answer", "preparing_question", "paused"},
     awaiting_answer    |-> {"preparing_question", "paused"},
     preparing_question |-> {"awaiting_answer", "paused"},
     paused             |-> {"in_progress", "awaiting_answer", "preparing_question", "completed"},
     completed          |-> {}]

States == DOMAIN Transitions

\* SessionStateMachine.transition, for a caller that expects the sequence that is there.
MayPass(state, target) == state \in States /\ target \in Transitions[state]
Passed(s, target) == [s EXCEPT !.state = target, !.sequence = @ + 1]

Session(state) == [state |-> state, sequence |-> 0, degraded |-> {}]

Answer(key, cost) == [speaker |-> "applicant", id |-> key, cost |-> cost]

Question(text, shown) ==
    [speaker |-> "interviewer", text |-> text, shown |-> shown, cost |-> QuestionCost]

Questions == {i \in DOMAIN turns : turns[i].speaker = "interviewer"}
Answers == DOMAIN turns \ Questions
Latest(places) == Max(places \cup {0})

\* The turn_id of the last final answer in the list.
LastAnswerId == IF Answers = {} THEN None ELSE turns[Latest(Answers)].id

-----------------------------------------------------------------------------
(* ContextBuilder.build *)

\* The tokens used once the k newest turns were looked at: one that does not
\* fit is left out, and the older ones are still looked at.
TokensUsed ==
    LET size == Len(turns)
        used[k \in 0..size] ==
            IF k = 0 THEN FixedCost
            ELSE LET cost == turns[size + 1 - k].cost
                 IN  IF used[k - 1] + cost > MaxTokens THEN used[k - 1] ELSE used[k - 1] + cost
    IN  used

\* The places of the turns in the prompt.
Included ==
    LET size == Len(turns)
    IN  {i \in 1..size : TokensUsed[size + 1 - i] > TokensUsed[size - i]}

-----------------------------------------------------------------------------
(* Retrieval, generation, policy and speech *)

\* RetrievalClient.retrieve: a search that times out or is unavailable is one that finds
\* nothing.
SearchMode(search) == IF search = "sources" THEN "none" ELSE "search_fallback"

Fallback(criterion) == <<"fallback", criterion>>

\* The question of QuestionGenerator.generate, and the mode it is made in.
Generated(criterion, search, model) ==
    CASE model = "absent"      -> [text |-> Fallback(criterion),
                                   mode |-> IF search = "sources" THEN "model_fallback"
                                            ELSE "search_fallback"]
      [] model = "unavailable" -> [text |-> Fallback(criterion), mode |-> "model_fallback"]
      [] OTHER                 -> [text |-> model, mode |-> SearchMode(search)]

\* QuestionPolicy.validate: no question is asked a second time.
Allowed(text) == \A i \in Questions : turns[i].text # text

\* SpeechSynthesizer.synthesize falls back to the text alone.
SpeechMode(spoken) == IF spoken THEN "none" ELSE "text_only"

\* with_degraded_mode, of each mode that is not "none".
Degraded(s, modes) == [s EXCEPT !.degraded = @ \cup (modes \ {"none"})]

-----------------------------------------------------------------------------
(* Calls *)

Idle == [step |-> "idle"]
Checkpoint(s, final, pending) ==
    [state |-> s.state, sequence |-> s.sequence, degraded |-> s.degraded,
     final |-> final, pending |-> pending]

\* Takes no lock.
MutantUnlocked(c) == work[c] = Idle

Unlocked(c) == work[c] = Idle /\ lock = None

Underway == {c \in Callers : work[c] # Idle}

\* Commands exclude each other: what overlaps is a start and another call.
Begins == overlapped' = (overlapped \/ Underway # {})

\* The call of c ends, with a reply that is remembered or with what it raises.
Ended(c) ==
    /\ work' = [work EXCEPT ![c] = Idle]
    /\ lock' = IF lock = c THEN None ELSE lock

CreateSession ==
    /\ lock = None
    /\ session.state = "none"
    /\ session' = Session("preparing")
    /\ UNCHANGED <<turns, checkpoint, replies, lock, work, overlapped>>

\* start reads the session and moves it on, twice.
Start(c) ==
    /\ work[c] = Idle
    /\ MayPass(session.state, "in_progress")
    /\ LET next == Passed(Passed(session, "in_progress"), "awaiting_answer")
       IN  work' = [work EXCEPT ![c] =
               [step |-> "store", call |-> "start", next |-> next,
                draft |-> [Checkpoint(next, None, None) EXCEPT !.degraded = {}]]]
    /\ Begins
    /\ UNCHANGED <<session, turns, checkpoint, replies, lock>>

\* finalize_answer, under a key that is not remembered: the answer is in the
\* list before anything else is tried.
FinalizeAnswer(c) ==
    /\ Unlocked(c)
    /\ Len(turns) < MaxTurns
    /\ session.state = "awaiting_answer"
    /\ \E key \in Keys \ {r.key : r \in replies}, cost \in AnswerCosts, criterion \in Criteria :
          /\ turns' = Append(turns, Answer(key, cost))
          /\ work' = [work EXCEPT ![c] =
                 [step |-> "ask", key |-> key, criterion |-> criterion,
                  next |-> Passed(session, "preparing_question")]]
    /\ lock' = c
    /\ Begins
    /\ UNCHANGED <<session, checkpoint, replies>>

AskQuestion(c) ==
    /\ work[c].step = "ask"
    /\ FixedCost <= MaxTokens
    /\ \E search \in {"sources", "nothing"}, model \in ModelReplies, spoken \in BOOLEAN :
          LET generated == Generated(work[c].criterion, search, model)
              next == Degraded(Passed(work[c].next, "awaiting_answer"),
                               {generated.mode, SpeechMode(spoken)})
          IN  /\ Allowed(generated.text)
              /\ turns' = Append(turns, Question(generated.text, Included))
              /\ work' = [work EXCEPT ![c] =
                     [step |-> "store", call |-> "answer", key |-> work[c].key, next |-> next,
                      draft |-> Checkpoint(next, work[c].key, Len(turns) + 1)]]
    /\ UNCHANGED <<session, checkpoint, replies, lock, overlapped>>

\* The builder, the search, the model or the policy raises.
AskingFails(c) ==
    /\ work[c].step = "ask"
    /\ Ended(c)
    /\ UNCHANGED <<session, turns, checkpoint, replies, overlapped>>

\* The checkpoint keeps the question that was pending.
MutantCompleteSession(c) ==
    /\ Unlocked(c)
    /\ MayPass(session.state, "paused")
    /\ LET next == Passed(Passed(session, "paused"), "completed")
       IN  work' = [work EXCEPT ![c] =
               [step |-> "store", call |-> "complete", next |-> next,
                draft |-> Checkpoint(next, LastAnswerId, Latest(Questions))]]
    /\ lock' = c
    /\ Begins
    /\ UNCHANGED <<session, turns, checkpoint, replies>>

CompleteSession(c) ==
    /\ Unlocked(c)
    /\ MayPass(session.state, "paused")
    /\ LET next == Passed(Passed(session, "paused"), "completed")
       IN  work' = [work EXCEPT ![c] =
               [step |-> "store", call |-> "complete", next |-> next,
                draft |-> Checkpoint(next, LastAnswerId, None)]]
    /\ lock' = c
    /\ Begins
    /\ UNCHANGED <<session, turns, checkpoint, replies>>

StoreSession(c) ==
    /\ work[c].step = "store"
    /\ session' = work[c].next
    /\ work' = [work EXCEPT ![c].step = "compare"]
    /\ UNCHANGED <<turns, checkpoint, replies, lock, overlapped>>

\* The reply of an answer is remembered: its turn, with the question after it.
Remembered(c) ==
    replies \cup IF work[c].call = "answer"
                 THEN {[key |-> work[c].key, place |-> work[c].draft.pending - 1]}
                 ELSE {}

\* CheckpointService.record refuses to go back, and to say something else of the same
\* sequence; the session is stored all the same.
CompareCheckpoint(c) ==
    /\ work[c].step = "compare"
    /\ IF \A old \in checkpoint : old.sequence < work[c].draft.sequence
       THEN /\ work' = [work EXCEPT ![c].step = "write"]
            /\ UNCHANGED <<lock, replies>>
       ELSE /\ Ended(c)
            /\ replies' = IF checkpoint = {work[c].draft} THEN Remembered(c) ELSE replies
    /\ UNCHANGED <<session, turns, checkpoint, overlapped>>

WriteCheckpoint(c) ==
    /\ work[c].step = "write"
    /\ checkpoint' = {work[c].draft}
    /\ replies' = Remembered(c)
    /\ Ended(c)
    /\ UNCHANGED <<session, turns, overlapped>>

ServiceInit ==
    /\ session = Session("none")
    /\ turns = <<>> /\ checkpoint = {} /\ replies = {}
    /\ lock = None /\ overlapped = FALSE
    /\ work = [c \in Callers |-> Idle]

ServiceNext ==
    \/ CreateSession
    \/ \E c \in Callers :
          \/ Start(c) \/ FinalizeAnswer(c) \/ AskQuestion(c) \/ AskingFails(c)
          \/ CompleteSession(c)
          \/ StoreSession(c) \/ CompareCheckpoint(c) \/ WriteCheckpoint(c)

ServiceSpec == ServiceInit /\ [][ServiceNext]_serviceVars

-----------------------------------------------------------------------------
\* resume: what the latest checkpoint says.
Snapshots(heard) ==
    {[state |-> c.state, sequence |-> c.sequence, final |-> c.final, pending |-> c.pending,
      degraded |-> c.degraded, stale |-> heard < c.sequence] : c \in checkpoint}

\* The sum of a sequence of costs, written so that it can be proved about.
Total(costs) ==
    LET upTo[n \in 0..Len(costs)] == IF n = 0 THEN 0 ELSE upTo[n - 1] + costs[n]
    IN  upTo[Len(costs)]

\* A turn is left out of a prompt only if nothing shown is older and as large, and it does
\* not fit beside what is shown.
NewestThatFit(shown, place) ==
    LET cost(i) == turns[i].cost
        tokens == FixedCost + Total([i \in 1..(place - 1) |-> IF i \in shown THEN cost(i) ELSE 0])
    IN  /\ shown \subseteq 1..(place - 1)
        /\ tokens <= MaxTokens
        /\ \A i \in (1..(place - 1)) \ shown :
              /\ tokens + cost(i) > MaxTokens
              /\ \A j \in shown : j < i => cost(j) < cost(i)

\* However threads repeat, overtake and fail each other's calls: a remembered reply is of one
\* answer and of the question that was asked right after it, from the newest turns that fit;
\* a key has one reply, and no question is asked twice.
EachAnswerGetsItsQuestion ==
    /\ \A r \in replies :
          /\ r.place \in Answers /\ turns[r.place].id = r.key
          /\ r.place + 1 \in Questions
    /\ \A r, t \in replies : r.key = t.key => r = t
    /\ \A q \in Questions : NewestThatFit(turns[q].shown, q)
    /\ \A p, q \in Questions : turns[p].text = turns[q].text => p = q

\* Unless a start, which takes no lock, overlapped with another call, a client that
\* resumes between two calls is told the session as it is: its state and sequence, the
\* question that is still to be answered and the answer before it, although answers of
\* failed commands are in the list, and a completed session names the last of all answers.
ResumeTellsTheSession ==
    Underway = {} /\ ~overlapped /\ session.state \notin {"none", "preparing"} =>
        LET asked == Latest(Questions)
            open == session.state # "completed"
        IN  Snapshots(session.sequence) =
                {[state |-> session.state, sequence |-> session.sequence,
                  degraded |-> session.degraded, stale |-> FALSE,
                  pending |-> IF open THEN asked ELSE None,
                  final |-> IF ~open THEN LastAnswerId
                            ELSE IF asked = 0 THEN None ELSE turns[asked - 1].id]}
=============================================================================
