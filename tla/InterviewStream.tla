--------------------------- MODULE InterviewStream ---------------------------
(***************************************************************************)
(* One applicant interview session, driven over the interview WebSocket.   *)
(*                                                                         *)
(* The stream handler (interview_engine/api/runtime.py) runs every message *)
(* of a connection inside ONE database transaction, the one that           *)
(* DatabaseTransactionMiddleware (shared/runtime.py) opens when the socket  *)
(* is accepted and commits when it ends.  So the model keeps two copies of  *)
(* the session's rows: `db' is what the open connection reads and writes,   *)
(* `saved' is what is committed and what a new connection starts from.      *)
(*                                                                         *)
(* This module has one connection at a time; StreamConnections has several. *)
(* A handler that raises before it wrote anything (a rejected message) ends *)
(* the connection and commits it unchanged: that is Disconnect.             *)
(***************************************************************************)
EXTENDS Integers, Sequences, FiniteSets, FiniteSetsExt

CONSTANTS
    AnswerIds,      \* answer_turn_id values the client generates
    Fragments,      \* what one text message or one transcribed audio chunk says
    MaxQuestions,   \* the handler's max_questions
    MaxChunks,      \* bound: recording chunks an upload intent is issued for
    MaxFragments,   \* bound: fragments in one answer
    MaxPauseAt,     \* bound: the session may pause only up to this sequence
    Faults          \* which failures may happen

FaultKinds == {"transcriber", "strategy", "completion", "storage", "process"}

ASSUME MaxQuestionsAssumption == MaxQuestions \in Nat \ {0}
ASSUME BoundsAssumption == MaxChunks \in Nat /\ MaxFragments \in Nat /\ MaxPauseAt \in Nat
ASSUME FaultsAssumption == Faults \subseteq FaultKinds

VARIABLES
    db,      \* the session's rows as the open connection sees them
    saved,   \* the session's rows as committed
    issued,  \* how many recording chunks have a row; their sequences are 1..issued
    stored,  \* the chunks whose bytes are in the object store
    conn,    \* "open" while a connection is accepted
    heard,   \* the sequence in the last reply of this connection, 0 before one
    told     \* the highest server sequence the applicant was ever told

vars == <<db, saved, issued, stored, conn, heard, told>>

-----------------------------------------------------------------------------
(* Rows *)

Question(number) == [speaker |-> "interviewer", number |-> number]

Answer(id, text) ==
    [speaker |-> "applicant", answer |-> id, status |-> "recording", text |-> text]

Turn ==
    [speaker : {"interviewer"}, number : Nat \ {0}]
      \cup [speaker : {"applicant"}, answer : AnswerIds,
            status : {"recording", "final"}, text : Seq(Fragments)]

\* Turns are named by their place in the transcript (their sequence); 0 is None.
Checkpoint == [at : Nat, pending : Nat, final : Nat, media : Nat]

Rows ==
    [state       : {"preparing", "awaiting_answer", "paused", "completed"},
     sequence    : Nat,
     turns       : Seq(Turn),
     checkpoints : SUBSET Checkpoint,
     verified    : SUBSET (1..MaxChunks),
     event       : {"none", "pending", "published"}]

NoCheckpoint == [at |-> 0, pending |-> 0, final |-> 0, media |-> 0]

NewSession ==
    [state |-> "preparing", sequence |-> 0, turns |-> <<>>,
     checkpoints |-> {}, verified |-> {}, event |-> "none"]

-----------------------------------------------------------------------------
(* Reading the rows of d *)

Questions(d) == {i \in DOMAIN d.turns : d.turns[i].speaker = "interviewer"}

Finals(d) ==
    {i \in DOMAIN d.turns : d.turns[i].speaker = "applicant" /\ d.turns[i].status = "final"}

Places(d, a) ==
    {i \in DOMAIN d.turns : d.turns[i].speaker = "applicant" /\ d.turns[i].answer = a}

\* The turn an answer.complete for a may finalize.
Recording(d, a) == {i \in Places(d, a) : d.turns[i].status = "recording"}

TextOf(d, a) ==
    IF Places(d, a) = {} THEN <<>> ELSE d.turns[CHOOSE i \in Places(d, a) : TRUE].text

LastQuestion(d) == Max(Questions(d) \cup {0})

LastVerified(d) == Max(d.verified \cup {0})

Latest(d) ==
    LET all == d.checkpoints \cup {NoCheckpoint}
    IN  CHOOSE c \in all : \A e \in all : e.at <= c.at

-----------------------------------------------------------------------------
(* Writing the rows of d *)

Allowed ==
    [preparing          |-> {"in_progress", "paused"},
     in_progress        |-> {"awaiting_answer", "preparing_question", "paused"},
     awaiting_answer    |-> {"preparing_question", "paused"},
     preparing_question |-> {"awaiting_answer", "paused"},
     paused             |-> {"in_progress", "awaiting_answer", "preparing_question", "completed"},
     completed          |-> {}]

\* Two transitions in a row, the way _start and _complete make them.
MayPass(d, via, target) == via \in Allowed[d.state] /\ target \in Allowed[via]

Passed(d, target, steps) ==
    [d EXCEPT !.state = target, !.sequence = @ + steps]

Checkpointed(d, pending, final, media) ==
    [d EXCEPT !.checkpoints = @ \cup
        {[at |-> d.sequence, pending |-> pending, final |-> final, media |-> media]}]

Asked(d, number, final, media) ==
    Checkpointed([d EXCEPT !.turns = Append(@, Question(number))],
                 Len(d.turns) + 1, final, media)

\* Begins an answer anew that is final already.
MutantWritten(d, a, text) ==
    IF Places(d, a) = {}
    THEN [d EXCEPT !.turns = Append(@, Answer(a, text))]
    ELSE [d EXCEPT !.turns = [i \in DOMAIN @ |->
            IF i \in Places(d, a) THEN Answer(a, text) ELSE @[i]]]

Written(d, a, text) ==
    IF Places(d, a) = {}
    THEN [d EXCEPT !.turns = Append(@, Answer(a, text))]
    ELSE [d EXCEPT !.turns = [i \in DOMAIN @ |->
            IF i \in Recording(d, a) THEN [@[i] EXCEPT !.text = text] ELSE @[i]]]

\* What an audio chunk makes of the text an answer already has.
Heard(text, fragment) == IF text = <<fragment>> THEN text ELSE Append(text, fragment)

Verified(d, through) == [d EXCEPT !.verified = @ \cup 1..through]

Finalized(d, a) ==
    [d EXCEPT !.turns = [i \in DOMAIN @ |->
        IF i \in Recording(d, a) THEN [@[i] EXCEPT !.status = "final"] ELSE @[i]]]

\* Takes the last turn, not the last question, for the pending one.
MutantPaused(d) ==
    LET p == Passed(d, "paused", 1)
    IN  Checkpointed(p, Len(p.turns), Latest(p).final, LastVerified(p))

Paused(d) ==
    LET p == Passed(d, "paused", 1)
    IN  Checkpointed(p, LastQuestion(p), Latest(p).final, LastVerified(p))

\* Answers with the snapshot, and leaves the session paused.
MutantNotResumed(d) == d

\* Writes no checkpoint for the sequence it moves to.
MutantResumed(d) ==
    IF d.state = "paused" THEN Passed(d, "awaiting_answer", 1) ELSE d

Resumed(d) ==
    IF d.state = "paused"
    THEN Checkpointed(Passed(d, "awaiting_answer", 1),
                      Latest(d).pending, Latest(d).final, LastVerified(d))
    ELSE d

-----------------------------------------------------------------------------
(* How a handler ends *)

\* The handler returns and its reply is sent: nothing is committed yet.
Respond(d, sequence) ==
    /\ db' = d
    /\ heard' = sequence
    /\ told' = Max({told, sequence})
    /\ UNCHANGED <<saved, issued, stored, conn>>

\* Rolls back instead of committing.
MutantClose(d) ==
    /\ db' = saved
    /\ conn' = "closed"
    /\ heard' = 0
    /\ UNCHANGED <<saved, issued, stored, told>>

\* The connection ends, by the client or because the handler raised after the
\* writes in d: the router swallows the exception and the middleware commits d.
Close(d) ==
    /\ db' = d
    /\ saved' = d
    /\ conn' = "closed"
    /\ heard' = 0
    /\ UNCHANGED <<issued, stored, told>>

\* A message that carries the current sequence; the client puts in what it last
\* heard on this connection.
Fresh == conn = "open" /\ heard >= db.sequence

\* The client makes an answer_turn_id when it is shown a question.
Shown == Questions(db) # {}

Awaiting == Fresh /\ Shown /\ db.state = "awaiting_answer"

-----------------------------------------------------------------------------
(* Connections, and what happens outside them *)

Connect ==
    /\ conn = "closed"
    /\ conn' = "open"
    /\ heard' = 0
    /\ UNCHANGED <<db, saved, issued, stored, told>>

Disconnect == conn = "open" /\ Close(db)

\* The API process dies: the connection's transaction is lost.
Crash ==
    /\ "process" \in Faults
    /\ conn = "open"
    /\ db' = saved
    /\ conn' = "closed"
    /\ heard' = 0
    /\ UNCHANGED <<saved, issued, stored, told>>

\* HTTP, committed by its own request.
CreateRecordingUploadIntent ==
    /\ issued < MaxChunks
    /\ issued' = issued + 1
    /\ UNCHANGED <<db, saved, stored, conn, heard, told>>

\* The browser's PUT reaches the object store.
StoreChunk ==
    /\ \E n \in 1..issued \ stored : stored' = stored \cup {n}
    /\ UNCHANGED <<db, saved, issued, conn, heard, told>>

-----------------------------------------------------------------------------
(* Messages *)

Started == Passed(db, "awaiting_answer", 2)

Startable ==
    /\ Fresh
    /\ db.turns = <<>>
    /\ MayPass(db, "in_progress", "awaiting_answer")

Start ==
    /\ Startable
    /\ Respond(Asked(Started, 1, 0, 0), Started.sequence)

\* _next_question raises after save_session.
StartFails ==
    /\ "strategy" \in Faults
    /\ Startable
    /\ Close(Started)

\* session.start of a started session, question.repeat, answer.complete of a
\* completed one: the reply is read from the rows.
Restate ==
    /\ Fresh
    /\ Shown \/ db.state = "completed"
    /\ Respond(db, db.sequence)

\* session.resume, and any message whose sequence is behind the session's,
\* whatever it asks for.
Resume ==
    /\ conn = "open"
    /\ Respond(Resumed(db), Resumed(db).sequence)

SubmitText ==
    /\ Awaiting
    /\ \E a \in AnswerIds, f \in Fragments :
          Respond(Written(db, a, <<f>>), heard)

AudioChunk ==
    /\ Awaiting
    /\ \E a \in AnswerIds, f \in Fragments :
          LET text == Heard(TextOf(db, a), f)
          IN  /\ Len(text) <= MaxFragments
              /\ Respond(Written(db, a, text), heard)

MayPause == db.sequence < MaxPauseAt

AudioUnavailable ==
    /\ "transcriber" \in Faults
    /\ Awaiting
    /\ MayPause
    /\ Respond(Paused(db), Paused(db).sequence)

-----------------------------------------------------------------------------
(* answer.complete *)

\* Believes the sequence the client sent.
MutantVerifiable(through) == through \in 0..issued

\* verify_recording_chunks returns: every chunk up to `through' has a row and
\* is verified already or found in the object store.
Verifiable(through) ==
    /\ through \in 0..issued
    /\ 1..through \subseteq db.verified \cup stored

CompleteMissingTranscript ==
    /\ Awaiting
    /\ MayPause
    /\ \E a \in AnswerIds, through \in 0..MaxChunks :
          /\ Verifiable(through)
          /\ Recording(db, a) = {}
          /\ LET d == Paused(Verified(db, through))
             IN  Respond(d, d.sequence)

\* verify_recording_chunks raises: the chunks before the one that is missing,
\* or that the store cannot serve, stay verified.
CompleteVerifyFails ==
    /\ Awaiting
    /\ \E through \in 1..MaxChunks, upto \in 0..MaxChunks :
          /\ upto < through
          /\ Verifiable(upto)
          /\ \/ upto = issued
             \/ upto + 1 \notin db.verified
                  /\ (upto + 1 \notin stored \/ "storage" \in Faults)
          /\ Close(Verified(db, upto))

\* Counts the turns as they were read before the answer was saved.
MutantAnswersAfter(a) == Cardinality(Finals(db))

\* The number of final answers once a is one.
AnswersAfter(a) == Cardinality(Finals(Finalized(db, a)))

\* The rows once _complete has moved the session on, with nothing asked yet.
Answered(a, through) ==
    Passed(Finalized(Verified(db, through), a), "awaiting_answer", 2)

\* `place' is the turn that answer.complete finalizes.
Completing(a, place, through) ==
    /\ Awaiting
    /\ Verifiable(through)
    /\ place \in Recording(db, a)

CompleteNextQuestion ==
    \E a \in AnswerIds, place \in DOMAIN db.turns, through \in 0..MaxChunks :
        /\ Completing(a, place, through)
        /\ AnswersAfter(a) < MaxQuestions
        /\ MayPass(db, "preparing_question", "awaiting_answer")
        /\ Respond(Asked(Answered(a, through), AnswersAfter(a) + 1, place, through),
                   db.sequence + 2)

\* _next_question raises after save_turn and save_session.
CompleteQuestionFails ==
    /\ "strategy" \in Faults
    /\ \E a \in AnswerIds, place \in DOMAIN db.turns, through \in 0..MaxChunks :
        /\ Completing(a, place, through)
        /\ AnswersAfter(a) < MaxQuestions
        /\ Close(Answered(a, through))

\* Writes no outbox event.
MutantCompleted(a, place, through, event) ==
    Checkpointed(Passed(Finalized(Verified(db, through), a), "completed", 2),
                 0, place, through)

Completed(a, place, through, event) ==
    [Checkpointed(Passed(Finalized(Verified(db, through), a), "completed", 2),
                  0, place, through)
       EXCEPT !.event = event]

CompleteInterview ==
    \E a \in AnswerIds, place \in DOMAIN db.turns, through \in 0..MaxChunks :
        /\ Completing(a, place, through)
        /\ AnswersAfter(a) >= MaxQuestions
        /\ MayPass(db, "paused", "completed")
        /\ Respond(Completed(a, place, through, "published"),
                   db.sequence + 2)

\* The in-process completion handler raises: the event stays unpublished.
CompletionHandlerFails ==
    /\ "completion" \in Faults
    /\ \E a \in AnswerIds, place \in DOMAIN db.turns, through \in 0..MaxChunks :
        /\ Completing(a, place, through)
        /\ AnswersAfter(a) >= MaxQuestions
        /\ MayPass(db, "paused", "completed")
        /\ Close(Completed(a, place, through, "pending"))

-----------------------------------------------------------------------------
Init ==
    /\ db = NewSession
    /\ saved = NewSession
    /\ issued = 0
    /\ stored = {}
    /\ conn = "closed"
    /\ heard = 0
    /\ told = 0

Next ==
    \/ Connect
    \/ Disconnect
    \/ Crash
    \/ CreateRecordingUploadIntent
    \/ StoreChunk
    \/ Start
    \/ StartFails
    \/ Restate
    \/ Resume
    \/ SubmitText
    \/ AudioChunk
    \/ AudioUnavailable
    \/ CompleteMissingTranscript
    \/ CompleteVerifyFails
    \/ CompleteNextQuestion
    \/ CompleteQuestionFails
    \/ CompleteInterview
    \/ CompletionHandlerFails

Spec == Init /\ [][Next]_vars

\* An applicant who comes back when disconnected, resumes, starts, and answers
\* what was asked, and whose connection ends once the interview is over.
Cooperation ==
    /\ WF_vars(Connect)
    /\ WF_vars(conn = "open" /\ db.state = "completed" /\ Disconnect)
    /\ SF_vars(Resume)
    /\ SF_vars(Start)
    /\ SF_vars(SubmitText /\ Len(db'.turns) > Len(db.turns))
    /\ SF_vars(CompleteNextQuestion)
    /\ SF_vars(CompleteInterview)

FairSpec == Spec /\ Cooperation

-----------------------------------------------------------------------------
(* Safety *)

\* The variables have their types, and a handler never ends in one of the
\* states it only passes through (in_progress, preparing_question).
TypeOK ==
    /\ db \in Rows
    /\ saved \in Rows
    /\ issued \in 0..MaxChunks
    /\ stored \subseteq 1..issued
    /\ conn \in {"open", "closed"}
    /\ heard \in Nat
    /\ told \in Nat

CheckpointsSoundIn(d) ==
    /\ \A c \in d.checkpoints :
          /\ c.at \in 1..d.sequence
          /\ c.pending \in Questions(d) \cup {0}
          /\ c.final \in Finals(d) \cup {0}
          /\ c.media \in d.verified \cup {0}
    /\ \A c, e \in d.checkpoints : c.at = e.at => c = e

\* Every checkpoint is one the session reached, there is one per sequence (so
\* no handler runs into the unique constraint on it, which would roll the whole
\* connection back), and it names a question that was asked, an answer that is
\* final and a chunk that is verified.
CheckpointsSound == CheckpointsSoundIn(db) /\ CheckpointsSoundIn(saved)

VerifiedIn(d) == \A n \in d.verified : 1..n \subseteq d.verified \cap stored

\* The verified chunks have no gap and are all in the object store, so that the
\* highest verified sequence, which is all that a snapshot, a checkpoint and a
\* pause report of the recording, stands for every chunk below it.  This is so
\* although verification can stop half way and still be committed.
VerifiedRecordingHasNoGap == VerifiedIn(db) /\ VerifiedIn(saved)

CompletionIn(d) ==
    /\ Cardinality(Finals(d)) <= MaxQuestions
    /\ d.state = "completed" <=> Cardinality(Finals(d)) = MaxQuestions
    /\ d.state = "completed" <=> d.event # "none"

\* The session is completed, and interview.completed is in the outbox, exactly
\* when max_questions answers are final: never a completed session without its
\* event, an event without completion, or a last answer that completes nothing.
\* This is so whatever fails and wherever a handler is cut off.
CompletionExact == CompletionIn(db) /\ CompletionIn(saved)

PaceIn(d) ==
    /\ d.turns = <<>> <=> d.state = "preparing"
    /\ d.state \in {"awaiting_answer", "paused"} =>
          Cardinality(Questions(d)) = Cardinality(Finals(d)) + 1
    /\ d.state = "completed" => Cardinality(Questions(d)) = MaxQuestions
    /\ \A i \in Questions(d) :
          d.turns[i].number = Cardinality({j \in Questions(d) : j <= i})

\* As long as the strategy can be read, each question gets one final answer
\* before the next is asked, and the questions are asked in the strategy's
\* order, none skipped or asked twice, whatever is paused, repeated or lost.
QuestionsKeepPace == "strategy" \notin Faults => PaceIn(db) /\ PaceIn(saved)

ResumePointIn(d) ==
    d.state # "preparing" =>
        /\ Latest(d).at = d.sequence
        /\ Latest(d).pending = IF d.state = "completed" THEN 0 ELSE LastQuestion(d)
        /\ Latest(d).final = 0 <=> Finals(d) = {}

\* As long as the strategy can be read, the latest checkpoint is that of the
\* current sequence and points to the question that is still to be answered:
\* pausing and resuming any number of times loses neither it nor the last
\* final answer.
ResumePointCurrent ==
    "strategy" \notin Faults => ResumePointIn(db) /\ ResumePointIn(saved)

\* Unless the process dies, no connection ever finds the session behind a
\* sequence the applicant was told, and a closed connection left nothing
\* uncommitted.
NothingToldIsLost ==
    /\ "process" \notin Faults => told <= db.sequence
    /\ conn = "closed" => db = saved

\* What is committed only moves forward: the sequence does not fall, a question
\* or a final answer keeps its place and its content, checkpoints and verified
\* chunks stay, and nothing at all changes once the interview is completed.
Continues(d, e) ==
    /\ d.sequence <= e.sequence
    /\ \A i \in Questions(d) \cup Finals(d) : i \in DOMAIN e.turns /\ e.turns[i] = d.turns[i]
    /\ d.checkpoints \subseteq e.checkpoints
    /\ d.verified \subseteq e.verified
    /\ d.state = "completed" => e = d

CommittedOnlyAdvances == [][Continues(saved, saved')]_saved

-----------------------------------------------------------------------------
(* The abstract record the committed rows implement *)

Record == INSTANCE InterviewRecord WITH
    AnswersWanted <- MaxQuestions,
    answers       <- [i \in Finals(saved) |-> saved.turns[i]],
    phase         <- IF saved.state = "completed" THEN "completed" ELSE "open",
    announced     <- saved.event # "none"

\* The committed rows keep the promise of InterviewRecord through every pause,
\* reconnect, failing handler and crash.
ImplementsRecord == Record!Promise

-----------------------------------------------------------------------------
(* Liveness *)

\* With an applicant who cooperates, an interview whose first question could be
\* asked, at a process that at last stays alive, is completed and committed: no
\* sequence of pauses, failing handlers, stale messages and reconnects leaves a
\* session that can neither be answered nor resumed.
InterviewCompletes ==
    [](db.state # "preparing" => Shown) /\ <>[][~Crash]_vars => <>(saved.state = "completed")

=============================================================================
