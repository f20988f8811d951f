------------------------------ MODULE Reporting ------------------------------
(***************************************************************************)
(* From the interview to its report.  The first part is the interview as    *)
(* the stream handler leaves it behind: turns, recorded chunks, checkpoints  *)
(* (InterviewStream has the handlers; here a chunk has times).  The second   *)
(* part computes media, transcripts and report from those rows, the third is *)
(* the transactions that do: the completing connection's own, or those of    *)
(* the queue workers, which get every event at least once and in any order.  *)
(***************************************************************************)
EXTENDS Integers, Sequences, FiniteSets, FiniteSetsExt

CONSTANTS
    Workers,          \* queue workers that can be in a transaction at a time
    Criteria,         \* what a question can be about
    Second,           \* the 1 000 ms of a text-only range
    MaxQuestions,     \* the handler's max_questions
    MaxChunks,        \* bound: recorded chunks
    MaxTime,          \* bound: the recorder's clock
    MaxInterruptions  \* bound: pauses, and answers that are begun and left

ASSUME SecondAssumption == Second \in Nat \ {0}
ASSUME BoundsAssumption ==
    {MaxQuestions, MaxChunks, MaxTime, MaxInterruptions} \subseteq Nat

VARIABLES
    interview,     \* the interview's rows
    now,           \* the recorder's clock
    interrupted,   \* how many interruptions there were
    rows,          \* the committed rows of reporting, and of the outbox
    txn            \* per worker: its transaction

vars == <<interview, now, interrupted, rows, txn>>

-----------------------------------------------------------------------------
(* The interview *)

Question(criterion) == [speaker |-> "interviewer", criterion |-> criterion]

Answer(status) == [speaker |-> "applicant", status |-> status]

\* during: the place of the question that was open when the chunk was recorded.
Chunk(start, end, during) == [start |-> start, end |-> end, during |-> during]

Questions(turns) == {i \in DOMAIN turns : turns[i].speaker = "interviewer"}

Finals(turns) == {i \in DOMAIN turns : turns[i] = Answer("final")}

LastFinal(i) == Max(Finals(i.turns) \cup {0})

\* A checkpoint is kept as what reporting reads of it.
Checkpointed(i, media) ==
    [i EXCEPT !.checkpoints = Append(@, [final |-> LastFinal(i), media |-> media])]

\* verify_recording_chunks, when all chunks up to there are in the store.
Verified(i, through) == [i EXCEPT !.verified = Max({@, through})]

Open == interview.state = "awaiting_answer"

Record ==
    /\ Open
    /\ Len(interview.chunks) < MaxChunks
    /\ \E start \in now..MaxTime, end \in now..MaxTime :
          /\ start < end
          /\ interview' = [interview EXCEPT !.chunks =
                Append(@, Chunk(start, end, Max(Questions(interview.turns))))]
          /\ now' = end
    /\ UNCHANGED <<interrupted, rows, txn>>

Interrupted ==
    /\ Open
    /\ interrupted < MaxInterruptions
    /\ interrupted' = interrupted + 1
    /\ UNCHANGED <<now, rows, txn>>

\* _pause_message, after a verification or without one, and the resumption, whose
\* checkpoint says the same again.
Pause ==
    /\ Interrupted
    /\ \E through \in 0..Len(interview.chunks) :
          LET v == Verified(interview, through)
          IN  interview' = Checkpointed(v, v.verified)

\* The applicant begins an answer under an id and goes on under another.
LeaveAnswer ==
    /\ Interrupted
    /\ interview' = [interview EXCEPT !.turns = Append(@, Answer("recording"))]

Answered(through) ==
    LET v == Verified(interview, through)
    IN  Checkpointed([v EXCEPT !.turns = Append(@, Answer("final"))], through)

\* Answering takes time.
Answering(through) ==
    /\ Open
    /\ through \in 0..Len(interview.chunks)
    /\ now < MaxTime
    /\ now' = now + 1
    /\ UNCHANGED <<interrupted, txn>>

CompleteAnswer ==
    \E through \in 0..MaxChunks, criterion \in Criteria :
        /\ Answering(through)
        /\ Cardinality(Finals(interview.turns)) + 1 < MaxQuestions
        /\ interview' = [Answered(through) EXCEPT !.turns = Append(@, Question(criterion))]
        /\ UNCHANGED rows

-----------------------------------------------------------------------------
(* Media *)

\* The time up to which the chunks reach.
Cursor(chunks) == Max({chunks[k].end : k \in DOMAIN chunks} \cup {0})

VerifiedChunks(i) == SubSeq(i.chunks, 1, i.verified)

\* Takes a chunk's gap for missing only if nothing was recorded before it.
MutantGaps(chunks) ==
    {<<0, chunks[k].start>> : k \in {k \in DOMAIN chunks : k = 1 /\ chunks[k].start > 0}}

Gaps(chunks) ==
    {<<Cursor(SubSeq(chunks, 1, k - 1)), chunks[k].start>> :
        k \in {k \in DOMAIN chunks : chunks[k].start > Cursor(SubSeq(chunks, 1, k - 1))}}

\* The row that handle_event of media.postprocess_requested makes.
RecordingAsset(i) ==
    LET chunks == VerifiedChunks(i)
        duration == Max({1, Cursor(chunks)})
        missing == IF chunks = <<>> THEN {<<0, duration>>} ELSE Gaps(chunks)
    IN  [duration |-> duration, missing |-> missing,
         status |-> IF chunks = <<>> THEN "failed"
                    ELSE IF missing # {} THEN "partial" ELSE "ready"]

MediaAvailable(asset, start, end) ==
    /\ asset.status \in {"ready", "partial"}
    /\ 0 <= start /\ start < end /\ end <= asset.duration
    /\ \A gap \in asset.missing : ~(start < gap[2] /\ end > gap[1])

\* The rule TimelineService goes by: it does not look at the status.
Available(asset, range) ==
    /\ 0 <= range.start /\ range.start < range.end /\ range.end <= asset.duration
    /\ \A gap \in asset.missing : ~(range.start < gap[2] /\ range.end > gap[1])

-----------------------------------------------------------------------------
(* Transcripts *)

\* checkpoint_media.get(turn, default): a later checkpoint replaces an earlier one.
CheckpointMedia(i, turn, default) ==
    LET of == {c \in DOMAIN i.checkpoints : i.checkpoints[c].final = turn}
    IN  IF of = {} THEN default ELSE i.checkpoints[Max(of)].media

TimeRange(turn, start, end, media) == [turn |-> turn, start |-> start, end |-> end, media |-> media]

\* Starts from the chunks of the answer before again.
MutantAnswerRange(i, before, turn) ==
    LET last == CheckpointMedia(i, turn, before.previous)
        mine == {k \in 1..i.verified : k <= last}
        start == IF mine = {} THEN before.cursor ELSE Min({i.chunks[k].start : k \in mine})
        end == IF mine = {} THEN start + Second ELSE Max({i.chunks[k].end : k \in mine})
    IN  [ranges |-> Append(before.ranges, TimeRange(turn, start, end, mine # {})),
         previous |-> Max({before.previous, last}),
         cursor |-> Max({before.cursor, end})]

\* The next final answer's range: the chunks after those of the answers before it,
\* or, where there are none, a second of its own.
AnswerRange(i, before, turn) ==
    LET last == CheckpointMedia(i, turn, before.previous)
        mine == {k \in 1..i.verified : before.previous < k /\ k <= last}
        start == IF mine = {} THEN before.cursor ELSE Min({i.chunks[k].start : k \in mine})
        end == IF mine = {} THEN start + Second ELSE Max({i.chunks[k].end : k \in mine})
    IN  [ranges |-> Append(before.ranges, TimeRange(turn, start, end, mine # {})),
         previous |-> Max({before.previous, last}),
         cursor |-> Max({before.cursor, end})]

\* What the loop has when it is past the turn n.
Answers(i) ==
    LET upTo[n \in 0..Len(i.turns)] ==
            IF n = 0 THEN [ranges |-> <<>>, previous |-> 0, cursor |-> 0]
            ELSE IF n \in Finals(i.turns) THEN AnswerRange(i, upTo[n - 1], n)
            ELSE upTo[n - 1]
    IN  upTo[Len(i.turns)]

\* A question ends where the next answer begins, one without an answer (and an
\* answer that was left) comes after everything.
OtherRange(i, answers, turn) ==
    LET later == {a \in DOMAIN answers.ranges : answers.ranges[a].turn > turn}
        end == IF later = {} THEN answers.cursor + Second
               ELSE Max({1, answers.ranges[Min(later)].start})
        start == IF later = {} THEN answers.cursor ELSE Max({0, end - Second})
    IN  TimeRange(turn, start, end, FALSE)

Transcripts(i) ==
    LET answers == Answers(i)
    IN  [turn \in DOMAIN i.turns |->
            IF turn \in Finals(i.turns)
            THEN answers.ranges[CHOOSE a \in DOMAIN answers.ranges : answers.ranges[a].turn = turn]
            ELSE OtherRange(i, answers, turn)]

-----------------------------------------------------------------------------
(* The report *)

\* The first question about each criterion.
Items(turns) ==
    {q \in Questions(turns) :
        \A p \in Questions(turns) : turns[p].criterion = turns[q].criterion => q <= p}

\* The first final answer after a question; 0 is None.
AnswerTo(turns, q) ==
    LET later == {a \in Finals(turns) : a > q}
    IN  IF later = {} THEN 0 ELSE Min(later)

Confirmed(i, asset, transcripts, q) ==
    LET a == AnswerTo(i.turns, q)
    IN  a # 0 /\ MediaAvailable(asset, transcripts[a].start, transcripts[a].end)

ReportItem(i, asset, transcripts, q) ==
    [criterion |-> i.turns[q].criterion,
     evidence  |-> IF Confirmed(i, asset, transcripts, q)
                   THEN {transcripts[AnswerTo(i.turns, q)]} ELSE {}]

Report(i, asset, transcripts) ==
    LET items == {ReportItem(i, asset, transcripts, q) : q \in Items(i.turns)}
    IN  [items  |-> items,
         status |-> IF items # {} /\ \A item \in items : item.evidence # {}
                    THEN "ready" ELSE "partial"]

-----------------------------------------------------------------------------
(* What the company sees *)

\* get_timeline lists segments by their start, and those that start together by
\* their ids, which grow in the order of the turns.
ListedBefore(segments, a, b) ==
    \/ segments[a].start < segments[b].start
    \/ segments[a].start = segments[b].start /\ a < b

\* The first asset that can be played.
Playback(assets) ==
    LET playable == {k \in DOMAIN assets : assets[k].status \in {"ready", "partial"}}
    IN  IF playable = {} THEN "unavailable" ELSE assets[Min(playable)].status

-----------------------------------------------------------------------------
(* Handlers: the rows a handler adds, in a transaction that began to read when r *)
(* was committed.                                                            *)

\* An outbox row is known by its event: the unique key has the session and the kind in it.
NoRows == [outbox |-> {}, assets |-> <<>>, transcripts |-> <<>>, reports |-> <<>>]

And(r, new) ==
    [outbox |-> r.outbox \cup new.outbox, assets |-> r.assets \o new.assets,
     transcripts |-> r.transcripts \o new.transcripts, reports |-> r.reports \o new.reports]

Events == {"interview.completed", "media.postprocess_requested",
           "report.generation_requested", "report.ready"}

\* SQLAlchemyMediaPostprocessHandler; its session event goes with the asset.
Media(i, r) ==
    IF r.assets # <<>> THEN NoRows ELSE [NoRows EXCEPT !.assets = <<RecordingAsset(i)>>]

\* SQLAlchemyReportGenerationHandler; _persist_transcripts uses what is there.
Generation(i, r) ==
    LET all == IF r.transcripts # <<>> THEN Head(r.transcripts) ELSE Transcripts(i)
    IN  IF r.reports # <<>> THEN NoRows
        ELSE [NoRows EXCEPT !.transcripts = IF r.transcripts # <<>> THEN <<>> ELSE <<all>>,
                            !.reports = <<Report(i, Head(r.assets), all)>>]

Outbox(event) == [NoRows EXCEPT !.outbox = {event}]

\* SQLAlchemyReportingCompletionHandler once it has found no report.
Completion(i, r) ==
    LET requested == Outbox("media.postprocess_requested")
        processed == And(requested, Media(i, And(r, requested)))
        asked     == And(processed, Outbox("report.generation_requested"))
        generated == And(asked, Generation(i, And(r, asked)))
    IN  And(generated, Outbox("report.ready"))

-----------------------------------------------------------------------------
(* Transactions *)

Idle == [phase |-> "idle", event |-> "none", new |-> NoRows]

Has(r, event) == event \in r.outbox

\* _publish_completion: with the handler in process, all in the connection's
\* transaction; without one, or when it raises before it writes, the event alone.
CompleteInterview ==
    \E through \in 0..MaxChunks :
        LET i == [Answered(through) EXCEPT !.state = "completed"]
            r == And(rows, Outbox("interview.completed"))
        IN  /\ Answering(through)
            /\ Cardinality(Finals(interview.turns)) + 1 >= MaxQuestions
            /\ interview' = i
            /\ rows' \in {r, And(r, Completion(i, r))}

\* A worker gets an event; for a completion it looks for the report at once.
Receive(w) ==
    /\ txn[w] = Idle
    /\ \E event \in Events \ {"report.ready"} :
          /\ Has(rows, event)
          /\ event = "interview.completed" => rows.reports = <<>>
          /\ txn' = [txn EXCEPT ![w] = [Idle EXCEPT !.phase = "found", !.event = event]]
    /\ UNCHANGED <<interview, now, interrupted, rows>>

\* Nothing keeps two transactions from adding the same request.
MutantFree(w) == TRUE

\* No committed row and no other transaction's row has media-postprocess:{session}:v1;
\* outbox.add raises on the first, and waits for the second.
Free(w) ==
    /\ ~Has(rows, "media.postprocess_requested")
    /\ \A v \in Workers \ {w} : ~Has(txn[v].new, "media.postprocess_requested")

Written(w, new) ==
    /\ txn[w].phase = "found"
    /\ txn' = [txn EXCEPT ![w].phase = "written", ![w].new = new]
    /\ UNCHANGED <<interview, now, interrupted, rows>>

\* get_completed_session_snapshot gives its rows only of a completed session.
Snapshot == interview.state = "completed"

HandleCompletion(w) ==
    /\ txn[w].event = "interview.completed"
    /\ Snapshot
    /\ Free(w)
    /\ Written(w, Completion(interview, rows))

HandleMedia(w) ==
    /\ txn[w].event = "media.postprocess_requested"
    /\ Written(w, Media(interview, rows))

HandleGeneration(w) ==
    /\ txn[w].event = "report.generation_requested"
    /\ Written(w, Generation(interview, rows))

Commit(w) ==
    /\ txn[w].phase = "written"
    /\ rows' = And(rows, txn[w].new)
    /\ txn' = [txn EXCEPT ![w] = Idle]
    /\ UNCHANGED <<interview, now, interrupted>>

\* A conflict, a failure or a crash; the event is delivered again.
RollBack(w) ==
    /\ txn[w] # Idle
    /\ txn' = [txn EXCEPT ![w] = Idle]
    /\ UNCHANGED <<interview, now, interrupted, rows>>

Init ==
    /\ \E criterion \in Criteria :
          interview = [turns |-> <<Question(criterion)>>, chunks |-> <<>>, verified |-> 0,
                       checkpoints |-> <<[final |-> 0, media |-> 0]>>, state |-> "awaiting_answer"]
    /\ now = 0 /\ interrupted = 0
    /\ rows = NoRows
    /\ txn = [w \in Workers |-> Idle]

Next ==
    \/ Record \/ Pause \/ LeaveAnswer \/ CompleteAnswer \/ CompleteInterview
    \/ \E w \in Workers :
          \/ Receive(w) \/ HandleCompletion(w) \/ HandleMedia(w) \/ HandleGeneration(w)
          \/ Commit(w) \/ RollBack(w)

Spec == Init /\ [][Next]_vars

-----------------------------------------------------------------------------
(* However often an event is delivered and whichever transactions overlap,   *)
(* there is at most one asset, one set of transcripts and one report, and a   *)
(* report has all of it with it.                                             *)
OneReport ==
    /\ \A table \in {"assets", "transcripts", "reports"} : Len(rows[table]) <= 1
    /\ rows.reports # <<>> =>
          rows.assets # <<>> /\ rows.transcripts # <<>> /\ Has(rows, "report.ready")

IsRecorded(range) ==
    \A t \in range.start..(range.end - 1) :
        \E c \in 1..interview.verified :
            interview.chunks[c].start <= t /\ t < interview.chunks[c].end

(* Every moment of a range that is given as evidence is in a verified chunk    *)
(* and can be played, and what is told apart as available by the other rule,    *)
(* RecordingAsset.available, is just what is recorded: a gap is never taken for *)
(* an answer.                                                                 *)
EvidenceIsRecorded ==
    \A k \in DOMAIN rows.reports :
        /\ \A item \in rows.reports[k].items : \A e \in item.evidence :
              IsRecorded(e) /\ Playback(rows.assets) # "unavailable"
        /\ \A turn \in DOMAIN rows.transcripts[k] :
              LET range == rows.transcripts[k][turn]
              IN  Available(rows.assets[k], range) <=> IsRecorded(range)

(* No matter how checkpoints re-key the media, two answers never get the same  *)
(* recorded time, and the timeline never lists an answer before its question,  *)
(* whose own range is made up from the answer's.                              *)
AnswersDoNotShareMedia ==
    \A k \in DOMAIN rows.transcripts :
        LET segments == rows.transcripts[k]
            media == {t \in DOMAIN segments : segments[t].media}
        IN  /\ \A a, b \in media : a < b => segments[a].end <= segments[b].start
            /\ \A q \in Questions(interview.turns) :
                  LET a == AnswerTo(interview.turns, q)
                  IN  a # 0 => ListedBefore(segments, q, a)
=============================================================================
